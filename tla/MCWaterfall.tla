---------------------------- MODULE MCWaterfall ----------------------------
(* Small instances of Waterfall. *)
EXTENDS Waterfall

\* A success, a client error, an error the client sees, a failover status.
FourStatuses == {200, 400, 404, 429}

\* No error that is judged or passed on by its body.
TwoStatuses == {200, 429}

TwoServers    == {1, 2}
ThreeServers  == {1, 2, 3}
OnlyFailover  == {429}
Failover400   == {400, 429}
RetryOn429    == {429}

\* Every request shape.
AllRequests == Shapes

\* Requests for an answer in one piece.
PlainRequests == {r \in Shapes : r.path # "countTokens" /\ ~r.stream}
=============================================================================
