----------------------------- MODULE MCBudget -----------------------------
(* Small instances of Budget. *)
EXTENDS Budget, TLC

CONSTANTS r1, r2

TwoRequests   == {r1, r2}

\* A windowed one, one that lacks the model's price and a fixed one.
ThreeKinds == <<"hourly", "priced", "fixed">>
AllOrFixed == {{}, {"priced", "hourly"}}
OnlyHourly == {"hourly"}

OneModel  == [r \in Requests |-> "m"]
UnitCost  == [r \in Requests |-> 1]
LimitOne  == [s \in SubIds |-> 1]
WeekOnHourly == [s \in SubIds |-> IF s = "hourly" THEN 1 ELSE 0]
ModelOnFixed == [s \in SubIds |-> IF s = "fixed" THEN 1 ELSE 0]
NotOnPriced  == {<<"priced", "m">>}
OneStream == {r1}
=============================================================================
