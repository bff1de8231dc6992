------------------------- MODULE ConfigCacheProofs -------------------------
(***************************************************************************)
(* The tables and the caches of ConfigCache, for every set of rows and     *)
(* every plan.                                                             *)
(*                                                                         *)
(* The first half is about the tables: what a write to one of them keeps   *)
(* of the foreign keys, the writes that reach several, the lists of tasks, *)
(* and one lemma for each file of handlers: their first statements, and    *)
(* the statements that follow.                                             *)
(*                                                                         *)
(* The second half is about the caches: every handler deletes what its     *)
(* writes make stale.  A stale entry is about to be deleted by a task that *)
(* is sure to delete it.  A write keeps that so for the entries that were  *)
(* stale before, since what takes an entry out of a task's reach changes   *)
(* the entry too; and it is followed by the tasks for those that it makes  *)
(* stale itself.                                                           *)
(***************************************************************************)
EXTENDS ConfigCache, FiniteSetTheorems, TLAPS

-----------------------------------------------------------------------------
(* The tables *)

\* Tables that have their types and agree with each other.
DbOK(d) == d \in DbType /\ Referential(d)

\* What a row refers to is something a row can be of.
LEMMA Related ==
    ASSUME NEW d, DbOK(d)
    PROVE  /\ \A k \in Keys : d.key[k] # None => d.key[k].group \in Groups
           /\ \A g \in Groups : d.group[g] # None => d.group[g].ct \in Servers \cup {None}
           /\ \A p \in Groups \X Servers : p[1] \in Groups /\ p[2] \in Servers
           /\ \A p \in d.keyServers : p[1] \in Keys /\ p[2] \in Servers
           /\ \A p \in d.allowed : p[1] \in Groups /\ p[2] \in Models
           /\ \A p \in d.keyAllowed : p[1] \in Keys /\ p[2] \in Models
           /\ \A p \in d.blocked : p[1] \in Groups
BY DEF DbOK, DbType, KeyRows, GroupRows

\* A write to the groups.
LEMMA PutGroup ==
    ASSUME NEW d, DbOK(d), NEW t \in [Groups -> GroupRows \cup {None}],
           \A g \in Groups : d.group[g] # None => t[g] # None,
           \A g \in Groups : t[g] # None /\ t[g].ct # None => d.server[t[g].ct] # None
    PROVE  DbOK([d EXCEPT !.group = t])
<1> DEFINE e == [d EXCEPT !.group = t]
<1>1. /\ e \in DbType /\ e.group = t /\ e.key = d.key /\ e.server = d.server
      /\ e.chain = d.chain /\ e.keyServers = d.keyServers /\ e.model = d.model
      /\ e.allowed = d.allowed /\ e.keyAllowed = d.keyAllowed /\ e.blocked = d.blocked
      /\ e.setting = d.setting /\ e.endpoints = d.endpoints /\ e.limit = d.limit
      /\ e.subs = d.subs
  BY DEF DbType, DbOK
<1> HIDE DEF e
<1>2. Referential(e)
  BY <1>1, Related DEF DbOK, Referential
<1> QED BY <1>1, <1>2 DEF e, DbOK

\* A write to the sub-keys.
LEMMA PutKey ==
    ASSUME NEW d, DbOK(d), NEW t \in [Keys -> KeyRows \cup {None}],
           \A k \in Keys : d.key[k] # None => t[k] # None,
           \A k \in Keys : t[k] # None => d.group[t[k].group] # None
    PROVE  DbOK([d EXCEPT !.key = t])
<1> DEFINE e == [d EXCEPT !.key = t]
<1>1. /\ e \in DbType /\ e.key = t /\ e.group = d.group /\ e.server = d.server
      /\ e.chain = d.chain /\ e.keyServers = d.keyServers /\ e.model = d.model
      /\ e.allowed = d.allowed /\ e.keyAllowed = d.keyAllowed /\ e.blocked = d.blocked
      /\ e.setting = d.setting /\ e.endpoints = d.endpoints /\ e.limit = d.limit
      /\ e.subs = d.subs
  BY DEF DbType, DbOK
<1> HIDE DEF e
<1>2. Referential(e)
  BY <1>1, Related DEF DbOK, Referential
<1> QED BY <1>1, <1>2 DEF e, DbOK

\* A write to the servers.
LEMMA PutServer ==
    ASSUME NEW d, DbOK(d), NEW t \in [Servers -> Versions \cup {None}],
           \A s \in Servers : d.server[s] # None => t[s] # None
    PROVE  DbOK([d EXCEPT !.server = t])
<1> DEFINE e == [d EXCEPT !.server = t]
<1>1. /\ e \in DbType /\ e.server = t /\ e.group = d.group /\ e.key = d.key
      /\ e.chain = d.chain /\ e.keyServers = d.keyServers /\ e.model = d.model
      /\ e.allowed = d.allowed /\ e.keyAllowed = d.keyAllowed /\ e.blocked = d.blocked
      /\ e.setting = d.setting /\ e.endpoints = d.endpoints /\ e.limit = d.limit
      /\ e.subs = d.subs
  BY DEF DbType, DbOK
<1> HIDE DEF e
<1>2. Referential(e)
  BY <1>1, Related DEF DbOK, Referential
<1> QED BY <1>1, <1>2 DEF e, DbOK

\* A write to the chains.
LEMMA PutChain ==
    ASSUME NEW d, DbOK(d), NEW t \in [Groups \X Servers -> AssignRows \cup {None}],
           \A p \in Groups \X Servers : t[p] # None => d.group[p[1]] # None /\ d.server[p[2]] # None
    PROVE  DbOK([d EXCEPT !.chain = t])
<1> DEFINE e == [d EXCEPT !.chain = t]
<1>1. /\ e \in DbType /\ e.chain = t /\ e.group = d.group /\ e.key = d.key
      /\ e.server = d.server /\ e.keyServers = d.keyServers /\ e.model = d.model
      /\ e.allowed = d.allowed /\ e.keyAllowed = d.keyAllowed /\ e.blocked = d.blocked
      /\ e.setting = d.setting /\ e.endpoints = d.endpoints /\ e.limit = d.limit
      /\ e.subs = d.subs
  BY DEF DbType, DbOK
<1> HIDE DEF e
<1>2. Referential(e)
  BY <1>1, Related DEF DbOK, Referential
<1> QED BY <1>1, <1>2 DEF e, DbOK

\* A write to the servers of sub-keys.
LEMMA PutKeyServers ==
    ASSUME NEW d, DbOK(d), NEW t \in SUBSET (Keys \X Servers),
           \A p \in t : d.key[p[1]] # None /\ d.server[p[2]] # None
    PROVE  DbOK([d EXCEPT !.keyServers = t])
<1> DEFINE e == [d EXCEPT !.keyServers = t]
<1>1. /\ e \in DbType /\ e.keyServers = t /\ e.group = d.group /\ e.key = d.key
      /\ e.server = d.server /\ e.chain = d.chain /\ e.model = d.model
      /\ e.allowed = d.allowed /\ e.keyAllowed = d.keyAllowed /\ e.blocked = d.blocked
      /\ e.setting = d.setting /\ e.endpoints = d.endpoints /\ e.limit = d.limit
      /\ e.subs = d.subs
  BY DEF DbType, DbOK
<1> HIDE DEF e
<1>2. Referential(e)
  BY <1>1, Related DEF DbOK, Referential
<1> QED BY <1>1, <1>2 DEF e, DbOK

\* A write to the models.
LEMMA PutModel ==
    ASSUME NEW d, DbOK(d), NEW t \in [Models -> Versions \cup {None}],
           \A m \in Models : d.model[m] # None => t[m] # None
    PROVE  DbOK([d EXCEPT !.model = t])
<1> DEFINE e == [d EXCEPT !.model = t]
<1>1. /\ e \in DbType /\ e.model = t /\ e.group = d.group /\ e.key = d.key
      /\ e.server = d.server /\ e.chain = d.chain /\ e.keyServers = d.keyServers
      /\ e.allowed = d.allowed /\ e.keyAllowed = d.keyAllowed /\ e.blocked = d.blocked
      /\ e.setting = d.setting /\ e.endpoints = d.endpoints /\ e.limit = d.limit
      /\ e.subs = d.subs
  BY DEF DbType, DbOK
<1> HIDE DEF e
<1>2. Referential(e)
  BY <1>1, Related DEF DbOK, Referential
<1> QED BY <1>1, <1>2 DEF e, DbOK

\* A write to the models of groups.
LEMMA PutAllowed ==
    ASSUME NEW d, DbOK(d), NEW t \in SUBSET (Groups \X Models),
           \A p \in t : d.group[p[1]] # None /\ d.model[p[2]] # None
    PROVE  DbOK([d EXCEPT !.allowed = t])
<1> DEFINE e == [d EXCEPT !.allowed = t]
<1>1. /\ e \in DbType /\ e.allowed = t /\ e.group = d.group /\ e.key = d.key
      /\ e.server = d.server /\ e.chain = d.chain /\ e.keyServers = d.keyServers
      /\ e.model = d.model /\ e.keyAllowed = d.keyAllowed /\ e.blocked = d.blocked
      /\ e.setting = d.setting /\ e.endpoints = d.endpoints /\ e.limit = d.limit
      /\ e.subs = d.subs
  BY DEF DbType, DbOK
<1> HIDE DEF e
<1>2. Referential(e)
  BY <1>1, Related DEF DbOK, Referential
<1> QED BY <1>1, <1>2 DEF e, DbOK

\* A write to the models of sub-keys.
LEMMA PutKeyAllowed ==
    ASSUME NEW d, DbOK(d), NEW t \in SUBSET (Keys \X Models),
           \A p \in t : d.key[p[1]] # None /\ d.model[p[2]] # None
    PROVE  DbOK([d EXCEPT !.keyAllowed = t])
<1> DEFINE e == [d EXCEPT !.keyAllowed = t]
<1>1. /\ e \in DbType /\ e.keyAllowed = t /\ e.group = d.group /\ e.key = d.key
      /\ e.server = d.server /\ e.chain = d.chain /\ e.keyServers = d.keyServers
      /\ e.model = d.model /\ e.allowed = d.allowed /\ e.blocked = d.blocked
      /\ e.setting = d.setting /\ e.endpoints = d.endpoints /\ e.limit = d.limit
      /\ e.subs = d.subs
  BY DEF DbType, DbOK
<1> HIDE DEF e
<1>2. Referential(e)
  BY <1>1, Related DEF DbOK, Referential
<1> QED BY <1>1, <1>2 DEF e, DbOK

\* A write to the blocked agents.
LEMMA PutBlocked ==
    ASSUME NEW d, DbOK(d), NEW t \in SUBSET (Groups \X Agents),
           \A p \in t : d.group[p[1]] # None
    PROVE  DbOK([d EXCEPT !.blocked = t])
<1> DEFINE e == [d EXCEPT !.blocked = t]
<1>1. /\ e \in DbType /\ e.blocked = t /\ e.group = d.group /\ e.key = d.key
      /\ e.server = d.server /\ e.chain = d.chain /\ e.keyServers = d.keyServers
      /\ e.model = d.model /\ e.allowed = d.allowed /\ e.keyAllowed = d.keyAllowed
      /\ e.setting = d.setting /\ e.endpoints = d.endpoints /\ e.limit = d.limit
      /\ e.subs = d.subs
  BY DEF DbType, DbOK
<1> HIDE DEF e
<1>2. Referential(e)
  BY <1>1, Related DEF DbOK, Referential
<1> QED BY <1>1, <1>2 DEF e, DbOK

\* A write to the settings.
LEMMA PutSetting ==
    ASSUME NEW d, DbOK(d), NEW t \in [Settings -> Versions]
    PROVE  DbOK([d EXCEPT !.setting = t])
<1> DEFINE e == [d EXCEPT !.setting = t]
<1>1. /\ e \in DbType /\ e.setting = t /\ e.group = d.group /\ e.key = d.key
      /\ e.server = d.server /\ e.chain = d.chain /\ e.keyServers = d.keyServers
      /\ e.model = d.model /\ e.allowed = d.allowed /\ e.keyAllowed = d.keyAllowed
      /\ e.blocked = d.blocked /\ e.endpoints = d.endpoints /\ e.limit = d.limit
      /\ e.subs = d.subs
  BY DEF DbType, DbOK
<1> HIDE DEF e
<1>2. Referential(e)
  BY <1>1, Related DEF DbOK, Referential
<1> QED BY <1>1, <1>2 DEF e, DbOK

\* A write to the endpoints.
LEMMA PutEndpoints ==
    ASSUME NEW d, DbOK(d), NEW t \in [Keys -> Versions]
    PROVE  DbOK([d EXCEPT !.endpoints = t])
<1> DEFINE e == [d EXCEPT !.endpoints = t]
<1>1. /\ e \in DbType /\ e.endpoints = t /\ e.group = d.group /\ e.key = d.key
      /\ e.server = d.server /\ e.chain = d.chain /\ e.keyServers = d.keyServers
      /\ e.model = d.model /\ e.allowed = d.allowed /\ e.keyAllowed = d.keyAllowed
      /\ e.blocked = d.blocked /\ e.setting = d.setting /\ e.limit = d.limit
      /\ e.subs = d.subs
  BY DEF DbType, DbOK
<1> HIDE DEF e
<1>2. Referential(e)
  BY <1>1, Related DEF DbOK, Referential
<1> QED BY <1>1, <1>2 DEF e, DbOK

\* A write to the plan's limits.
LEMMA PutLimit ==
    ASSUME NEW d, DbOK(d), NEW t \in Versions
    PROVE  DbOK([d EXCEPT !.limit = t])
<1> DEFINE e == [d EXCEPT !.limit = t]
<1>1. /\ e \in DbType /\ e.limit = t /\ e.group = d.group /\ e.key = d.key
      /\ e.server = d.server /\ e.chain = d.chain /\ e.keyServers = d.keyServers
      /\ e.model = d.model /\ e.allowed = d.allowed /\ e.keyAllowed = d.keyAllowed
      /\ e.blocked = d.blocked /\ e.setting = d.setting /\ e.endpoints = d.endpoints
      /\ e.subs = d.subs
  BY DEF DbType, DbOK
<1> HIDE DEF e
<1>2. Referential(e)
  BY <1>1, Related DEF DbOK, Referential
<1> QED BY <1>1, <1>2 DEF e, DbOK

\* A write to the subscriptions.
LEMMA PutSubs ==
    ASSUME NEW d, DbOK(d), NEW t \in [Keys -> SubRows \cup {None}],
           \A k \in Keys : t[k] # None => d.key[k] # None
    PROVE  DbOK([d EXCEPT !.subs = t])
<1> DEFINE e == [d EXCEPT !.subs = t]
<1>1. /\ e \in DbType /\ e.subs = t /\ e.group = d.group /\ e.key = d.key
      /\ e.server = d.server /\ e.chain = d.chain /\ e.keyServers = d.keyServers
      /\ e.model = d.model /\ e.allowed = d.allowed /\ e.keyAllowed = d.keyAllowed
      /\ e.blocked = d.blocked /\ e.setting = d.setting /\ e.endpoints = d.endpoints
      /\ e.limit = d.limit
  BY DEF DbType, DbOK
<1> HIDE DEF e
<1>2. Referential(e)
  BY <1>1, Related DEF DbOK, Referential
<1> QED BY <1>1, <1>2 DEF e, DbOK

\* A row of each.
LEMMA PutGroupRow ==
    ASSUME NEW d, DbOK(d), NEW g \in Groups, NEW row \in GroupRows,
           row.ct # None => d.server[row.ct] # None
    PROVE  DbOK([d EXCEPT !.group[g] = row])
<1> DEFINE t == [d.group EXCEPT ![g] = row]
<1>1. /\ d.group \in [Groups -> GroupRows \cup {None}]
      /\ \A h \in Groups : d.group[h] # None /\ d.group[h].ct # None =>
            d.server[d.group[h].ct] # None
  BY DEF DbOK, DbType, Referential
<1>2. /\ t \in [Groups -> GroupRows \cup {None}] /\ t[g] = row
      /\ \A h \in Groups : h # g => t[h] = d.group[h]
  BY <1>1
<1>3. [d EXCEPT !.group[g] = row] = [d EXCEPT !.group = t]
  BY DEF DbOK, DbType
<1> HIDE DEF t
<1>4. row # None
  BY RowsAssumption
<1>5. DbOK([d EXCEPT !.group = t])
  BY <1>1, <1>2, <1>4, PutGroup
<1> QED BY <1>3, <1>5

\* The same of a sub-key.
LEMMA PutKeyRow ==
    ASSUME NEW d, DbOK(d), NEW k \in Keys, NEW row \in KeyRows, d.group[row.group] # None
    PROVE  DbOK([d EXCEPT !.key[k] = row])
<1> DEFINE t == [d.key EXCEPT ![k] = row]
<1>1. /\ d.key \in [Keys -> KeyRows \cup {None}]
      /\ \A h \in Keys : d.key[h] # None => d.group[d.key[h].group] # None
  BY DEF DbOK, DbType, Referential
<1>2. /\ t \in [Keys -> KeyRows \cup {None}] /\ t[k] = row
      /\ \A h \in Keys : h # k => t[h] = d.key[h]
  BY <1>1
<1>3. [d EXCEPT !.key[k] = row] = [d EXCEPT !.key = t]
  BY DEF DbOK, DbType
<1> HIDE DEF t
<1>4. row # None
  BY RowsAssumption
<1>5. DbOK([d EXCEPT !.key = t])
  BY <1>1, <1>2, <1>4, PutKey
<1> QED BY <1>3, <1>5

\* Of a server.
LEMMA PutServerRow ==
    ASSUME NEW d, DbOK(d), NEW s \in Servers, NEW row \in Versions
    PROVE  DbOK([d EXCEPT !.server[s] = row])
<1> DEFINE t == [d.server EXCEPT ![s] = row]
<1>1. d.server \in [Servers -> Versions \cup {None}]
  BY DEF DbOK, DbType
<1>2. /\ t \in [Servers -> Versions \cup {None}]
      /\ \A x \in Servers : d.server[x] # None => t[x] # None
  BY <1>1, RowsAssumption
<1>3. [d EXCEPT !.server[s] = row] = [d EXCEPT !.server = t]
  BY DEF DbOK, DbType
<1> HIDE DEF t
<1>4. DbOK([d EXCEPT !.server = t])
  BY <1>2, PutServer
<1> QED BY <1>3, <1>4

\* Of a chain.
LEMMA PutChainRow ==
    ASSUME NEW d, DbOK(d), NEW g \in Groups, NEW s \in Servers, NEW row \in AssignRows \cup {None},
           row # None => d.group[g] # None /\ d.server[s] # None
    PROVE  DbOK([d EXCEPT !.chain[<<g, s>>] = row])
<1> DEFINE p == <<g, s>>
           t == [d.chain EXCEPT ![p] = row]
<1>1. /\ d.chain \in [Groups \X Servers -> AssignRows \cup {None}]
      /\ \A q \in Groups \X Servers :
            d.chain[q] # None => d.group[q[1]] # None /\ d.server[q[2]] # None
      /\ p \in Groups \X Servers /\ p[1] = g /\ p[2] = s
  BY DEF DbOK, DbType, Referential
<1>2. [d EXCEPT !.chain[<<g, s>>] = row] = [d EXCEPT !.chain = t]
  BY DEF DbOK, DbType
<1> HIDE DEF p
<1>3. /\ t \in [Groups \X Servers -> AssignRows \cup {None}] /\ t[p] = row
      /\ \A q \in Groups \X Servers : q # p => t[q] = d.chain[q]
  BY <1>1
<1> HIDE DEF t
<1>4. DbOK([d EXCEPT !.chain = t])
  BY <1>1, <1>3, PutChain, ZenonT(40)
<1> QED BY <1>2, <1>4

\* Of a model.
LEMMA PutModelRow ==
    ASSUME NEW d, DbOK(d), NEW m \in Models, NEW row \in Versions
    PROVE  DbOK([d EXCEPT !.model[m] = row])
<1> DEFINE t == [d.model EXCEPT ![m] = row]
<1>1. d.model \in [Models -> Versions \cup {None}]
  BY DEF DbOK, DbType
<1>2. /\ t \in [Models -> Versions \cup {None}]
      /\ \A x \in Models : d.model[x] # None => t[x] # None
  BY <1>1, RowsAssumption
<1>3. [d EXCEPT !.model[m] = row] = [d EXCEPT !.model = t]
  BY DEF DbOK, DbType
<1> HIDE DEF t
<1>4. DbOK([d EXCEPT !.model = t])
  BY <1>2, PutModel
<1> QED BY <1>3, <1>4

\* Of the endpoints of a sub-key.
LEMMA PutEndpointsRow ==
    ASSUME NEW d, DbOK(d), NEW k \in Keys, NEW row \in Versions
    PROVE  DbOK([d EXCEPT !.endpoints[k] = row])
<1> DEFINE t == [d.endpoints EXCEPT ![k] = row]
<1>1. t \in [Keys -> Versions]
  BY DEF DbOK, DbType
<1>2. [d EXCEPT !.endpoints[k] = row] = [d EXCEPT !.endpoints = t]
  BY DEF DbOK, DbType
<1> HIDE DEF t
<1> QED BY <1>1, <1>2, PutEndpoints

\* Of a subscription.
LEMMA PutSubsRow ==
    ASSUME NEW d, DbOK(d), NEW k \in Keys, NEW row \in SubRows \cup {None},
           row # None => d.key[k] # None
    PROVE  DbOK([d EXCEPT !.subs[k] = row])
<1> DEFINE t == [d.subs EXCEPT ![k] = row]
<1>1. /\ d.subs \in [Keys -> SubRows \cup {None}]
      /\ \A h \in Keys : d.subs[h] # None => d.key[h] # None
  BY DEF DbOK, DbType, Referential
<1>2. /\ t \in [Keys -> SubRows \cup {None}] /\ t[k] = row
      /\ \A h \in Keys : h # k => t[h] = d.subs[h]
  BY <1>1
<1>3. [d EXCEPT !.subs[k] = row] = [d EXCEPT !.subs = t]
  BY DEF DbOK, DbType
<1> HIDE DEF t
<1>4. DbOK([d EXCEPT !.subs = t])
  BY <1>1, <1>2, PutSubs
<1> QED BY <1>3, <1>4

\* Sub-keys that are removed with what refers to them.
LEMMA KeysGone ==
    ASSUME NEW d, DbOK(d), NEW ks \in SUBSET Keys
    PROVE  /\ DbOK(WithoutKeys(ks, d))
           /\ \A k \in Keys : WithoutKeys(ks, d).key[k] = IF k \in ks THEN None ELSE d.key[k]
           /\ LET e == WithoutKeys(ks, d)
              IN  e.group = d.group /\ e.chain = d.chain /\ e.allowed = d.allowed /\ e.blocked = d.blocked
<1> DEFINE e == WithoutKeys(ks, d)
<1>1. /\ e \in DbType /\ e.group = d.group /\ e.server = d.server /\ e.chain = d.chain
      /\ e.model = d.model /\ e.allowed = d.allowed /\ e.blocked = d.blocked
      /\ e.setting = d.setting /\ e.endpoints = d.endpoints /\ e.limit = d.limit
      /\ e.key = [k \in Keys |-> IF k \in ks THEN None ELSE d.key[k]]
      /\ e.subs = [k \in Keys |-> IF k \in ks THEN None ELSE d.subs[k]]
      /\ e.keyServers = d.keyServers \ (ks \X Servers)
      /\ e.keyAllowed = d.keyAllowed \ (ks \X Models)
  BY ZenonT(40) DEF DbType, DbOK, WithoutKeys
<1> HIDE DEF e
<1>2. \A p \in e.keyServers \cup e.keyAllowed : p[1] \notin ks
  BY <1>1, Related DEF DbOK, DbType
<1>3. Referential(e)
  BY <1>1, <1>2, Related DEF DbOK, Referential
<1> QED BY <1>1, <1>3 DEF e, DbOK

\* Groups that are removed with what refers to them.
LEMMA GroupsGone ==
    ASSUME NEW d, DbOK(d), NEW gs \in SUBSET Groups
    PROVE  DbOK(WithoutGroups(gs, d))
<1> DEFINE ks == UNION {KeysOf(g, d) : g \in gs}
           b == WithoutKeys(ks, d)
           e == WithoutGroups(gs, d)
<1>1. ks \in SUBSET Keys
  BY DEF KeysOf
<1>2. /\ DbOK(b) /\ \A k \in Keys : b.key[k] = IF k \in ks THEN None ELSE d.key[k]
      /\ b.group = d.group /\ b.chain = d.chain /\ b.allowed = d.allowed /\ b.blocked = d.blocked
  <2> HIDE DEF ks
  <2>1. ks \in SUBSET Keys
    BY <1>1
  <2> QED BY <2>1, KeysGone
<1>3. e = [b EXCEPT
        !.group = [g \in Groups |-> IF g \in gs THEN None ELSE d.group[g]],
        !.chain = [p \in Groups \X Servers |-> IF p[1] \in gs THEN None ELSE d.chain[p]],
        !.allowed = @ \ (gs \X Models),
        !.blocked = @ \ (gs \X Agents)]
  BY DEF WithoutGroups
<1> HIDE DEF e, b
<1>4. /\ e \in DbType /\ e.key = b.key /\ e.server = b.server /\ e.keyServers = b.keyServers
      /\ e.model = b.model /\ e.keyAllowed = b.keyAllowed /\ e.subs = b.subs
      /\ e.group = [g \in Groups |-> IF g \in gs THEN None ELSE d.group[g]]
      /\ e.chain = [p \in Groups \X Servers |-> IF p[1] \in gs THEN None ELSE d.chain[p]]
      /\ e.allowed = b.allowed \ (gs \X Models) /\ e.blocked = b.blocked \ (gs \X Agents)
  <2> DEFINE gr == [g \in Groups |-> IF g \in gs THEN None ELSE d.group[g]]
             ch == [p \in Groups \X Servers |-> IF p[1] \in gs THEN None ELSE d.chain[p]]
  <2>1. b \in DbType /\ d \in DbType
    BY <1>2 DEF DbOK
  <2>2. gr \in [Groups -> GroupRows \cup {None}]
    BY <2>1 DEF DbType
  <2>3. ch \in [Groups \X Servers -> AssignRows \cup {None}]
    BY <2>1 DEF DbType
  <2> HIDE DEF gr, ch
  <2>4. e = [b EXCEPT !.group = gr, !.chain = ch, !.allowed = b.allowed \ (gs \X Models),
                      !.blocked = b.blocked \ (gs \X Agents)]
    BY <1>3 DEF gr, ch
  <2>5. /\ e \in DbType /\ e.key = b.key /\ e.server = b.server /\ e.keyServers = b.keyServers
        /\ e.model = b.model /\ e.keyAllowed = b.keyAllowed /\ e.subs = b.subs
        /\ e.group = gr /\ e.chain = ch
        /\ e.allowed = b.allowed \ (gs \X Models) /\ e.blocked = b.blocked \ (gs \X Agents)
    BY <2>1, <2>2, <2>3, <2>4, ZenonT(40) DEF DbType
  <2> QED BY <2>5 DEF gr, ch
<1>5. \A p \in e.allowed \cup e.blocked : p[1] \notin gs
  BY <1>4, Related DEF DbOK, DbType
<1>6. \A k \in Keys : b.key[k] # None => b.key[k].group \in Groups \ gs
  BY <1>2, Related DEF KeysOf
<1>7. Referential(e)
  BY <1>2, <1>4, <1>5, <1>6, Related DEF DbOK, Referential
<1> QED BY <1>4, <1>7 DEF e, DbOK

\* A server that nothing refers to but as a counter of tokens.
LEMMA ServerGone ==
    ASSUME NEW d, DbOK(d), NEW s \in Servers,
           \A g \in Groups : d.chain[<<g, s>>] = None,
           \A k \in Keys : <<k, s>> \notin d.keyServers
    PROVE  DbOK(WithoutServer(s, d))
<1> DEFINE refers(g) == d.group[g] # None /\ d.group[g].ct = s
           t == [g \in Groups |-> IF refers(g) THEN [d.group[g] EXCEPT !.ct = None] ELSE d.group[g]]
           e == WithoutServer(s, d)
<1>1. /\ t \in [Groups -> GroupRows \cup {None}]
      /\ \A g \in Groups : /\ d.group[g] # None => t[g] # None
                           /\ t[g] # None => d.group[g] # None /\ t[g].ct # s
                           /\ t[g] # None /\ t[g].ct # None => t[g].ct = d.group[g].ct
  BY RowsAssumption, Related DEF DbOK, DbType, GroupRows
<1>2. /\ e.group = t /\ e.server = [d.server EXCEPT ![s] = None]
      /\ e.key = d.key /\ e.chain = d.chain /\ e.keyServers = d.keyServers /\ e.model = d.model
      /\ e.allowed = d.allowed /\ e.keyAllowed = d.keyAllowed /\ e.blocked = d.blocked
      /\ e.subs = d.subs /\ e.setting = d.setting /\ e.endpoints = d.endpoints /\ e.limit = d.limit
  BY DEF DbOK, DbType, WithoutServer
<1>3. e \in DbType
  BY <1>1, <1>2 DEF DbOK, DbType, WithoutServer
<1> HIDE DEF e, t
<1>4. \A p \in Groups \X Servers : d.chain[p] # None => p[2] # s
  <2>1. \A p \in Groups \X Servers : p = <<p[1], p[2]>> /\ p[1] \in Groups
    OBVIOUS
  <2> QED BY <2>1
<1>5. \A p \in d.keyServers : p[2] # s
  <2>1. \A p \in d.keyServers : p = <<p[1], p[2]>> /\ p[1] \in Keys
    BY DEF DbOK, DbType
  <2> QED BY <2>1
<1>6. \A x \in Servers : x # s => e.server[x] = d.server[x]
  BY <1>2 DEF DbOK, DbType
<1>7. Referential(e)
  <2>1. \A g \in Groups : e.group[g] # None /\ e.group[g].ct # None => e.server[e.group[g].ct] # None
    BY <1>1, <1>2, <1>6, Related DEF DbOK, Referential
  <2>2. \A p \in Groups \X Servers :
           e.chain[p] # None => e.group[p[1]] # None /\ e.server[p[2]] # None
    BY <1>1, <1>2, <1>4, <1>6, Related DEF DbOK, Referential
  <2>3. \A p \in e.keyServers : e.key[p[1]] # None /\ e.server[p[2]] # None
    BY <1>2, <1>5, <1>6, Related DEF DbOK, Referential
  <2> QED BY <1>1, <1>2, <2>1, <2>2, <2>3, Related DEF DbOK, Referential
<1> QED BY <1>3, <1>7 DEF e, DbOK

\* A model that nothing refers to.
LEMMA ModelGone ==
    ASSUME NEW d, DbOK(d), NEW m \in Models,
           \A g \in Groups : <<g, m>> \notin d.allowed,
           \A k \in Keys : <<k, m>> \notin d.keyAllowed
    PROVE  DbOK([d EXCEPT !.model[m] = None])
<1> DEFINE e == [d EXCEPT !.model[m] = None]
<1>1. /\ e \in DbType /\ e.model = [d.model EXCEPT ![m] = None]
      /\ e.group = d.group /\ e.server = d.server /\ e.key = d.key /\ e.chain = d.chain
      /\ e.keyServers = d.keyServers /\ e.allowed = d.allowed /\ e.keyAllowed = d.keyAllowed
      /\ e.blocked = d.blocked /\ e.subs = d.subs
  BY DEF DbOK, DbType
<1> HIDE DEF e
<1>2. \A p \in d.allowed \cup d.keyAllowed : p[2] # m
  <2>1. \A p \in d.allowed \cup d.keyAllowed : p = <<p[1], p[2]>> /\ p[1] \in Groups \cup Keys
    BY DEF DbOK, DbType
  <2>2. /\ \A p \in d.allowed : p[1] \in Groups
        /\ \A p \in d.keyAllowed : p[1] \in Keys
    BY Related
  <2> QED BY <2>1, <2>2
<1>3. \A x \in Models : x # m => e.model[x] = d.model[x]
  BY <1>1 DEF DbOK, DbType
<1>4. Referential(e)
  BY <1>1, <1>2, <1>3, Related DEF DbOK, Referential
<1> QED BY <1>1, <1>4 DEF e, DbOK

-----------------------------------------------------------------------------
(* What the handlers have to run *)

\* A set as a sequence.
LEMMA SetToSeqIs ==
    ASSUME NEW S, IsFiniteSet(S)
    PROVE  /\ SetToSeq(S) \in Seq(S)
           /\ \A x \in S : \E i \in 1 .. Len(SetToSeq(S)) : SetToSeq(S)[i] = x
<1> DEFINE n == Cardinality(S)
           f == SetToSeq(S)
<1>1. n \in Nat /\ \E g \in [1 .. n -> S] : IsInjective(g)
  BY FS_CardinalityType DEF ExistsBijection, Bijection, Injection
<1>2. f \in [1 .. n -> S] /\ IsInjective(f)
  BY <1>1 DEF SetToSeq
<1>3. f \in Seq(S) /\ Len(f) = n
  BY <1>1, <1>2
<1>4. f \in Injection(1 .. n, S)
  BY <1>2 DEF Injection
<1>5. Cardinality(1 .. n) = n
  BY <1>1, FS_Interval
<1>6. f \in Surjection(1 .. n, S)
  BY <1>4, <1>5, FS_Injection
<1> HIDE DEF f
<1> QED BY <1>3, <1>6 DEF Surjection, f

\* A task says what it is about.
LEMMA TaskIs ==
    ASSUME NEW t \in Tasks
    PROVE  /\ t[1] = "del" => t[2] \in Entries
           /\ t[1] \in {"master", "subs", "chain"} => t[2] \in Groups
           /\ t[1] = "users" => t[2] \in Servers
           /\ t[1] \in {"group_api", "key_api", "drop_key", "link", "unlink"} => t[2] \in ApiKeys
           /\ t[1] \in {"insert_key", "subscribe", "sync"} => t[2] \in Versions
           /\ t[1] = "upsert" => t[2] \in [Settings -> Versions]
BY DEF Tasks

\* The handler that each write belongs to.
TaskOf(j, t) ==
    /\ t[1] = "chain" => j[1] = "bulk_assign"
    /\ t[1] = "erase" => j[1] = "delete_groups"
    /\ t[1] = "group_api" => j[1] = "regenerate_group_key"
    /\ t[1] = "drop_server" => j[1] = "delete_server"
    /\ t[1] = "insert_key" => j[1] = "create_key"
    /\ t[1] = "key_api" => j[1] = "regenerate_key"
    /\ t[1] = "drop_key" => j[1] = "delete_key"
    /\ t[1] = "link" => j[1] = "assign_key_server"
    /\ t[1] = "unlink" => j[1] = "remove_key_server"
    /\ t[1] = "allow" => j[1] = "allow_model"
    /\ t[1] = "cascade" => j[1] = "disallow_model"
    /\ t[1] = "allow_key" => j[1] = "allow_key_model"
    /\ t[1] = "drop_model" => j[1] = "delete_model"
    /\ t[1] = "upsert" => j[1] = "put_settings"
    /\ t[1] = "endpoints" => j[1] = "change_endpoints"
    /\ t[1] = "subscribe" => j[1] = "assign"
    /\ t[1] = "cancelled" => j[1] = "cancel"
    /\ t[1] = "bonus" => j[1] = "change_bonus"
    /\ t[1] = "sync" => j[1] \in {"update_plan", "sync_plan"}

\* A list that handler j may have.
Runs(j, s) == s \in Seq(Tasks) /\ \A i \in 1 .. Len(s) : TaskOf(j, s[i])

\* A task by itself.
LEMMA RunsOne ==
    ASSUME NEW j, NEW t \in Tasks, TaskOf(j, t) PROVE Runs(j, <<t>>)
<1> DEFINE s == <<t>>
<1>1. s \in Seq(Tasks) /\ Len(s) = 1 /\ s[1] = t
  OBVIOUS
<1> HIDE DEF s
<1> QED BY <1>1 DEF Runs, s

\* Nothing.
LEMMA RunsNone == ASSUME NEW j PROVE Runs(j, <<>>)
<1>1. <<>> \in Seq(Tasks) /\ 1 .. Len(<<>>) = {}
  OBVIOUS
<1> QED BY <1>1 DEF Runs

\* One list after another.
LEMMA RunsBoth ==
    ASSUME NEW j, NEW s, NEW u, Runs(j, s), Runs(j, u) PROVE Runs(j, s \o u)
<1> DEFINE w == s \o u
<1>1. /\ s \in Seq(Tasks) /\ u \in Seq(Tasks) /\ Len(s) \in Nat /\ Len(u) \in Nat
      /\ w \in Seq(Tasks) /\ Len(w) = Len(s) + Len(u)
      /\ \A i \in 1 .. Len(w) : w[i] = IF i <= Len(s) THEN s[i] ELSE u[i - Len(s)]
  BY DEF Runs
<1> HIDE DEF w
<1>2. ASSUME NEW i \in 1 .. Len(w) PROVE TaskOf(j, w[i])
  <2>1. CASE i <= Len(s)
    BY <1>1, <2>1 DEF Runs
  <2>2. CASE ~(i <= Len(s))
    <3>1. i - Len(s) \in 1 .. Len(u) /\ w[i] = u[i - Len(s)]
      BY <1>1, <2>2
    <3> QED BY <3>1 DEF Runs
  <2> QED BY <2>1, <2>2
<1> QED BY <1>1, <1>2 DEF Runs, w

\* What is left of a list after its first task.
LEMMA RunsOn ==
    ASSUME NEW j, NEW s, Runs(j, s), s # <<>>
    PROVE  /\ Runs(j, Tail(s)) /\ Head(s) \in Tasks /\ TaskOf(j, Head(s))
<1> DEFINE w == Tail(s)
<1>1. /\ s \in Seq(Tasks) /\ Len(s) \in Nat /\ Len(s) > 0 /\ Head(s) = s[1]
      /\ w \in Seq(Tasks) /\ Len(w) = Len(s) - 1
      /\ \A i \in 1 .. Len(w) : w[i] = s[i + 1]
  BY DEF Runs
<1> HIDE DEF w
<1>2. \A i \in 1 .. Len(w) : i + 1 \in 1 .. Len(s)
  BY <1>1
<1> QED BY <1>1, <1>2 DEF Runs, w

\* The invalidation of a group.
LEMMA RunsInvalidate ==
    ASSUME NEW j, NEW g \in Groups PROVE Runs(j, Invalidate(g))
<1> DEFINE a == <<"master", g>>
           b == <<"subs", g>>
<1>1. a \in Tasks /\ TaskOf(j, a) /\ b \in Tasks /\ TaskOf(j, b)
  BY DEF Tasks, TaskOf
<1>2. Invalidate(g) = <<a>> \o <<b>>
  BY DEF Invalidate
<1> HIDE DEF a, b
<1> QED BY <1>1, <1>2, RunsOne, RunsBoth

\* Of several groups.
LEMMA RunsInvalidateAll ==
    ASSUME NEW j, NEW gs \in SUBSET Groups PROVE Runs(j, InvalidateAll(gs))
<1> DEFINE s == SetToSeq(gs)
           w == InvalidateAll(gs)
           n == Len(s)
           m == 2 * n
<1>1. s \in Seq(Groups) /\ n \in Nat
  <2>1. IsFiniteSet(gs)
    BY RowsAssumption, FS_Subset
  <2>2. s \in Seq(gs)
    BY <2>1, SetToSeqIs
  <2> QED BY <2>2
<1>2. w = [i \in 1 .. m |-> <<IF i % 2 = 1 THEN "master" ELSE "subs", s[(i + 1) \div 2]>>]
  BY DEF InvalidateAll
<1> HIDE DEF s, w
<1>3. ASSUME NEW i \in 1 .. m PROVE w[i] \in Tasks /\ TaskOf(j, w[i])
  <2>1. (i + 1) \div 2 \in 1 .. n
    BY <1>1
  <2>2. s[(i + 1) \div 2] \in Groups
    BY <1>1, <2>1
  <2> DEFINE g == s[(i + 1) \div 2]
  <2>3. w[i] = <<"master", g>> \/ w[i] = <<"subs", g>>
    BY <1>2
  <2> HIDE DEF g
  <2>4. g \in Groups
    BY <2>2 DEF g
  <2>5. \A kind \in {"master", "subs"} : <<kind, g>> \in Tasks /\ TaskOf(j, <<kind, g>>)
    BY <2>4 DEF Tasks, TaskOf
  <2> QED BY <2>3, <2>5
<1>4. m \in Nat /\ w \in [1 .. m -> Tasks]
  BY <1>1, <1>2, <1>3
<1>5. w \in Seq(Tasks) /\ Len(w) = m
  <2> HIDE DEF m
  <2> QED BY <1>4
<1> QED BY <1>3, <1>5 DEF Runs, w

\* A set that a function maps a finite one onto.
LEMMA Onto ==
    ASSUME NEW S, NEW T, NEW f \in [S -> T], IsFiniteSet(S), \A y \in T : \E x \in S : f[x] = y
    PROVE  IsFiniteSet(T)
BY FS_Surjection DEF Surjection

\* The DELs of some entries.
LEMMA RunsDels ==
    ASSUME NEW j, NEW es \in SUBSET Entries, IsFiniteSet(es) PROVE Runs(j, Dels(es))
<1> DEFINE T == {Del(e) : e \in es}
           f == [e \in es |-> Del(e)]
           s == SetToSeq(T)
<1>1. IsFiniteSet(T)
  <2>1. f \in [es -> T] /\ \A y \in T : \E x \in es : f[x] = y
    OBVIOUS
  <2> HIDE DEF f, T
  <2> QED BY <2>1, Onto
<1>2. \A t \in T : t \in Tasks /\ TaskOf(j, t)
  BY DEF Tasks, TaskOf, Del
<1>3. s = Dels(es)
  BY DEF Dels
<1> HIDE DEF T
<1>4. s \in Seq(T)
  BY <1>1, SetToSeqIs
<1> HIDE DEF s
<1>5. s \in Seq(Tasks) /\ \A i \in 1 .. Len(s) : s[i] \in T
  BY <1>2, <1>4
<1> QED BY <1>2, <1>3, <1>5 DEF Runs

\* What a task leads to the deletion of.
LEMMA TargetsAre ==
    ASSUME NEW t \in Tasks, NEW d, d \in DbType
    PROVE  /\ Targets(t, d) \subseteq Entries
           /\ t[1] \in {"master", "subs", "holders"} => IsFiniteSet(Targets(t, d))
<1>1. /\ \A g \in Groups : /\ MasterEntry(g, d) \subseteq Entries
                           /\ SubEntries(g, d) \subseteq Entries
      /\ {"subs"} \X Holders(d) \subseteq Entries
  <2>1. ASSUME NEW g \in Groups PROVE MasterEntry(g, d) \subseteq Entries
    BY DEF MasterEntry, Entries, ConfigEntries, DbType, GroupRows
  <2>2. ASSUME NEW g \in Groups PROVE SubEntries(g, d) \subseteq Entries
    BY DEF SubEntries, KeysOf, Entries, ConfigEntries, DbType, KeyRows
  <2>3. {"subs"} \X Holders(d) \subseteq Entries
    BY DEF Holders, Entries, ListEntries
  <2> QED BY <2>1, <2>2, <2>3
<1>2. ASSUME NEW g \in Groups PROVE IsFiniteSet(MasterEntry(g, d)) /\ IsFiniteSet(SubEntries(g, d))
  <2>1. IsFiniteSet(MasterEntry(g, d))
    BY FS_EmptySet, FS_Singleton DEF MasterEntry
  <2> DEFINE f == [k \in KeysOf(g, d) |-> <<"config", d.key[k].api>>]
  <2>2. IsFiniteSet(KeysOf(g, d))
    BY RowsAssumption, FS_Subset DEF KeysOf
  <2>3. f \in [KeysOf(g, d) -> SubEntries(g, d)] /\ \A y \in SubEntries(g, d) : \E x \in KeysOf(g, d) : f[x] = y
    BY DEF SubEntries
  <2> HIDE DEF f
  <2> QED BY <2>1, <2>2, <2>3, Onto
<1>3. IsFiniteSet({"subs"} \X Holders(d))
  BY RowsAssumption, FS_Subset, FS_Singleton, FS_Product DEF Holders
<1>4. CASE t[1] = "del"
  BY <1>4, TaskIs DEF Targets
<1>5. CASE t[1] = "master"
  <2>1. Targets(t, d) = MasterEntry(t[2], d) /\ t[2] \in Groups
    BY <1>5, TaskIs DEF Targets
  <2> QED BY <1>1, <1>2, <2>1
<1>6. CASE t[1] = "subs"
  <2>1. Targets(t, d) = SubEntries(t[2], d) /\ t[2] \in Groups
    BY <1>6, TaskIs DEF Targets
  <2> QED BY <1>1, <1>2, <2>1
<1>7. CASE t[1] = "users"
  <2>1. Targets(t, d) = UNION {MasterEntry(g, d) \cup SubEntries(g, d) : g \in UsersOf(t[2], d)}
    BY <1>7 DEF Targets
  <2>2. UsersOf(t[2], d) \subseteq Groups
    BY DEF UsersOf
  <2> QED BY <1>1, <1>7, <2>1, <2>2
<1>8. CASE t[1] = "holders"
  <2>1. Targets(t, d) = {"subs"} \X Holders(d)
    BY <1>8 DEF Targets
  <2> QED BY <1>1, <1>3, <2>1
<1>9. CASE t[1] \notin {"del", "master", "subs", "users", "holders"}
  <2>1. Targets(t, d) = {}
    BY <1>9 DEF Targets
  <2> QED BY <1>9, <2>1
<1> QED BY <1>4, <1>5, <1>6, <1>7, <1>8, <1>9

\* Two tasks.
LEMMA RunsTwo ==
    ASSUME NEW j, NEW a \in Tasks, NEW b \in Tasks, TaskOf(j, a), TaskOf(j, b)
    PROVE  Runs(j, <<a, b>>)
<1> DEFINE s == <<a, b>>
<1>1. s \in Seq(Tasks) /\ Len(s) = 2 /\ s[1] = a /\ s[2] = b
  OBVIOUS
<1> HIDE DEF s
<1>2. \A i \in 1 .. Len(s) : i = 1 \/ i = 2
  BY <1>1
<1> QED BY <1>1, <1>2 DEF Runs, s

\* A DEL.
LEMMA DelIs == ASSUME NEW j, NEW e \in Entries PROVE Del(e) \in Tasks /\ TaskOf(j, Del(e))
BY DEF Del, Tasks, TaskOf

\* Every entry of a row's API key is an entry.
LEMMA EntriesAre ==
    /\ \A a \in ApiKeys : <<"config", a>> \in Entries
    /\ \A k \in Keys : <<"subs", k>> \in Entries /\ <<"endpoints", k>> \in Entries
    /\ \A n \in Settings : <<"setting", n>> \in Entries
BY DEF Entries, ConfigEntries, ListEntries, SettingEntries

-----------------------------------------------------------------------------
(* The invariant *)

\* What a request assembles is about an entry.
Filling == fill # None => \E e \in Entries : fill = [entry |-> e, at |-> fill.at, got |-> fill.got]

\* The tables agree, and every handler runs what belongs to it.
TypeInv == TypeOK /\ Filling /\ \A j \in Jobs : Runs(j, todo[j])

\* A step of handler j, after which it has ts to run.
LEMMA Worked ==
    ASSUME TypeInv, NEW j \in Jobs, NEW ts, Runs(j, ts), todo' = [todo EXCEPT ![j] = ts],
           DbOK(db'), waiting' \subseteq waiting, DOMAIN cached' = Entries,
           excused' \subseteq Entries, failures' \in 0..plan.failures, plan' = plan, fill' = fill
    PROVE  TypeInv'
<1>1. todo \in [Jobs -> Seq(Tasks)] /\ ts \in Seq(Tasks)
  BY DEF TypeInv, TypeOK, Runs
<1>2. todo' \in [Jobs -> Seq(Tasks)] /\ \A i \in Jobs : todo'[i] = IF i = j THEN ts ELSE todo[i]
  BY <1>1
<1>3. \A i \in Jobs : Runs(i, todo'[i])
  BY <1>2 DEF TypeInv
<1>4. TypeOK' /\ Filling'
  BY <1>2 DEF TypeInv, TypeOK, DbOK, Filling
<1> QED BY <1>3, <1>4 DEF TypeInv

\* What the first statement of a handler comes to.
Outcome(j, d, ts) ==
    /\ waiting' \subseteq waiting /\ excused' \subseteq Entries
    /\ plan' = plan /\ cached' = cached /\ fill' = fill /\ failures' = failures
    /\ \/ db' = db /\ todo' = todo
       \/ db' = d /\ todo' = [todo EXCEPT ![j] = ts] /\ DbOK(d) /\ Runs(j, ts)

\* It keeps the invariant.
LEMMA Asks ==
    ASSUME TypeInv, NEW j \in Jobs, NEW d, NEW ts, Outcome(j, d, ts) PROVE TypeInv'
<1>1. /\ waiting' \subseteq waiting /\ excused' \subseteq Entries
      /\ plan' = plan /\ cached' = cached /\ fill' = fill /\ failures' = failures
      /\ DOMAIN cached = Entries /\ failures \in 0..plan.failures
  BY DEF Outcome, TypeInv, TypeOK
<1>2. CASE db' = db /\ todo' = todo
  BY <1>1, <1>2 DEF TypeInv, TypeOK, Filling
<1>3. CASE db' = d /\ todo' = [todo EXCEPT ![j] = ts] /\ DbOK(d) /\ Runs(j, ts)
  BY <1>1, <1>3, Worked
<1> QED BY <1>2, <1>3 DEF Outcome

\* What holds before a step of handler j.
LEMMA Before ==
    ASSUME TypeInv, NEW j \in Jobs
    PROVE  /\ Given(j) /\ DbOK(db) /\ excused \subseteq Entries
           /\ \A g \in Groups : db.group[g] # None => db.group[g] \in GroupRows
           /\ \A k \in Keys : db.key[k] # None => db.key[k] \in KeyRows
           /\ \A p \in Groups \X Servers : db.chain[p] # None => db.chain[p] \in AssignRows
           /\ \A k \in Keys : db.subs[k] # None => db.subs[k] \in SubRows
           /\ \A v \in Versions : Other(v) \in Versions
BY PlansAssumption DEF TypeInv, TypeOK, DbOK, DbType, Other, Versions

-----------------------------------------------------------------------------
(* The first statements *)

\* groups.rs
LEMMA GroupHandlers ==
    ASSUME TypeInv, NEW j \in Jobs,
           \/ CreateGroup(j) \/ UpdateGroup(j) \/ BulkActivate(j) \/ DeleteGroups(j)
           \/ RegenerateGroupKey(j) \/ BulkAssign(j)
    PROVE  TypeInv'
<1>0. /\ Given(j) /\ DbOK(db) /\ excused \subseteq Entries
      /\ \A g \in Groups : db.group[g] # None => db.group[g] \in GroupRows
  BY Before
<1>1. CASE CreateGroup(j)
  <2> DEFINE row == [api |-> j[3], on |-> TRUE, ct |-> None]
             d == [db EXCEPT !.group[j[2]] = row]
  <2>1. j[1] = "create_group"
    BY <1>1 DEF CreateGroup, Asked, First
  <2>2. j[2] \in Groups /\ row \in GroupRows /\ row.ct = None
    BY <1>0, <2>1 DEF Given, GroupRows
  <2>3. DbOK(d)
    BY <1>0, <2>2, PutGroupRow
  <2>4. Outcome(j, d, <<>>)
    BY <1>0, <1>1, <2>3, RunsNone DEF CreateGroup, Asked, First, Outcome
  <2> QED BY <2>4, Asks
<1>2. CASE UpdateGroup(j)
  <2> DEFINE g == j[2]
             row == [db.group[g] EXCEPT !.on = ~@, !.ct = j[3]]
             d == [db EXCEPT !.group[g].on = ~@, !.group[g].ct = j[3]]
  <2>1. j[1] = "update_group"
    BY <1>2 DEF UpdateGroup, Asked, First
  <2>2. g \in Groups /\ j[3] \in Servers \cup {None}
    BY <1>0, <2>1 DEF Given
  <2>3. ASSUME db.group[g] # None, j[3] = None \/ db.server[j[3]] # None PROVE DbOK(d)
    <3>1. row \in GroupRows /\ row.ct = j[3]
      BY <1>0, <2>2, <2>3 DEF GroupRows
    <3>2. d = [db EXCEPT !.group[g] = row]
      BY <1>0, <2>2 DEF DbOK, DbType
    <3> HIDE DEF row, d, g
    <3>3. DbOK([db EXCEPT !.group[g] = row])
      BY <1>0, <2>2, <2>3, <3>1, PutGroupRow
    <3> QED BY <3>2, <3>3
  <2>4. Runs(j, Invalidate(g))
    BY <2>2, RunsInvalidate
  <2>5. Outcome(j, d, Invalidate(g))
    BY <1>0, <1>2, <2>3, <2>4 DEF UpdateGroup, Asked, First, Outcome
  <2> QED BY <2>5, Asks
<1>3. CASE BulkActivate(j)
  <2> DEFINE found == {g \in j[2] : db.group[g] # None}
             t == [g \in Groups |-> IF g \in found THEN [db.group[g] EXCEPT !.on = j[3]] ELSE db.group[g]]
             d == [db EXCEPT !.group = t]
  <2>1. j[1] = "bulk_activate"
    BY <1>3 DEF BulkActivate, Asked, First
  <2>2. j[2] \subseteq Groups /\ j[3] \in BOOLEAN
    BY <1>0, <2>1 DEF Given
  <2>3. DbOK(d)
    <3>1. /\ db.group \in [Groups -> GroupRows \cup {None}]
          /\ \A g \in Groups : db.group[g] # None /\ db.group[g].ct # None =>
                db.server[db.group[g].ct] # None
      BY <1>0 DEF DbOK, DbType, Referential
    <3>2. \A g \in found : /\ [db.group[g] EXCEPT !.on = j[3]] \in GroupRows
                           /\ [db.group[g] EXCEPT !.on = j[3]].ct = db.group[g].ct
      BY <1>0, <2>2 DEF GroupRows
    <3>3. /\ t \in [Groups -> GroupRows \cup {None}]
          /\ \A g \in Groups : /\ t[g] # None <=> db.group[g] # None
                               /\ t[g] # None => t[g].ct = db.group[g].ct
      BY <3>1, <3>2, RowsAssumption
    <3> HIDE DEF t
    <3> QED BY <1>0, <3>1, <3>3, PutGroup
  <2>4. Runs(j, InvalidateAll(found))
    BY <2>2, RunsInvalidateAll
  <2>5. Outcome(j, d, InvalidateAll(found))
    BY <1>0, <1>3, <2>3, <2>4 DEF BulkActivate, Asked, First, Outcome
  <2> QED BY <2>5, Asks
<1>4. CASE DeleteGroups(j)
  <2> DEFINE found == {g \in j[2] : db.group[g] # None}
             a == <<"erase">>
             ts == InvalidateAll(found) \o <<a>>
  <2>1. j[1] = "delete_groups"
    BY <1>4 DEF DeleteGroups, Asked, First
  <2>2. j[2] \subseteq Groups
    BY <1>0, <2>1 DEF Given
  <2>3. a \in Tasks /\ TaskOf(j, a)
    BY <2>1 DEF Tasks, TaskOf
  <2>4. Runs(j, ts)
    BY <2>2, <2>3, RunsInvalidateAll, RunsOne, RunsBoth
  <2>5. Outcome(j, db, ts)
    BY <1>0, <1>4, <2>4 DEF DeleteGroups, Asked, First, Outcome
  <2> QED BY <2>5, Asks
<1>5. CASE RegenerateGroupKey(j)
  <2> DEFINE g == j[2]
             a == <<"group_api", db.group[g].api>>
             b == Del(<<"config", db.group[g].api>>)
             ts == <<a, b>> \o Invalidate(g)
  <2>1. j[1] = "regenerate_group_key"
    BY <1>5 DEF RegenerateGroupKey
  <2>2. g \in Groups
    BY <1>0, <2>1 DEF Given
  <2>3. ASSUME db.group[g] # None PROVE Runs(j, ts)
    <3>1. db.group[g].api \in ApiKeys
      BY <1>0, <2>2, <2>3 DEF GroupRows
    <3>2. a \in Tasks /\ TaskOf(j, a)
      BY <2>1, <3>1 DEF Tasks, TaskOf
    <3>3. b \in Tasks /\ TaskOf(j, b)
      BY <3>1, EntriesAre, DelIs
    <3> HIDE DEF a, b
    <3>4. Runs(j, <<a, b>>)
      BY <3>2, <3>3, RunsTwo
    <3> QED BY <2>2, <3>4, RunsBoth, RunsInvalidate
  <2>4. Outcome(j, db, ts)
    BY <1>0, <1>5, <2>3 DEF RegenerateGroupKey, Asked, First, Outcome
  <2> QED BY <2>4, Asks
<1>6. CASE BulkAssign(j)
  <2> DEFINE T == {<<"chain", g>> : g \in j[2]}
             f == [g \in j[2] |-> <<"chain", g>>]
             s == SetToSeq(T)
             ts == s \o InvalidateAll(j[2])
  <2>1. j[1] = "bulk_assign"
    BY <1>6 DEF BulkAssign, Asked, First
  <2>2. j[2] \subseteq Groups
    BY <1>0, <2>1 DEF Given
  <2>3. \A t \in T : t \in Tasks /\ TaskOf(j, t)
    BY <2>1, <2>2 DEF Tasks, TaskOf
  <2>4. IsFiniteSet(T)
    <3>1. f \in [j[2] -> T] /\ \A y \in T : \E x \in j[2] : f[x] = y
      OBVIOUS
    <3>2. IsFiniteSet(j[2])
      BY <2>2, RowsAssumption, FS_Subset
    <3> HIDE DEF f, T
    <3> QED BY <3>1, <3>2, Onto
  <2>5. Runs(j, s)
    <3> HIDE DEF T
    <3>1. s \in Seq(T)
      BY <2>4, SetToSeqIs
    <3> HIDE DEF s
    <3> QED BY <2>3, <3>1 DEF Runs
  <2>6. Runs(j, ts)
    BY <2>2, <2>5, RunsInvalidateAll, RunsBoth
  <2>7. Outcome(j, db, ts)
    BY <1>0, <1>6, <2>6 DEF BulkAssign, Asked, First, Outcome
  <2> QED BY <2>7, Asks
<1> QED BY <1>1, <1>2, <1>3, <1>4, <1>5, <1>6

\* group_servers.rs, servers.rs
LEMMA ServerHandlers ==
    ASSUME TypeInv, NEW j \in Jobs,
           \/ AssignServer(j) \/ UpdateAssignment(j) \/ RemoveServer(j)
           \/ CreateServer(j) \/ UpdateServer(j) \/ DeleteServer(j)
    PROVE  TypeInv'
<1>0. /\ Given(j) /\ DbOK(db) /\ excused \subseteq Entries
      /\ \A p \in Groups \X Servers : db.chain[p] # None => db.chain[p] \in AssignRows
      /\ \A v \in Versions : Other(v) \in Versions
      /\ 0 \in Versions
  BY Before DEF Versions
<1>1. CASE AssignServer(j)
  <2> DEFINE g == j[2]
             s == j[3]
             row == [on |-> TRUE, row |-> 0]
             d == [db EXCEPT !.chain[<<g, s>>] = row]
  <2>1. j[1] = "assign_server"
    BY <1>1 DEF AssignServer, Asked, First
  <2>2. g \in Groups /\ s \in Servers /\ row \in AssignRows
    BY <1>0, <2>1 DEF Given, AssignRows
  <2>3. db.group[g] # None /\ db.server[s] # None => DbOK(d)
    <3> HIDE DEF g, s, row
    <3> QED BY <1>0, <2>2, PutChainRow
  <2>4. Runs(j, Invalidate(g))
    BY <2>2, RunsInvalidate
  <2>5. Outcome(j, d, Invalidate(g))
    BY <1>0, <1>1, <2>3, <2>4 DEF AssignServer, Asked, First, Outcome
  <2> QED BY <2>5, Asks
<1>2. CASE UpdateAssignment(j)
  <2> DEFINE g == j[2]
             s == j[3]
             p == <<g, s>>
             row == [on |-> ~db.chain[p].on, row |-> Other(db.chain[p].row)]
             d == [db EXCEPT !.chain[<<g, s>>] = [on |-> ~@.on, row |-> Other(@.row)]]
  <2>1. j[1] = "update_assignment"
    BY <1>2 DEF UpdateAssignment, Asked, First
  <2>2. g \in Groups /\ s \in Servers
    BY <1>0, <2>1 DEF Given
  <2>3. ASSUME db.chain[p] # None PROVE DbOK(d)
    <3>1. p \in Groups \X Servers /\ p[1] = g /\ p[2] = s
      BY <2>2
    <3>2. db.chain[p] \in AssignRows
      BY <1>0, <2>3, <3>1
    <3>3. row \in AssignRows
      BY <1>0, <3>2 DEF AssignRows
    <3>4. db.group[g] # None /\ db.server[s] # None
      BY <1>0, <2>3, <3>1 DEF DbOK, Referential
    <3>5. d = [db EXCEPT !.chain[p] = row]
      <4> HIDE DEF p
      <4>1. [db EXCEPT !.chain[p] = [on |-> ~@.on, row |-> Other(@.row)]] = [db EXCEPT !.chain[p] = row]
        BY <1>0, <3>1 DEF DbOK, DbType
      <4> QED BY <4>1 DEF p
    <3> HIDE DEF row, d, g, s
    <3>6. DbOK([db EXCEPT !.chain[<<g, s>>] = row])
      BY <1>0, <2>2, <3>3, <3>4, PutChainRow
    <3> QED BY <3>5, <3>6
  <2>4. Runs(j, Invalidate(g))
    BY <2>2, RunsInvalidate
  <2>5. Outcome(j, d, Invalidate(g))
    BY <1>0, <1>2, <2>3, <2>4 DEF UpdateAssignment, Asked, First, Outcome
  <2> QED BY <2>5, Asks
<1>3. CASE RemoveServer(j)
  <2> DEFINE g == j[2]
             s == j[3]
             d == [db EXCEPT !.chain[<<g, s>>] = None]
  <2>1. j[1] = "remove_server"
    BY <1>3 DEF RemoveServer, Asked, First
  <2>2. g \in Groups /\ s \in Servers
    BY <1>0, <2>1 DEF Given
  <2>3. DbOK(d)
    <3> HIDE DEF g, s
    <3> QED BY <1>0, <2>2, PutChainRow
  <2>4. Runs(j, Invalidate(g))
    BY <2>2, RunsInvalidate
  <2>5. Outcome(j, d, Invalidate(g))
    BY <1>0, <1>3, <2>3, <2>4 DEF RemoveServer, Asked, First, Outcome
  <2> QED BY <2>5, Asks
<1>4. CASE CreateServer(j)
  <2> DEFINE d == [db EXCEPT !.server[j[2]] = 0]
  <2>1. j[1] = "create_server"
    BY <1>4 DEF CreateServer, Asked, First
  <2>2. DbOK(d)
    BY <1>0, <2>1, PutServerRow DEF Given
  <2>3. Outcome(j, d, <<>>)
    BY <1>0, <1>4, <2>2, RunsNone DEF CreateServer, Asked, First, Outcome
  <2> QED BY <2>3, Asks
<1>5. CASE UpdateServer(j)
  <2> DEFINE s == j[2]
             v == Other(db.server[s])
             d == [db EXCEPT !.server[s] = Other(@)]
             a == <<"users", s>>
  <2>1. j[1] = "update_server"
    BY <1>5 DEF UpdateServer, Asked, First
  <2>2. s \in Servers
    BY <1>0, <2>1 DEF Given
  <2>3. ASSUME db.server[s] # None PROVE DbOK(d)
    <3>1. v \in Versions
      BY <1>0, <2>2, <2>3 DEF DbOK, DbType
    <3>2. d = [db EXCEPT !.server[s] = v]
      BY <1>0, <2>2 DEF DbOK, DbType
    <3> HIDE DEF v, d, s
    <3>3. DbOK([db EXCEPT !.server[s] = v])
      BY <1>0, <2>2, <3>1, PutServerRow
    <3> QED BY <3>2, <3>3
  <2>4. Runs(j, <<a>>)
    <3>1. a \in Tasks /\ TaskOf(j, a)
      BY <2>2 DEF Tasks, TaskOf
    <3> HIDE DEF a
    <3> QED BY <3>1, RunsOne
  <2>5. Outcome(j, d, <<a>>)
    BY <1>0, <1>5, <2>3, <2>4 DEF UpdateServer, Asked, First, Outcome
  <2> QED BY <2>5, Asks
<1>6. CASE DeleteServer(j)
  <2> DEFINE a == <<"drop_server">>
  <2>1. j[1] = "delete_server"
    BY <1>6 DEF DeleteServer, Asked, First
  <2>2. Runs(j, <<a>>)
    <3>1. a \in Tasks /\ TaskOf(j, a)
      BY <2>1 DEF Tasks, TaskOf
    <3> HIDE DEF a
    <3> QED BY <3>1, RunsOne
  <2>3. Outcome(j, db, <<a>>)
    BY <1>0, <1>6, <2>2 DEF DeleteServer, Asked, First, Outcome
  <2> QED BY <2>3, Asks
<1> QED BY <1>1, <1>2, <1>3, <1>4, <1>5, <1>6

\* A handler that reads a sub-key's row before it writes.
LEMMA OfKeyKeeps ==
    ASSUME TypeInv, NEW j \in Jobs, NEW kind, NEW ok, NEW task, OfKey(j, kind, ok, task),
           j[2] \in Keys, \A a \in ApiKeys : <<task, a>> \in Tasks /\ TaskOf(j, <<task, a>>)
    PROVE  TypeInv'
<1> DEFINE k == j[2]
           a == <<task, db.key[k].api>>
           b == Del(<<"config", db.key[k].api>>)
<1>1. /\ DbOK(db) /\ excused \subseteq Entries
      /\ db.key[k] # None => db.key[k] \in KeyRows
  BY Before
<1>2. ASSUME db.key[k] # None PROVE Runs(j, <<a, b>>)
  <2>1. db.key[k].api \in ApiKeys
    BY <1>1, <1>2 DEF KeyRows
  <2>2. a \in Tasks /\ TaskOf(j, a)
    BY <2>1
  <2>3. b \in Tasks /\ TaskOf(j, b)
    BY <2>1, EntriesAre, DelIs
  <2> HIDE DEF a, b
  <2> QED BY <2>2, <2>3, RunsTwo
<1>3. Outcome(j, db, <<a, b>>)
  BY <1>1, <1>2 DEF OfKey, Asked, First, Outcome
<1> QED BY <1>3, Asks

\* group_keys.rs, group_key_servers.rs
LEMMA KeyHandlers ==
    ASSUME TypeInv, NEW j \in Jobs,
           \/ CreateKey(j) \/ UpdateKey(j) \/ RegenerateKey(j) \/ DeleteKey(j)
           \/ AssignKeyServer(j) \/ RemoveKeyServer(j)
    PROVE  TypeInv'
<1>0. /\ Given(j) /\ DbOK(db) /\ excused \subseteq Entries
      /\ \A k \in Keys : db.key[k] # None => db.key[k] \in KeyRows
  BY Before
<1>1. CASE CreateKey(j)
  <2> DEFINE a == <<"insert_key", db.limit>>
  <2>1. j[1] = "create_key"
    BY <1>1 DEF CreateKey, Asked, First
  <2>2. Runs(j, <<a>>)
    <3>1. a \in Tasks /\ TaskOf(j, a)
      BY <1>0, <2>1 DEF Tasks, TaskOf, DbOK, DbType
    <3> HIDE DEF a
    <3> QED BY <3>1, RunsOne
  <2>3. Outcome(j, db, <<a>>)
    BY <1>0, <1>1, <2>2 DEF CreateKey, Asked, First, Outcome
  <2> QED BY <2>3, Asks
<1>2. CASE UpdateKey(j)
  <2> DEFINE k == j[2]
             row == [db.key[k] EXCEPT !.on = ~@]
             d == [db EXCEPT !.key[k].on = ~@]
             b == Del(<<"config", db.key[k].api>>)
  <2>1. j[1] = "update_key"
    BY <1>2 DEF UpdateKey
  <2>2. k \in Keys
    BY <1>0, <2>1 DEF Given
  <2>3. ASSUME db.key[k] # None PROVE DbOK(d) /\ Runs(j, <<b>>)
    <3>1. row \in KeyRows /\ row.group = db.key[k].group /\ db.key[k].api \in ApiKeys
      BY <1>0, <2>2, <2>3 DEF KeyRows
    <3>2. db.group[row.group] # None
      BY <1>0, <2>2, <2>3, <3>1 DEF DbOK, Referential
    <3>3. d = [db EXCEPT !.key[k] = row]
      BY <1>0, <2>2 DEF DbOK, DbType
    <3>4. b \in Tasks /\ TaskOf(j, b)
      BY <3>1, EntriesAre, DelIs
    <3> HIDE DEF row, d, k, b
    <3>5. DbOK([db EXCEPT !.key[k] = row])
      BY <1>0, <2>2, <3>1, <3>2, PutKeyRow
    <3> QED BY <3>3, <3>4, <3>5, RunsOne
  <2>4. Outcome(j, d, <<b>>)
    BY <1>0, <1>2, <2>3 DEF UpdateKey, Asked, First, Outcome
  <2> QED BY <2>4, Asks
<1>3. CASE RegenerateKey(j)
  <2>1. j[1] = "regenerate_key" /\ OfKey(j, "regenerate_key", TRUE, "key_api")
    BY <1>3 DEF RegenerateKey, OfKey
  <2>2. \A a \in ApiKeys : <<"key_api", a>> \in Tasks /\ TaskOf(j, <<"key_api", a>>)
    BY <2>1 DEF Tasks, TaskOf
  <2> QED BY <1>0, <2>1, <2>2, OfKeyKeeps DEF Given
<1>4. CASE DeleteKey(j)
  <2>1. j[1] = "delete_key" /\ OfKey(j, "delete_key", TRUE, "drop_key")
    BY <1>4 DEF DeleteKey, OfKey
  <2>2. \A a \in ApiKeys : <<"drop_key", a>> \in Tasks /\ TaskOf(j, <<"drop_key", a>>)
    BY <2>1 DEF Tasks, TaskOf
  <2> QED BY <1>0, <2>1, <2>2, OfKeyKeeps DEF Given
<1>5. CASE AssignKeyServer(j)
  <2> DEFINE ok == db.key[j[2]] # None /\ db.chain[<<db.key[j[2]].group, j[3]>>] # None
  <2>1. j[1] = "assign_key_server" /\ OfKey(j, "assign_key_server", ok, "link")
    BY <1>5 DEF AssignKeyServer, OfKey
  <2>2. \A a \in ApiKeys : <<"link", a>> \in Tasks /\ TaskOf(j, <<"link", a>>)
    BY <2>1 DEF Tasks, TaskOf
  <2> HIDE DEF ok
  <2> QED BY <1>0, <2>1, <2>2, OfKeyKeeps DEF Given
<1>6. CASE RemoveKeyServer(j)
  <2>1. j[1] = "remove_key_server" /\ OfKey(j, "remove_key_server", TRUE, "unlink")
    BY <1>6 DEF RemoveKeyServer, OfKey
  <2>2. \A a \in ApiKeys : <<"unlink", a>> \in Tasks /\ TaskOf(j, <<"unlink", a>>)
    BY <2>1 DEF Tasks, TaskOf
  <2> QED BY <1>0, <2>1, <2>2, OfKeyKeeps DEF Given
<1> QED BY <1>1, <1>2, <1>3, <1>4, <1>5, <1>6

\* One more model of a group, and one less.
LEMMA AllowedRow ==
    ASSUME NEW d, DbOK(d), NEW g \in Groups, NEW m \in Models
    PROVE  /\ d.group[g] # None /\ d.model[m] # None => DbOK([d EXCEPT !.allowed = @ \cup {<<g, m>>}])
           /\ DbOK([d EXCEPT !.allowed = @ \ {<<g, m>>}])
<1> DEFINE more == d.allowed \cup {<<g, m>>}
           less == d.allowed \ {<<g, m>>}
<1>1. /\ more \in SUBSET (Groups \X Models) /\ less \in SUBSET (Groups \X Models)
      /\ \A p \in d.allowed : d.group[p[1]] # None /\ d.model[p[2]] # None
  BY DEF DbOK, DbType, Referential
<1>2. /\ [d EXCEPT !.allowed = @ \cup {<<g, m>>}] = [d EXCEPT !.allowed = more]
      /\ [d EXCEPT !.allowed = @ \ {<<g, m>>}] = [d EXCEPT !.allowed = less]
  BY DEF DbOK, DbType
<1>3. \A p \in more : p \in d.allowed \/ (p[1] = g /\ p[2] = m)
  OBVIOUS
<1>4. \A p \in less : p \in d.allowed
  OBVIOUS
<1> HIDE DEF more, less
<1>5. d.group[g] # None /\ d.model[m] # None => DbOK([d EXCEPT !.allowed = more])
  BY <1>1, <1>3, PutAllowed
<1>6. DbOK([d EXCEPT !.allowed = less])
  BY <1>1, <1>4, PutAllowed
<1> QED BY <1>2, <1>5, <1>6

\* One more model of a sub-key, and some less.
LEMMA KeyAllowedRow ==
    ASSUME NEW d, DbOK(d), NEW k \in Keys, NEW m \in Models, NEW gone
    PROVE  /\ d.key[k] # None /\ d.model[m] # None => DbOK([d EXCEPT !.keyAllowed = @ \cup {<<k, m>>}])
           /\ DbOK([d EXCEPT !.keyAllowed = @ \ gone])
<1> DEFINE more == d.keyAllowed \cup {<<k, m>>}
           less == d.keyAllowed \ gone
<1>1. /\ more \in SUBSET (Keys \X Models) /\ less \in SUBSET (Keys \X Models)
      /\ \A p \in d.keyAllowed : d.key[p[1]] # None /\ d.model[p[2]] # None
  BY DEF DbOK, DbType, Referential
<1>2. /\ [d EXCEPT !.keyAllowed = @ \cup {<<k, m>>}] = [d EXCEPT !.keyAllowed = more]
      /\ [d EXCEPT !.keyAllowed = @ \ gone] = [d EXCEPT !.keyAllowed = less]
  BY DEF DbOK, DbType
<1>3. \A p \in more : p \in d.keyAllowed \/ (p[1] = k /\ p[2] = m)
  OBVIOUS
<1>4. \A p \in less : p \in d.keyAllowed
  OBVIOUS
<1> HIDE DEF more, less
<1>5. d.key[k] # None /\ d.model[m] # None => DbOK([d EXCEPT !.keyAllowed = more])
  BY <1>1, <1>3, PutKeyAllowed
<1>6. DbOK([d EXCEPT !.keyAllowed = less])
  BY <1>1, <1>4, PutKeyAllowed
<1> QED BY <1>2, <1>5, <1>6

\* One more server of a sub-key, and one less.
LEMMA KeyServersRow ==
    ASSUME NEW d, DbOK(d), NEW k \in Keys, NEW s \in Servers
    PROVE  /\ d.key[k] # None /\ d.server[s] # None => DbOK([d EXCEPT !.keyServers = @ \cup {<<k, s>>}])
           /\ DbOK([d EXCEPT !.keyServers = @ \ {<<k, s>>}])
<1> DEFINE more == d.keyServers \cup {<<k, s>>}
           less == d.keyServers \ {<<k, s>>}
<1>1. /\ more \in SUBSET (Keys \X Servers) /\ less \in SUBSET (Keys \X Servers)
      /\ \A p \in d.keyServers : d.key[p[1]] # None /\ d.server[p[2]] # None
  BY DEF DbOK, DbType, Referential
<1>2. /\ [d EXCEPT !.keyServers = @ \cup {<<k, s>>}] = [d EXCEPT !.keyServers = more]
      /\ [d EXCEPT !.keyServers = @ \ {<<k, s>>}] = [d EXCEPT !.keyServers = less]
  BY DEF DbOK, DbType
<1>3. \A p \in more : p \in d.keyServers \/ (p[1] = k /\ p[2] = s)
  OBVIOUS
<1>4. \A p \in less : p \in d.keyServers
  OBVIOUS
<1> HIDE DEF more, less
<1>5. d.key[k] # None /\ d.server[s] # None => DbOK([d EXCEPT !.keyServers = more])
  BY <1>1, <1>3, PutKeyServers
<1>6. DbOK([d EXCEPT !.keyServers = less])
  BY <1>1, <1>4, PutKeyServers
<1> QED BY <1>2, <1>5, <1>6

\* One more blocked agent of a group, and one less.
LEMMA BlockedRow ==
    ASSUME NEW d, DbOK(d), NEW g \in Groups, NEW a \in Agents
    PROVE  /\ d.group[g] # None => DbOK([d EXCEPT !.blocked = @ \cup {<<g, a>>}])
           /\ DbOK([d EXCEPT !.blocked = @ \ {<<g, a>>}])
<1> DEFINE more == d.blocked \cup {<<g, a>>}
           less == d.blocked \ {<<g, a>>}
<1>1. /\ more \in SUBSET (Groups \X Agents) /\ less \in SUBSET (Groups \X Agents)
      /\ \A p \in d.blocked : d.group[p[1]] # None
  BY DEF DbOK, DbType, Referential
<1>2. /\ [d EXCEPT !.blocked = @ \cup {<<g, a>>}] = [d EXCEPT !.blocked = more]
      /\ [d EXCEPT !.blocked = @ \ {<<g, a>>}] = [d EXCEPT !.blocked = less]
  BY DEF DbOK, DbType
<1>3. \A p \in more : p \in d.blocked \/ p[1] = g
  OBVIOUS
<1>4. \A p \in less : p \in d.blocked
  OBVIOUS
<1> HIDE DEF more, less
<1>5. d.group[g] # None => DbOK([d EXCEPT !.blocked = more])
  BY <1>1, <1>3, PutBlocked
<1>6. DbOK([d EXCEPT !.blocked = less])
  BY <1>1, <1>4, PutBlocked
<1> QED BY <1>2, <1>5, <1>6

\* A write before the invalidation of a group.
LEMMA RunsThenInvalidate ==
    ASSUME NEW j, NEW t \in Tasks, TaskOf(j, t), NEW g \in Groups
    PROVE  Runs(j, <<t>> \o Invalidate(g))
BY RunsOne, RunsInvalidate, RunsBoth

\* group_allowed_models.rs, group_key_allowed_models.rs
LEMMA AllowHandlers ==
    ASSUME TypeInv, NEW j \in Jobs,
           AllowModel(j) \/ DisallowModel(j) \/ AllowKeyModel(j) \/ DisallowKeyModel(j)
    PROVE  TypeInv'
<1>0. /\ Given(j) /\ DbOK(db) /\ excused \subseteq Entries /\ 0 \in Versions
  BY Before DEF Versions
<1>1. CASE AllowModel(j)
  <2> DEFINE m == j[3]
             v == IF db.model[m] = None THEN 0 ELSE db.model[m]
             d == [db EXCEPT !.model[m] = IF @ = None THEN 0 ELSE @]
             a == <<"allow">>
             ts == <<a>> \o Invalidate(j[2])
  <2>1. j[1] = "allow_model"
    BY <1>1 DEF AllowModel, Asked, First
  <2>2. j[2] \in Groups /\ m \in Models
    BY <1>0, <2>1 DEF Given
  <2>3. DbOK(d)
    <3>1. v \in Versions /\ d = [db EXCEPT !.model[m] = v]
      BY <1>0, <2>2 DEF DbOK, DbType
    <3> HIDE DEF v, d, m
    <3>2. DbOK([db EXCEPT !.model[m] = v])
      BY <1>0, <2>2, <3>1, PutModelRow
    <3> QED BY <3>1, <3>2
  <2>4. Runs(j, ts)
    <3>1. a \in Tasks /\ TaskOf(j, a)
      BY <2>1 DEF Tasks, TaskOf
    <3> HIDE DEF a
    <3> QED BY <2>2, <3>1, RunsThenInvalidate
  <2>5. Outcome(j, d, ts)
    BY <1>0, <1>1, <2>3, <2>4 DEF AllowModel, Asked, First, Outcome
  <2> QED BY <2>5, Asks
<1>2. CASE DisallowModel(j)
  <2> DEFINE d == [db EXCEPT !.allowed = @ \ {<<j[2], j[3]>>}]
             a == <<"cascade">>
             ts == <<a>> \o Invalidate(j[2])
  <2>1. j[1] = "disallow_model"
    BY <1>2 DEF DisallowModel, Asked, First
  <2>2. j[2] \in Groups /\ j[3] \in Models
    BY <1>0, <2>1 DEF Given
  <2>3. DbOK(d)
    BY <1>0, <2>2, AllowedRow
  <2>4. Runs(j, ts)
    <3>1. a \in Tasks /\ TaskOf(j, a)
      BY <2>1 DEF Tasks, TaskOf
    <3> HIDE DEF a
    <3> QED BY <2>2, <3>1, RunsThenInvalidate
  <2>5. Outcome(j, d, ts)
    BY <1>0, <1>2, <2>3, <2>4 DEF DisallowModel, Asked, First, Outcome
  <2> QED BY <2>5, Asks
<1>3. CASE AllowKeyModel(j)
  <2> DEFINE a == <<"allow_key">>
             ts == <<a>> \o Invalidate(j[2])
  <2>1. j[1] = "allow_key_model"
    BY <1>3 DEF AllowKeyModel, Asked, First
  <2>2. j[2] \in Groups
    BY <1>0, <2>1 DEF Given
  <2>3. Runs(j, ts)
    <3>1. a \in Tasks /\ TaskOf(j, a)
      BY <2>1 DEF Tasks, TaskOf
    <3> HIDE DEF a
    <3> QED BY <2>2, <3>1, RunsThenInvalidate
  <2>4. Outcome(j, db, ts)
    BY <1>0, <1>3, <2>3 DEF AllowKeyModel, Asked, First, Outcome
  <2> QED BY <2>4, Asks
<1>4. CASE DisallowKeyModel(j)
  <2> DEFINE p == <<j[3], j[4]>>
             d == [db EXCEPT !.keyAllowed = @ \ {p}]
             ok == p \in db.keyAllowed
  <2>1. j[1] = "disallow_key_model"
    BY <1>4 DEF DisallowKeyModel, First
  <2>2. j[2] \in Groups /\ j[3] \in Keys /\ j[4] \in Models
    BY <1>0, <2>1 DEF Given
  <2>3. DbOK(d)
    BY <1>0, <2>2, KeyAllowedRow
  <2>4. Runs(j, Invalidate(j[2]))
    BY <2>2, RunsInvalidate
  <2>5. Outcome(j, d, Invalidate(j[2]))
    <3>1. excused' = (IF ok /\ OfOther(j) THEN excused \cup Outdates(d) ELSE excused)
      BY <1>4 DEF DisallowKeyModel
    <3>2. Outdates(d) \subseteq Entries
      BY DEF Outdates
    <3>3. First(j, "disallow_key_model", ok, d, Invalidate(j[2]))
      BY <1>4 DEF DisallowKeyModel
    <3> HIDE DEF d, ok
    <3>4. excused' \subseteq Entries
      BY <1>0, <3>1, <3>2
    <3> QED BY <2>3, <2>4, <3>3, <3>4 DEF First, Outcome
  <2> QED BY <2>5, Asks
<1> QED BY <1>1, <1>2, <1>3, <1>4

\* models.rs, group_user_agents.rs
LEMMA ModelHandlers ==
    ASSUME TypeInv, NEW j \in Jobs,
           \/ CreateModel(j) \/ UpdateModel(j) \/ DeleteModel(j)
           \/ BlockAgent(j) \/ UnblockAgent(j)
    PROVE  TypeInv'
<1>0. /\ Given(j) /\ DbOK(db) /\ excused \subseteq Entries /\ 0 \in Versions
      /\ \A v \in Versions : Other(v) \in Versions
  BY Before DEF Versions
<1>1. CASE CreateModel(j)
  <2> DEFINE d == [db EXCEPT !.model[j[2]] = 0]
  <2>1. j[1] = "create_model"
    BY <1>1 DEF CreateModel, Asked, First
  <2>2. DbOK(d)
    BY <1>0, <2>1, PutModelRow DEF Given
  <2>3. Outcome(j, d, <<>>)
    BY <1>0, <1>1, <2>2, RunsNone DEF CreateModel, Asked, First, Outcome
  <2> QED BY <2>3, Asks
<1>2. CASE UpdateModel(j)
  <2> DEFINE m == j[2]
             v == Other(db.model[m])
             d == [db EXCEPT !.model[m] = Other(@)]
  <2>1. j[1] = "update_model"
    BY <1>2 DEF UpdateModel, First
  <2>2. m \in Models
    BY <1>0, <2>1 DEF Given
  <2>3. ASSUME db.model[m] # None PROVE DbOK(d)
    <3>1. v \in Versions
      BY <1>0, <2>2, <2>3 DEF DbOK, DbType
    <3>2. d = [db EXCEPT !.model[m] = v]
      BY <1>0, <2>2 DEF DbOK, DbType
    <3> HIDE DEF v, d, m
    <3>3. DbOK([db EXCEPT !.model[m] = v])
      BY <1>0, <2>2, <3>1, PutModelRow
    <3> QED BY <3>2, <3>3
  <2>4. Outcome(j, d, <<>>)
    <3>1. excused' = (IF db.model[j[2]] # None THEN excused \cup Outdates(d) ELSE excused)
      BY <1>2 DEF UpdateModel
    <3>2. Outdates(d) \subseteq Entries
      BY DEF Outdates
    <3>3. First(j, "update_model", db.model[m] # None, d, <<>>)
      BY <1>2 DEF UpdateModel
    <3> HIDE DEF d
    <3>4. excused' \subseteq Entries
      BY <1>0, <3>1, <3>2
    <3> QED BY <2>3, <3>3, <3>4, RunsNone DEF First, Outcome
  <2> QED BY <2>4, Asks
<1>3. CASE DeleteModel(j)
  <2> DEFINE a == <<"drop_model">>
  <2>1. j[1] = "delete_model"
    BY <1>3 DEF DeleteModel, Asked, First
  <2>2. Runs(j, <<a>>)
    <3>1. a \in Tasks /\ TaskOf(j, a)
      BY <2>1 DEF Tasks, TaskOf
    <3> HIDE DEF a
    <3> QED BY <3>1, RunsOne
  <2>3. Outcome(j, db, <<a>>)
    BY <1>0, <1>3, <2>2 DEF DeleteModel, Asked, First, Outcome
  <2> QED BY <2>3, Asks
<1>4. CASE BlockAgent(j)
  <2> DEFINE d == [db EXCEPT !.blocked = @ \cup {<<j[2], j[3]>>}]
  <2>1. j[1] = "block_agent"
    BY <1>4 DEF BlockAgent, Asked, First
  <2>2. j[2] \in Groups /\ j[3] \in Agents
    BY <1>0, <2>1 DEF Given
  <2>3. db.group[j[2]] # None => DbOK(d)
    BY <1>0, <2>2, BlockedRow
  <2>4. Runs(j, Invalidate(j[2]))
    BY <2>2, RunsInvalidate
  <2>5. Outcome(j, d, Invalidate(j[2]))
    BY <1>0, <1>4, <2>3, <2>4 DEF BlockAgent, Asked, First, Outcome
  <2> QED BY <2>5, Asks
<1>5. CASE UnblockAgent(j)
  <2> DEFINE d == [db EXCEPT !.blocked = @ \ {<<j[2], j[3]>>}]
  <2>1. j[1] = "unblock_agent"
    BY <1>5 DEF UnblockAgent, Asked, First
  <2>2. j[2] \in Groups /\ j[3] \in Agents
    BY <1>0, <2>1 DEF Given
  <2>3. DbOK(d)
    BY <1>0, <2>2, BlockedRow
  <2>4. Runs(j, Invalidate(j[2]))
    BY <2>2, RunsInvalidate
  <2>5. Outcome(j, d, Invalidate(j[2]))
    BY <1>0, <1>5, <2>3, <2>4 DEF UnblockAgent, Asked, First, Outcome
  <2> QED BY <2>5, Asks
<1> QED BY <1>1, <1>2, <1>3, <1>4, <1>5

\* settings.rs, public/user_endpoints.rs
LEMMA SettingHandlers ==
    ASSUME TypeInv, NEW j \in Jobs, PutSettings(j) \/ ChangeEndpoints(j) PROVE TypeInv'
<1>0. /\ Given(j) /\ DbOK(db) /\ excused \subseteq Entries
      /\ \A v \in Versions : Other(v) \in Versions
  BY Before
<1>1. CASE PutSettings(j)
  <2> DEFINE merged == [n \in Settings |-> IF n \in j[2] THEN Other(db.setting[n]) ELSE db.setting[n]]
             a == <<"upsert", merged>>
             es == {"setting"} \X j[2]
             ts == <<a>> \o Dels(es)
  <2>1. j[1] = "put_settings"
    BY <1>1 DEF PutSettings, Asked, First
  <2>2. j[2] \subseteq Settings
    BY <1>0, <2>1 DEF Given
  <2>3. a \in Tasks /\ TaskOf(j, a)
    <3>1. merged \in [Settings -> Versions]
      BY <1>0 DEF DbOK, DbType
    <3> HIDE DEF merged
    <3> QED BY <2>1, <3>1 DEF Tasks, TaskOf
  <2>4. es \in SUBSET Entries
    BY <2>2 DEF Entries, SettingEntries
  <2>5. IsFiniteSet(es)
    BY <2>2, RowsAssumption, FS_Subset, FS_Singleton, FS_Product
  <2>6. Runs(j, ts)
    <3> HIDE DEF a, es
    <3> QED BY <2>3, <2>4, <2>5, RunsOne, RunsDels, RunsBoth
  <2>7. Outcome(j, db, ts)
    BY <1>0, <1>1, <2>6 DEF PutSettings, Asked, First, Outcome
  <2> QED BY <2>7, Asks
<1>2. CASE ChangeEndpoints(j)
  <2> DEFINE a == <<"endpoints">>
             b == Del(<<"endpoints", j[2]>>)
  <2>1. j[1] = "change_endpoints"
    BY <1>2 DEF ChangeEndpoints, Asked, First
  <2>2. a \in Tasks /\ TaskOf(j, a)
    BY <2>1 DEF Tasks, TaskOf
  <2>3. b \in Tasks /\ TaskOf(j, b)
    BY <1>0, <2>1, EntriesAre, DelIs DEF Given
  <2>4. Runs(j, <<a, b>>)
    <3> HIDE DEF a, b
    <3> QED BY <2>2, <2>3, RunsTwo
  <2>5. Outcome(j, db, <<a, b>>)
    BY <1>0, <1>2, <2>4 DEF ChangeEndpoints, Asked, First, Outcome
  <2> QED BY <2>5, Asks
<1> QED BY <1>1, <1>2

\* key_subscriptions.rs, subscription_plans.rs
LEMMA SubscriptionHandlers ==
    ASSUME TypeInv, NEW j \in Jobs,
           Assign(j) \/ Cancel(j) \/ ChangeBonus(j) \/ UpdatePlan(j) \/ SyncPlan(j)
    PROVE  TypeInv'
<1>0. /\ Given(j) /\ DbOK(db) /\ excused \subseteq Entries /\ db.limit \in Versions
      /\ \A v \in Versions : Other(v) \in Versions
  BY Before DEF DbOK, DbType
<1>1. CASE Assign(j)
  <2> DEFINE a == <<"subscribe", db.limit>>
             b == Del(<<"subs", j[2]>>)
  <2>1. j[1] = "assign"
    BY <1>1 DEF Assign, Asked, First
  <2>2. a \in Tasks /\ TaskOf(j, a)
    BY <1>0, <2>1 DEF Tasks, TaskOf
  <2>3. b \in Tasks /\ TaskOf(j, b)
    BY <1>0, <2>1, EntriesAre, DelIs DEF Given
  <2>4. Runs(j, <<a, b>>)
    <3> HIDE DEF a, b
    <3> QED BY <2>2, <2>3, RunsTwo
  <2>5. Outcome(j, db, <<a, b>>)
    BY <1>0, <1>1, <2>4 DEF Assign, Asked, First, Outcome
  <2> QED BY <2>5, Asks
<1>2. CASE Cancel(j)
  <2> DEFINE a == <<"cancelled">>
             b == Del(<<"subs", j[2]>>)
  <2>1. j[1] = "cancel"
    BY <1>2 DEF Cancel, Asked, First
  <2>2. a \in Tasks /\ TaskOf(j, a)
    BY <2>1 DEF Tasks, TaskOf
  <2>3. b \in Tasks /\ TaskOf(j, b)
    BY <1>0, <2>1, EntriesAre, DelIs DEF Given
  <2>4. Runs(j, <<a, b>>)
    <3> HIDE DEF a, b
    <3> QED BY <2>2, <2>3, RunsTwo
  <2>5. Outcome(j, db, <<a, b>>)
    BY <1>0, <1>2, <2>4 DEF Cancel, Asked, First, Outcome
  <2> QED BY <2>5, Asks
<1>3. CASE ChangeBonus(j)
  <2> DEFINE a == <<"bonus">>
             b == Del(<<"subs", j[2]>>)
  <2>1. j[1] = "change_bonus"
    BY <1>3 DEF ChangeBonus, Asked, First
  <2>2. a \in Tasks /\ TaskOf(j, a)
    BY <2>1 DEF Tasks, TaskOf
  <2>3. b \in Tasks /\ TaskOf(j, b)
    BY <1>0, <2>1, EntriesAre, DelIs DEF Given
  <2>4. Runs(j, <<a, b>>)
    <3> HIDE DEF a, b
    <3> QED BY <2>2, <2>3, RunsTwo
  <2>5. Outcome(j, db, <<a, b>>)
    BY <1>0, <1>3, <2>4 DEF ChangeBonus, Asked, First, Outcome
  <2> QED BY <2>5, Asks
<1>4. CASE UpdatePlan(j)
  <2> DEFINE v == Other(db.limit)
             d == [db EXCEPT !.limit = Other(@)]
             a == <<"sync", v>>
             b == <<"holders">>
  <2>1. j[1] = "update_plan"
    BY <1>4 DEF UpdatePlan, Asked, First
  <2>2. /\ a \in Tasks /\ TaskOf(j, a) /\ b \in Tasks /\ TaskOf(j, b)
    BY <1>0, <2>1 DEF Tasks, TaskOf
  <2>3. DbOK(d)
    <3>1. d = [db EXCEPT !.limit = v]
      BY <1>0 DEF DbOK, DbType
    <3>2. v \in Versions
      BY <1>0
    <3> HIDE DEF v, d
    <3> QED BY <1>0, <3>1, <3>2, PutLimit
  <2>4. Runs(j, <<a, b>>)
    <3> HIDE DEF a, b
    <3> QED BY <2>2, RunsTwo
  <2>5. Outcome(j, d, <<a, b>>)
    BY <1>0, <1>4, <2>3, <2>4 DEF UpdatePlan, Asked, First, Outcome
  <2> QED BY <2>5, Asks
<1>5. CASE SyncPlan(j)
  <2> DEFINE a == <<"sync", db.limit>>
             b == <<"holders">>
  <2>1. j[1] = "sync_plan"
    BY <1>5 DEF SyncPlan, Asked, First
  <2>2. /\ a \in Tasks /\ TaskOf(j, a) /\ b \in Tasks /\ TaskOf(j, b)
    BY <1>0, <2>1 DEF Tasks, TaskOf
  <2>3. Runs(j, <<a, b>>)
    <3> HIDE DEF a, b
    <3> QED BY <2>2, RunsTwo
  <2>4. Outcome(j, db, <<a, b>>)
    BY <1>0, <1>5, <2>3 DEF SyncPlan, Asked, First, Outcome
  <2> QED BY <2>4, Asks
<1> QED BY <1>1, <1>2, <1>3, <1>4, <1>5

-----------------------------------------------------------------------------
(* The statements that follow *)

\* What a handler is about to delete are entries.
LEMMA PendingAre == ASSUME TypeInv, NEW j \in Jobs PROVE Pending(j) \subseteq Entries
<1>1. todo[j] \in Seq(Tasks) /\ db \in DbType
  BY DEF TypeInv, TypeOK
<1>2. \A i \in 1 .. Len(todo[j]) : todo[j][i] \in Tasks
  BY <1>1
<1>3. \A i \in 1 .. Len(todo[j]) : Targets(todo[j][i], db) \subseteq Entries
  BY <1>1, <1>2, TargetsAre
<1> QED BY <1>3 DEF Pending

\* The first task of a list that is not empty.
LEMMA Current ==
    ASSUME TypeInv, NEW j \in Jobs, todo[j] # <<>>
    PROVE  Head(todo[j]) \in Tasks /\ TaskOf(j, Head(todo[j])) /\ Runs(j, Tail(todo[j]))
<1>1. Runs(j, todo[j])
  BY DEF TypeInv
<1> QED BY <1>1, RunsOn

\* A write that leaves the tables as they must be, or is refused.
LEMMA ThenKeeps ==
    ASSUME TypeInv, NEW j \in Jobs, NEW refused, NEW d, NEW raced,
           Then(j, refused, d, raced), todo[j] # <<>>, ~refused => DbOK(d)
    PROVE  TypeInv'
<1>1. /\ DbOK(db) /\ excused \subseteq Entries /\ DOMAIN cached = Entries
      /\ failures \in 0..plan.failures
  BY Before DEF TypeInv, TypeOK
<1>2. /\ plan' = plan /\ cached' = cached /\ waiting' = waiting /\ fill' = fill
      /\ failures' = failures
  BY DEF Then
<1>3. CASE refused
  <2>1. todo' = [todo EXCEPT ![j] = <<>>] /\ excused' = excused \cup Pending(j) /\ db' = db
    BY <1>3 DEF Then
  <2>2. excused' \subseteq Entries
    BY <1>1, <2>1, PendingAre
  <2> QED BY <1>1, <1>2, <2>1, <2>2, RunsNone, Worked
<1>4. CASE ~refused
  <2>1. /\ todo' = [todo EXCEPT ![j] = Tail(todo[j])] /\ db' = d
        /\ excused' = (IF raced THEN excused \cup Outdates(d) ELSE excused)
    BY <1>4 DEF Then, TypeInv, TypeOK
  <2>2. Outdates(d) \subseteq Entries
    BY DEF Outdates
  <2>3. excused' \subseteq Entries
    BY <1>1, <2>1, <2>2
  <2>4. Runs(j, Tail(todo[j]))
    BY Current
  <2> QED BY <1>1, <1>2, <1>4, <2>1, <2>3, <2>4, Worked
<1> QED BY <1>3, <1>4

\* The SELECTs and the DELs of an invalidation, and a handler that stops.
LEMMA Invalidating ==
    ASSUME TypeInv, NEW j \in Jobs, Select(j) \/ RunDel(j) \/ Abort(j) PROVE TypeInv'
<1>1. /\ DbOK(db) /\ excused \subseteq Entries /\ DOMAIN cached = Entries
      /\ failures \in 0..plan.failures /\ db \in DbType /\ plan.failures \in Nat
  BY Before, PlansAssumption DEF TypeInv, TypeOK
<1>2. todo[j] # <<>>
  BY DEF Select, RunDel, Abort, Doing
<1> DEFINE t == Head(todo[j])
           rest == Tail(todo[j])
<1>3. t \in Tasks /\ TaskOf(j, t) /\ Runs(j, rest)
  BY <1>2, Current
<1>4. Fails => failures' \in 0..plan.failures
  BY <1>1 DEF Fails
<1>5. todo \in [Jobs -> Seq(Tasks)]
  BY DEF TypeInv, TypeOK
<1>6. CASE Select(j)
  <2>1. /\ t[1] \in Selects
        /\ \/ todo' = [todo EXCEPT ![j] = Found(t, db) \o rest] /\ failures' = failures
              /\ excused' = excused
           \/ todo' = [todo EXCEPT ![j] = rest] /\ Fails /\ excused' = excused \cup Targets(t, db)
        /\ db' = db /\ plan' = plan /\ cached' = cached /\ waiting' = waiting /\ fill' = fill
    BY <1>5, <1>6 DEF Select, Doing
  <2> HIDE DEF t, rest
  <2>2. Targets(t, db) \subseteq Entries
    BY <1>1, <1>3, TargetsAre
  <2>3. excused' \subseteq Entries /\ failures' \in 0..plan.failures
    BY <1>1, <1>4, <2>1, <2>2
  <2>4. Runs(j, Found(t, db))
    <3>1. CASE t[1] = "users"
      <4>1. UsersOf(t[2], db) \in SUBSET Groups
        BY DEF UsersOf
      <4> QED BY <3>1, <4>1, RunsInvalidateAll DEF Found
    <3>2. CASE t[1] # "users"
      <4>1. IsFiniteSet(Targets(t, db))
        BY <1>1, <1>3, <2>1, <3>2, TargetsAre DEF Selects
      <4> QED BY <2>2, <3>2, <4>1, RunsDels DEF Found
    <3> QED BY <3>1, <3>2
  <2>5. Runs(j, Found(t, db) \o rest)
    BY <1>3, <2>4, RunsBoth
  <2>6. CASE todo' = [todo EXCEPT ![j] = Found(t, db) \o rest]
    <3> DEFINE ts == Found(t, db) \o rest
    <3>1. Runs(j, ts) /\ todo' = [todo EXCEPT ![j] = ts]
      BY <2>5, <2>6
    <3> HIDE DEF ts
    <3> QED BY <1>1, <2>1, <2>3, <3>1, Worked
  <2>7. CASE todo' = [todo EXCEPT ![j] = rest]
    BY <1>1, <1>3, <2>1, <2>3, <2>7, Worked
  <2> QED BY <2>1, <2>6, <2>7
<1>7. CASE RunDel(j)
  <2>1. /\ t[1] = "del" /\ todo' = [todo EXCEPT ![j] = rest]
        /\ \/ Drop(t[2]) /\ failures' = failures
           \/ Fails /\ excused' = excused \cup {t[2]} /\ cached' = cached
        /\ db' = db /\ plan' = plan /\ waiting' = waiting /\ fill' = fill
    BY <1>5, <1>7 DEF RunDel, Doing
  <2> HIDE DEF t, rest
  <2>2. t[2] \in Entries
    BY <1>3, <2>1, TaskIs
  <2>3. excused' \subseteq Entries /\ failures' \in 0..plan.failures /\ DOMAIN cached' = Entries
    BY <1>1, <1>4, <2>1, <2>2 DEF Drop
  <2> QED BY <1>1, <1>3, <2>1, <2>3, Worked
<1>8. CASE Abort(j)
  <2>1. /\ todo' = [todo EXCEPT ![j] = <<>>] /\ Fails /\ excused' = excused \cup Pending(j)
        /\ db' = db /\ plan' = plan /\ cached' = cached /\ waiting' = waiting /\ fill' = fill
    BY <1>8 DEF Abort
  <2>2. excused' \subseteq Entries /\ failures' \in 0..plan.failures
    BY <1>1, <1>4, <2>1, PendingAre
  <2> QED BY <1>1, <2>1, <2>2, RunsNone, Worked
<1> QED BY <1>6, <1>7, <1>8

\* groups.rs, servers.rs
LEMMA GroupWrites ==
    ASSUME TypeInv, NEW j \in Jobs, Erase(j) \/ SetGroupApi(j) \/ Chain(j) \/ DropServer(j)
    PROVE  TypeInv'
<1>0. /\ Given(j) /\ DbOK(db)
      /\ \A g \in Groups : db.group[g] # None => db.group[g] \in GroupRows
  BY Before
<1> DEFINE t == Head(todo[j])
<1>1. todo[j] # <<>> /\ t \in Tasks /\ TaskOf(j, t)
  BY Current DEF Erase, SetGroupApi, Chain, DropServer, Doing
<1>2. CASE Erase(j)
  <2> DEFINE d == WithoutGroups(j[2], db)
  <2>1. j[1] = "delete_groups"
    BY <1>1, <1>2 DEF Erase, Doing, TaskOf
  <2>2. DbOK(d)
    BY <1>0, <2>1, GroupsGone DEF Given
  <2>3. Then(j, FALSE, d, TRUE)
    BY <1>2 DEF Erase
  <2> HIDE DEF d
  <2> QED BY <1>1, <2>2, <2>3, ThenKeeps
<1>3. CASE SetGroupApi(j)
  <2> DEFINE g == j[2]
             refused == db.group[g] = None
             raced == db.group[g] # None /\ db.group[g].api # t[2]
             row == [db.group[g] EXCEPT !.api = j[3]]
             d == [db EXCEPT !.group[g].api = j[3]]
  <2>1. j[1] = "regenerate_group_key"
    BY <1>1, <1>3 DEF SetGroupApi, Doing, TaskOf
  <2>2. g \in Groups /\ j[3] \in ApiKeys
    BY <1>0, <2>1 DEF Given
  <2>3. ASSUME ~refused PROVE DbOK(d)
    <3>1. row \in GroupRows /\ row.ct = db.group[g].ct
      BY <1>0, <2>2, <2>3 DEF GroupRows
    <3>2. row.ct # None => db.server[row.ct] # None
      BY <1>0, <2>2, <2>3, <3>1 DEF DbOK, Referential
    <3>3. d = [db EXCEPT !.group[g] = row]
      BY <1>0, <2>2 DEF DbOK, DbType
    <3> HIDE DEF row, d, g
    <3>4. DbOK([db EXCEPT !.group[g] = row])
      BY <1>0, <2>2, <3>1, <3>2, PutGroupRow
    <3> QED BY <3>3, <3>4
  <2>4. Then(j, refused, d, raced)
    BY <1>3 DEF SetGroupApi
  <2> HIDE DEF d, refused, raced
  <2> QED BY <1>1, <2>3, <2>4, ThenKeeps
<1>4. CASE Chain(j)
  <2> DEFINE g == t[2]
             s == j[3]
             refused == db.group[g] = None \/ db.server[s] = None
             row == [on |-> TRUE, row |-> 0]
             d == [db EXCEPT !.chain[<<g, s>>] = row]
  <2>1. j[1] = "bulk_assign" /\ t[1] = "chain"
    BY <1>1, <1>4 DEF Chain, Doing, TaskOf
  <2>2. s \in Servers /\ g \in Groups /\ row \in AssignRows
    BY <1>0, <1>1, <2>1, TaskIs DEF Given, AssignRows, Versions
  <2>3. ~refused => DbOK(d)
    <3> HIDE DEF g, s, row
    <3> QED BY <1>0, <2>2, PutChainRow
  <2>4. Then(j, refused, d, FALSE)
    BY <1>4 DEF Chain
  <2> HIDE DEF d, refused
  <2> QED BY <1>1, <2>3, <2>4, ThenKeeps
<1>5. CASE DropServer(j)
  <2> DEFINE s == j[2]
             refused == \/ \E g \in Groups : db.chain[<<g, s>>] # None
                        \/ \E k \in Keys : <<k, s>> \in db.keyServers
             d == WithoutServer(s, db)
  <2>1. j[1] = "delete_server"
    BY <1>1, <1>5 DEF DropServer, Doing, TaskOf
  <2>2. s \in Servers
    BY <1>0, <2>1 DEF Given
  <2>3. ~refused => DbOK(d)
    <3> HIDE DEF s
    <3> QED BY <1>0, <2>2, ServerGone
  <2>4. Then(j, refused, d, TRUE)
    BY <1>5 DEF DropServer
  <2> HIDE DEF d, refused
  <2> QED BY <1>1, <2>3, <2>4, ThenKeeps
<1> QED BY <1>2, <1>3, <1>4, <1>5

\* group_keys.rs, group_key_servers.rs
LEMMA KeyWrites ==
    ASSUME TypeInv, NEW j \in Jobs,
           InsertKey(j) \/ SetKeyApi(j) \/ DropKey(j) \/ Link(j) \/ Unlink(j)
    PROVE  TypeInv'
<1>0. /\ Given(j) /\ DbOK(db)
      /\ \A k \in Keys : db.key[k] # None => db.key[k] \in KeyRows
  BY Before
<1> DEFINE t == Head(todo[j])
<1>1. todo[j] # <<>> /\ t \in Tasks /\ TaskOf(j, t)
  BY Current DEF InsertKey, SetKeyApi, DropKey, Link, Unlink, Doing
<1>2. CASE InsertKey(j)
  <2> DEFINE k == j[2]
             refused == db.group[j[3]] = None
             row == [group |-> j[3], api |-> j[4], on |-> TRUE]
             subs == IF j[5] THEN [active |-> TRUE, limit |-> t[2], row |-> 0] ELSE None
             d == [db EXCEPT !.key[k] = row, !.subs[k] = subs]
  <2>1. j[1] = "create_key" /\ t[1] = "insert_key"
    BY <1>1, <1>2 DEF InsertKey, Doing, TaskOf
  <2>2. k \in Keys /\ row \in KeyRows /\ row.group = j[3] /\ subs \in SubRows \cup {None}
    BY <1>0, <1>1, <2>1, TaskIs DEF Given, KeyRows, SubRows, Versions
  <2>3. ASSUME ~refused PROVE DbOK(d)
    <3> DEFINE c == [db EXCEPT !.key[k] = row]
    <3>1. d = [c EXCEPT !.subs[k] = subs] /\ c.key[k] = row
      BY <1>0, <2>2 DEF DbOK, DbType
    <3> HIDE DEF row, subs, k, d
    <3>2. DbOK(c)
      BY <1>0, <2>2, <2>3, PutKeyRow
    <3>3. c.key[k] # None
      BY <2>2, <3>1, RowsAssumption
    <3> HIDE DEF c
    <3>4. DbOK([c EXCEPT !.subs[k] = subs])
      BY <2>2, <3>2, <3>3, PutSubsRow
    <3> QED BY <3>1, <3>4
  <2>4. Then(j, refused, d, FALSE)
    BY <1>2 DEF InsertKey
  <2> HIDE DEF d, refused
  <2> QED BY <1>1, <2>3, <2>4, ThenKeeps
<1>3. CASE SetKeyApi(j)
  <2> DEFINE k == j[2]
             refused == db.key[k] = None
             row == [db.key[k] EXCEPT !.api = j[3]]
             d == [db EXCEPT !.key[k].api = j[3]]
  <2>1. j[1] = "regenerate_key"
    BY <1>1, <1>3 DEF SetKeyApi, Doing, TaskOf
  <2>2. k \in Keys /\ j[3] \in ApiKeys
    BY <1>0, <2>1 DEF Given
  <2>3. ASSUME ~refused PROVE DbOK(d)
    <3>1. row \in KeyRows /\ row.group = db.key[k].group
      BY <1>0, <2>2, <2>3 DEF KeyRows
    <3>2. db.group[row.group] # None
      BY <1>0, <2>2, <2>3, <3>1 DEF DbOK, Referential
    <3>3. d = [db EXCEPT !.key[k] = row]
      BY <1>0, <2>2 DEF DbOK, DbType
    <3> HIDE DEF row, d, k
    <3>4. DbOK([db EXCEPT !.key[k] = row])
      BY <1>0, <2>2, <3>1, <3>2, PutKeyRow
    <3> QED BY <3>3, <3>4
  <2>4. Then(j, refused, d, HasOther(j))
    BY <1>3 DEF SetKeyApi
  <2> HIDE DEF d, refused
  <2> QED BY <1>1, <2>3, <2>4, ThenKeeps
<1>4. CASE DropKey(j)
  <2> DEFINE d == WithoutKeys({j[2]}, db)
  <2>1. j[1] = "delete_key"
    BY <1>1, <1>4 DEF DropKey, Doing, TaskOf
  <2>2. {j[2]} \in SUBSET Keys
    BY <1>0, <2>1 DEF Given
  <2>3. DbOK(d)
    BY <1>0, <2>2, KeysGone
  <2>4. Then(j, FALSE, d, HasOther(j))
    BY <1>4 DEF DropKey
  <2> HIDE DEF d
  <2> QED BY <1>1, <2>3, <2>4, ThenKeeps
<1>5. CASE Link(j)
  <2> DEFINE refused == db.key[j[2]] = None \/ db.server[j[3]] = None
             d == [db EXCEPT !.keyServers = @ \cup {<<j[2], j[3]>>}]
  <2>1. j[1] = "assign_key_server"
    BY <1>1, <1>5 DEF Link, Doing, TaskOf
  <2>2. j[2] \in Keys /\ j[3] \in Servers
    BY <1>0, <2>1 DEF Given
  <2>3. ~refused => DbOK(d)
    BY <1>0, <2>2, KeyServersRow
  <2>4. Then(j, refused, d, HasOther(j))
    BY <1>5 DEF Link
  <2> HIDE DEF d, refused
  <2> QED BY <1>1, <2>3, <2>4, ThenKeeps
<1>6. CASE Unlink(j)
  <2> DEFINE refused == <<j[2], j[3]>> \notin db.keyServers
             d == [db EXCEPT !.keyServers = @ \ {<<j[2], j[3]>>}]
  <2>1. j[1] = "remove_key_server"
    BY <1>1, <1>6 DEF Unlink, Doing, TaskOf
  <2>2. j[2] \in Keys /\ j[3] \in Servers
    BY <1>0, <2>1 DEF Given
  <2>3. DbOK(d)
    BY <1>0, <2>2, KeyServersRow
  <2>4. Then(j, refused, d, HasOther(j))
    BY <1>6 DEF Unlink
  <2> HIDE DEF d, refused
  <2> QED BY <1>1, <2>3, <2>4, ThenKeeps
<1> QED BY <1>2, <1>3, <1>4, <1>5, <1>6

\* group_allowed_models.rs, group_key_allowed_models.rs, models.rs
LEMMA ModelWrites ==
    ASSUME TypeInv, NEW j \in Jobs, Allow(j) \/ Cascade(j) \/ AllowKey(j) \/ DropModel(j)
    PROVE  TypeInv'
<1>0. Given(j) /\ DbOK(db)
  BY Before
<1> DEFINE t == Head(todo[j])
<1>1. todo[j] # <<>> /\ t \in Tasks /\ TaskOf(j, t)
  BY Current DEF Allow, Cascade, AllowKey, DropModel, Doing
<1>2. CASE Allow(j)
  <2> DEFINE refused == \/ db.group[j[2]] = None
                        \/ db.model[j[3]] = None
                        \/ <<j[2], j[3]>> \in db.allowed
             d == [db EXCEPT !.allowed = @ \cup {<<j[2], j[3]>>}]
  <2>1. j[1] = "allow_model"
    BY <1>1, <1>2 DEF Allow, Doing, TaskOf
  <2>2. j[2] \in Groups /\ j[3] \in Models
    BY <1>0, <2>1 DEF Given
  <2>3. ~refused => DbOK(d)
    BY <1>0, <2>2, AllowedRow
  <2>4. Then(j, refused, d, FALSE)
    BY <1>2 DEF Allow
  <2> HIDE DEF d, refused
  <2> QED BY <1>1, <2>3, <2>4, ThenKeeps
<1>3. CASE Cascade(j)
  <2> DEFINE gone == KeysOf(j[2], db) \X {j[3]}
             less == db.keyAllowed \ gone
             d == [db EXCEPT !.keyAllowed = @ \ gone]
  <2>1. DbOK(d)
    <3>1. /\ less \in SUBSET (Keys \X Models)
          /\ \A p \in less : db.key[p[1]] # None /\ db.model[p[2]] # None
      BY <1>0 DEF DbOK, DbType, Referential
    <3>2. d = [db EXCEPT !.keyAllowed = less]
      BY <1>0 DEF DbOK, DbType
    <3> HIDE DEF less, d
    <3>3. DbOK([db EXCEPT !.keyAllowed = less])
      BY <1>0, <3>1, PutKeyAllowed
    <3> QED BY <3>2, <3>3
  <2>2. Then(j, FALSE, d, FALSE)
    BY <1>3 DEF Cascade
  <2> HIDE DEF d
  <2> QED BY <1>1, <2>1, <2>2, ThenKeeps
<1>4. CASE AllowKey(j)
  <2> DEFINE refused == \/ db.key[j[3]] = None
                        \/ db.model[j[4]] = None
                        \/ <<j[3], j[4]>> \in db.keyAllowed
             d == [db EXCEPT !.keyAllowed = @ \cup {<<j[3], j[4]>>}]
  <2>1. j[1] = "allow_key_model"
    BY <1>1, <1>4 DEF AllowKey, Doing, TaskOf
  <2>2. j[3] \in Keys /\ j[4] \in Models
    BY <1>0, <2>1 DEF Given
  <2>3. ~refused => DbOK(d)
    BY <1>0, <2>2, KeyAllowedRow
  <2>4. Then(j, refused, d, OfOther(j))
    BY <1>4 DEF AllowKey
  <2> HIDE DEF d, refused
  <2> QED BY <1>1, <2>3, <2>4, ThenKeeps
<1>5. CASE DropModel(j)
  <2> DEFINE m == j[2]
             refused == \/ \E g \in Groups : <<g, m>> \in db.allowed
                        \/ \E k \in Keys : <<k, m>> \in db.keyAllowed
             d == [db EXCEPT !.model[m] = None]
  <2>1. j[1] = "delete_model"
    BY <1>1, <1>5 DEF DropModel, Doing, TaskOf
  <2>2. m \in Models
    BY <1>0, <2>1 DEF Given
  <2>3. ~refused => DbOK(d)
    <3> HIDE DEF m
    <3> QED BY <1>0, <2>2, ModelGone
  <2>4. Then(j, refused, d, FALSE)
    BY <1>5 DEF DropModel
  <2> HIDE DEF d, refused
  <2> QED BY <1>1, <2>3, <2>4, ThenKeeps
<1> QED BY <1>2, <1>3, <1>4, <1>5

\* settings.rs, public/user_endpoints.rs, key_subscriptions.rs, subscription_plans.rs
LEMMA OtherWrites ==
    ASSUME TypeInv, NEW j \in Jobs,
           \/ Upsert(j) \/ WriteEndpoints(j)
           \/ Subscribe(j) \/ SetCancelled(j) \/ SetBonus(j) \/ Sync(j)
    PROVE  TypeInv'
<1>0. /\ Given(j) /\ DbOK(db)
      /\ \A k \in Keys : db.subs[k] # None => db.subs[k] \in SubRows
      /\ \A v \in Versions : Other(v) \in Versions
      /\ 0 \in Versions
  BY Before DEF Versions
<1>1. /\ db.subs \in [Keys -> SubRows \cup {None}] /\ db.endpoints \in [Keys -> Versions]
      /\ \A k \in Keys : db.subs[k] # None => db.key[k] # None
  BY <1>0 DEF DbOK, DbType, Referential
<1> DEFINE t == Head(todo[j])
<1>2. todo[j] # <<>> /\ t \in Tasks /\ TaskOf(j, t)
  BY Current DEF Upsert, WriteEndpoints, Subscribe, SetCancelled, SetBonus, Sync, Doing
<1>3. CASE Upsert(j)
  <2> DEFINE raced == \E n \in Settings \ j[2] : t[2][n] # db.setting[n]
             d == [db EXCEPT !.setting = t[2]]
  <2>1. t[1] = "upsert"
    BY <1>3 DEF Upsert, Doing
  <2>2. t[2] \in [Settings -> Versions]
    BY <1>2, <2>1, TaskIs
  <2>3. Then(j, FALSE, d, raced)
    BY <1>3 DEF Upsert
  <2>4. DbOK(d)
    BY <1>0, <2>2, PutSetting
  <2> HIDE DEF d, raced
  <2> QED BY <1>2, <2>3, <2>4, ThenKeeps
<1>4. CASE WriteEndpoints(j)
  <2> DEFINE k == j[2]
             refused == db.key[k] = None
             v == Other(db.endpoints[k])
             d == [db EXCEPT !.endpoints[k] = Other(@)]
  <2>1. j[1] = "change_endpoints"
    BY <1>2, <1>4 DEF WriteEndpoints, Doing, TaskOf
  <2>2. k \in Keys
    BY <1>0, <2>1 DEF Given
  <2>3. DbOK(d)
    <3>1. v \in Versions /\ d = [db EXCEPT !.endpoints[k] = v]
      BY <1>0, <1>1, <2>2 DEF DbOK, DbType
    <3> HIDE DEF v, d, k
    <3>2. DbOK([db EXCEPT !.endpoints[k] = v])
      BY <1>0, <2>2, <3>1, PutEndpointsRow
    <3> QED BY <3>1, <3>2
  <2>4. Then(j, refused, d, FALSE)
    BY <1>4 DEF WriteEndpoints
  <2> HIDE DEF d, refused
  <2> QED BY <1>2, <2>3, <2>4, ThenKeeps
<1>5. CASE Subscribe(j)
  <2> DEFINE k == j[2]
             refused == db.key[k] = None
             row == [active |-> TRUE, limit |-> t[2], row |-> 0]
             d == [db EXCEPT !.subs[k] = row]
  <2>1. j[1] = "assign" /\ t[1] = "subscribe"
    BY <1>2, <1>5 DEF Subscribe, Doing, TaskOf
  <2>2. k \in Keys /\ row \in SubRows
    BY <1>0, <1>2, <2>1, TaskIs DEF Given, SubRows
  <2>3. ~refused => DbOK(d)
    <3> HIDE DEF row, k
    <3> QED BY <1>0, <2>2, PutSubsRow
  <2>4. Then(j, refused, d, FALSE)
    BY <1>5 DEF Subscribe
  <2> HIDE DEF d, refused
  <2> QED BY <1>2, <2>3, <2>4, ThenKeeps
<1>6. CASE SetCancelled(j)
  <2> DEFINE k == j[2]
             refused == db.subs[k] = None
             row == [db.subs[k] EXCEPT !.active = FALSE]
             d == [db EXCEPT !.subs[k].active = FALSE]
  <2>1. j[1] = "cancel"
    BY <1>2, <1>6 DEF SetCancelled, Doing, TaskOf
  <2>2. k \in Keys
    BY <1>0, <2>1 DEF Given
  <2>3. ASSUME ~refused PROVE DbOK(d)
    <3>1. row \in SubRows /\ db.key[k] # None
      BY <1>0, <1>1, <2>2, <2>3 DEF SubRows
    <3>2. d = [db EXCEPT !.subs[k] = row]
      BY <1>0, <2>2 DEF DbOK, DbType
    <3> HIDE DEF row, d, k
    <3>3. DbOK([db EXCEPT !.subs[k] = row])
      BY <1>0, <2>2, <3>1, PutSubsRow
    <3> QED BY <3>2, <3>3
  <2>4. Then(j, refused, d, FALSE)
    BY <1>6 DEF SetCancelled
  <2> HIDE DEF d, refused
  <2> QED BY <1>2, <2>3, <2>4, ThenKeeps
<1>7. CASE SetBonus(j)
  <2> DEFINE k == j[2]
             refused == db.subs[k] = None
             row == [db.subs[k] EXCEPT !.row = Other(@)]
             d == [db EXCEPT !.subs[k].row = Other(@)]
  <2>1. j[1] = "change_bonus"
    BY <1>2, <1>7 DEF SetBonus, Doing, TaskOf
  <2>2. k \in Keys
    BY <1>0, <2>1 DEF Given
  <2>3. ASSUME ~refused PROVE DbOK(d)
    <3>1. row \in SubRows /\ db.key[k] # None
      BY <1>0, <1>1, <2>2, <2>3 DEF SubRows
    <3>2. d = [db EXCEPT !.subs[k] = row]
      BY <1>0, <2>2 DEF DbOK, DbType
    <3> HIDE DEF row, d, k
    <3>3. DbOK([db EXCEPT !.subs[k] = row])
      BY <1>0, <2>2, <3>1, PutSubsRow
    <3> QED BY <3>2, <3>3
  <2>4. Then(j, refused, d, FALSE)
    BY <1>7 DEF SetBonus
  <2> HIDE DEF d, refused
  <2> QED BY <1>2, <2>3, <2>4, ThenKeeps
<1>8. CASE Sync(j)
  <2> DEFINE held(k) == db.subs[k] # None /\ db.subs[k].active
             row(k) == IF held(k) THEN [db.subs[k] EXCEPT !.limit = t[2]] ELSE db.subs[k]
             new == [k \in Keys |-> row(k)]
             d == [db EXCEPT !.subs = new]
  <2>1. t[1] = "sync"
    BY <1>8 DEF Sync, Doing
  <2>2. t[2] \in Versions
    BY <1>2, <2>1, TaskIs
  <2>3. Then(j, FALSE, d, FALSE)
    BY <1>8 DEF Sync
  <2>4. DbOK(d)
    <3>1. \A k \in Keys : held(k) => [db.subs[k] EXCEPT !.limit = t[2]] \in SubRows
      BY <1>0, <2>2 DEF SubRows
    <3>2. /\ new \in [Keys -> SubRows \cup {None}]
          /\ \A k \in Keys : new[k] # None => db.key[k] # None
      BY <1>1, <3>1
    <3> HIDE DEF new
    <3> QED BY <1>0, <3>2, PutSubs
  <2> HIDE DEF d
  <2> QED BY <1>2, <2>3, <2>4, ThenKeeps
<1> QED BY <1>3, <1>4, <1>5, <1>6, <1>7, <1>8

-----------------------------------------------------------------------------
(* The requests, and the theorem *)

\* A step of what a request is assembling.
LEMMA GoesOn ==
    ASSUME Filling, fill # None, NEW step, NEW got, Goes(step, got)
    PROVE  Filling' /\ (fill' # None => fill'.entry \in Entries)
<1> DEFINE a == fill.at
           g == fill.got
<1>1. PICK e \in Entries : fill = [entry |-> e, at |-> a, got |-> g]
  BY DEF Filling
<1> HIDE DEF a, g
<1>2. fill' = [fill EXCEPT !.at = step, !.got = got]
  BY DEF Goes
<1>3. fill' = [entry |-> e, at |-> step, got |-> got]
  BY <1>1, <1>2
<1>4. fill'.entry = e /\ fill'.at = step /\ fill'.got = got
  BY <1>3
<1>5. fill' = [entry |-> e, at |-> fill'.at, got |-> fill'.got]
  BY <1>3, <1>4
<1> QED BY <1>4, <1>5 DEF Filling

\* A request reads the tables and writes one entry.
LEMMA Requests ==
    ASSUME TypeInv, (\E e \in Entries : Miss(e) \/ Expire(e)) \/ Read
    PROVE  TypeInv'
<1>1. /\ Filling /\ (fill # None => fill.entry \in Entries)
      /\ DOMAIN cached = Entries /\ excused \subseteq Entries
      /\ failures \in 0..plan.failures /\ plan.failures \in Nat
  BY PlansAssumption DEF TypeInv, TypeOK
<1>2. plan' = plan /\ db' = db /\ waiting' = waiting /\ todo' = todo
  BY DEF Miss, Expire, Read, FindGroup, FindKey, FindOwner, ReadRow, ReadPart, LoseConfig, Store,
         readVars
<1>3. failures' \in 0..plan.failures
  <2>1. failures' = failures \/ Fails
    BY DEF Miss, Expire, Read, FindGroup, FindKey, FindOwner, ReadRow, ReadPart, LoseConfig, Store
  <2> QED BY <1>1, <2>1 DEF Fails
<1>4. Filling' /\ (fill' # None => fill'.entry \in Entries)
  <2>1. ASSUME NEW e \in Entries, Miss(e) PROVE Filling' /\ fill'.entry \in Entries
    <3> DEFINE at == IF e[1] = "config" THEN "group" ELSE "row"
    <3>1. fill' = [entry |-> e, at |-> at, got |-> None]
      BY <2>1 DEF Miss
    <3> HIDE DEF at
    <3>2. fill'.entry = e /\ fill'.at = at /\ fill'.got = None
      BY <3>1
    <3>3. fill' = [entry |-> e, at |-> fill'.at, got |-> fill'.got]
      BY <3>1, <3>2
    <3> QED BY <3>2, <3>3 DEF Filling
  <2>2. ASSUME fill' = fill \/ fill' = None PROVE Filling' /\ (fill' # None => fill'.entry \in Entries)
    BY <1>1, <2>2 DEF Filling
  <2>3. ASSUME NEW e \in Entries, Expire(e) PROVE fill' = fill
    BY <2>3 DEF Expire
  <2>4. ASSUME Read PROVE \/ fill' = None
                          \/ fill # None /\ \E step, got : Goes(step, got)
    <3>1. CASE FindGroup
      BY <3>1 DEF FindGroup, At
    <3>2. CASE FindKey
      BY <3>2 DEF FindKey, At
    <3>3. CASE FindOwner
      BY <3>3 DEF FindOwner, At
    <3>4. CASE ReadRow
      BY <3>4 DEF ReadRow, At
    <3>5. CASE ReadPart
      BY <3>5 DEF ReadPart, At
    <3>6. CASE LoseConfig \/ Store
      BY <3>6 DEF LoseConfig, Store
    <3> QED BY <2>4, <3>1, <3>2, <3>3, <3>4, <3>5, <3>6 DEF Read
  <2> QED BY <1>1, <2>1, <2>2, <2>3, <2>4, GoesOn
<1>5. DOMAIN cached' = Entries /\ excused' \subseteq Entries
  <2>1. ASSUME NEW e \in Entries, Miss(e) PROVE cached' = cached /\ excused' = excused
    BY <2>1 DEF Miss
  <2>2. ASSUME NEW e \in Entries, Expire(e)
        PROVE  DOMAIN cached' = Entries /\ excused' \subseteq Entries
    BY <1>1, <2>2 DEF Expire, Drop
  <2>3. ASSUME Read, ~Store PROVE cached' = cached /\ excused' = excused
    BY <2>3 DEF Read, FindGroup, FindKey, FindOwner, ReadRow, ReadPart, LoseConfig
  <2>4. ASSUME Store PROVE DOMAIN cached' = Entries /\ excused' \subseteq Entries
    BY <1>1, <2>4 DEF Store, At
  <2> QED BY <1>1, <2>1, <2>2, <2>3, <2>4
<1>6. \A j \in Jobs : Runs(j, todo'[j])
  BY <1>2 DEF TypeInv
<1>7. TypeOK'
  BY <1>2, <1>3, <1>4, <1>5 DEF TypeInv, TypeOK
<1> QED BY <1>4, <1>6, <1>7 DEF TypeInv

\* At the start nothing is cached and no handler runs.
LEMMA TypeInit == Init => TypeInv
<1> SUFFICES ASSUME Init PROVE TypeInv
  OBVIOUS
<1>1. \A j \in Jobs : todo[j] = <<>>
  BY DEF Init
<1>2. todo \in [Jobs -> Seq(Tasks)]
  BY DEF Init
<1>3. plan.jobs \subseteq Jobs /\ plan.failures \in Nat
  BY PlansAssumption DEF Init, Jobs
<1>4. TypeOK
  BY <1>2, <1>3, PlansAssumption DEF Init, TypeOK
<1>5. Filling
  BY DEF Init, Filling
<1> QED BY <1>1, <1>4, <1>5, RunsNone DEF TypeInv

\* Every step keeps the invariant.
LEMMA TypeStep == TypeInv /\ [Next]_vars => TypeInv'
<1> SUFFICES ASSUME TypeInv, [Next]_vars PROVE TypeInv'
  OBVIOUS
<1>1. CASE (\E e \in Entries : Miss(e) \/ Expire(e)) \/ Read
  BY <1>1, Requests
<1>2. ASSUME NEW j \in Jobs, Handle(j) PROVE TypeInv'
  BY <1>2, GroupHandlers, ServerHandlers, KeyHandlers, AllowHandlers, ModelHandlers,
     SettingHandlers, SubscriptionHandlers DEF Handle
<1>3. ASSUME NEW j \in Jobs, Continue(j) PROVE TypeInv'
  BY <1>3, Invalidating, GroupWrites, KeyWrites, ModelWrites, OtherWrites DEF Continue
<1>4. CASE UNCHANGED vars
  BY <1>4 DEF vars, TypeInv, TypeOK, Filling
<1> QED BY <1>1, <1>2, <1>3, <1>4 DEF Next

\* The tables always have their types and every foreign key of the schema holds:
\* whatever handlers of the admin API interleave, whichever of their statements
\* fail, no key, chain, model, agent or subscription outlives what it refers to
\* (cascades of groups and sub-keys, SET NULL of a count-tokens server, refused
\* deletions), and a handler only ever runs its own statements.
THEOREM CacheTypes == Spec => []TypeOK
<1>1. TypeInv => TypeOK
  BY DEF TypeInv
<1> QED BY <1>1, TypeInit, TypeStep, PTL DEF Spec

-----------------------------------------------------------------------------
(* What is stale is covered: the invariant *)

\* A sequence has an element.
InList(t, s) == \E m \in 1 .. Len(s) : s[m] = t

\* The entries of a group's enabled sub-keys.
OnEntries(g, d) == {<<"config", d.key[k].api>> : k \in {q \in KeysOf(g, d) : d.key[q].on}}

\* What a task deletes whatever is written meanwhile: the entry of a disabled
\* sub-key does not depend on the servers of its group, so that a SELECT of
\* the users of a server may miss it.
Sure(t, d) ==
    IF t[1] = "users" THEN UNION {MasterEntry(g, d) \cup OnEntries(g, d) : g \in UsersOf(t[2], d)}
    ELSE Targets(t, d)

Covered(e, s, d) == \E i \in 1 .. Len(s) : e \in Sure(s[i], d)

\* What StaleIsDeleted says, of the tasks that are sure.
StaleInv ==
    \A e \in Entries :
        cached[e] \notin {None, Fresh(e, db)} /\ InReach(e, db) =>
            e \in excused \/ \E j \in Jobs : Covered(e, todo[j], db)

\* The writes of a new API key, which are the first of what a handler runs.
Creating == {"group_api", "key_api", "insert_key"}

\* The invalidations that a write of handler j relies on.
Need(j, t) ==
    CASE t[1] = "chain" -> {"master", "subs"} \X j[2]
      [] t[1] = "group_api" -> {Del(<<"config", t[2]>>), <<"master", j[2]>>, <<"subs", j[2]>>}
      [] t[1] \in {"key_api", "drop_key", "link", "unlink"} -> {Del(<<"config", t[2]>>)}
      [] t[1] \in {"allow", "cascade", "allow_key"} -> {<<"master", j[2]>>, <<"subs", j[2]>>}
      [] t[1] = "upsert" -> {Del(e) : e \in {"setting"} \X j[2]}
      [] t[1] = "endpoints" -> {Del(<<"endpoints", j[2]>>)}
      [] t[1] \in {"subscribe", "cancelled", "bonus"} -> {Del(<<"subs", j[2]>>)}
      [] t[1] = "sync" -> {<<"holders">>}
      [] OTHER -> {}

\* They come later in its list.
Sound(j, s) ==
    \A n \in 1 .. Len(s) :
        /\ \A u \in Need(j, s[n]) : \E m \in (n + 1) .. Len(s) : s[m] = u
        /\ s[n][1] \in Creating => n = 1
        /\ s[n][1] = "chain" => s[n][2] \in j[2]

\* Only the plan's handlers run, after they were asked for, and with sound lists.
Planned ==
    /\ waiting \subseteq plan.jobs
    /\ \A j \in Jobs : todo[j] # <<>> => j \in plan.jobs \ waiting
    /\ \A j \in Jobs : Sound(j, todo[j])

\* A handler that is still to write a new row or a new API key.
Brings(j) == j \in waiting \/ (todo[j] # <<>> /\ Head(todo[j])[1] \in Creating)

\* A new API key is in no row, in no cache, and a request that presents it
\* has found nothing; a new row is not there.
IsToCome(j) ==
    /\ \A a \in Generated(j) :
          /\ Unused(a, db)
          /\ cached[<<"config", a>>] = None
          /\ fill # None /\ fill.entry = <<"config", a>> => fill.at \in {"group", "key"}
    /\ j[1] = "create_group" => db.group[j[2]] = None
    /\ j[1] = "create_server" => db.server[j[2]] = None
    /\ j[1] = "create_key" =>
          /\ db.key[j[2]] = None
          /\ \A e \in {"subs", "endpoints"} \X {j[2]} :
                cached[e] = None /\ (fill # None => fill.entry # e)

NewInv == UniqueApis(db) /\ \A j \in Jobs : Brings(j) => IsToCome(j)

-----------------------------------------------------------------------------
(* Configurations *)

\* Whose configuration an API key stands for.
LEMMA ConfigIs ==
    ASSUME NEW a, NEW d
    PROVE  \/ \E g \in GroupsWith(a, d) : ConfigOf(a, d) = Whole(g, None, d)
           \/ /\ GroupsWith(a, d) = {}
              /\ \E k \in KeysWith(a, d) :
                    ConfigOf(a, d) = IF d.key[k].on THEN Whole(d.key[k].group, k, d)
                                     ELSE Blank(d.key[k].group, k)
           \/ GroupsWith(a, d) = {} /\ KeysWith(a, d) = {} /\ ConfigOf(a, d) = None
<1>1. CASE GroupsWith(a, d) # {}
  <2>1. (CHOOSE g \in GroupsWith(a, d) : TRUE) \in GroupsWith(a, d)
    BY <1>1
  <2> QED BY <1>1, <2>1 DEF ConfigOf
<1>2. CASE GroupsWith(a, d) = {} /\ KeysWith(a, d) = {}
  BY <1>2 DEF ConfigOf
<1>3. CASE GroupsWith(a, d) = {} /\ KeysWith(a, d) # {}
  <2> DEFINE k == CHOOSE k \in KeysWith(a, d) : TRUE
  <2>1. k \in KeysWith(a, d)
    BY <1>3
  <2>2. ConfigOf(a, d) = IF d.key[k].on THEN Whole(d.key[k].group, k, d)
                         ELSE Blank(d.key[k].group, k)
    BY <1>3 DEF ConfigOf
  <2> HIDE DEF k
  <2> QED BY <1>3, <2>1, <2>2
<1> QED BY <1>1, <1>2, <1>3

\* What a whole configuration is made of.
LEMMA WholeIs ==
    ASSUME NEW g, NEW k, NEW d
    PROVE  /\ Whole(g, k, d).group = g /\ Whole(g, k, d).key = k /\ Whole(g, k, d).row = d.group[g]
           /\ Blank(g, k).group = g /\ Blank(g, k).key = k /\ Blank(g, k).row = None
BY DEF Whole, Blank

\* A configuration is something to store.
LEMMA ConfigsAre ==
    ASSUME NEW d, DbOK(d), NEW g \in Groups, d.group[g] # None, NEW k \in Keys \cup {None}
    PROVE  /\ Whole(g, k, d) \in Configs /\ Blank(g, k) \in Configs
           /\ Whole(g, k, d) # None /\ Blank(g, k) # None
<1>1. d.group[g] \in GroupRows /\ d.group[g].ct \in Servers \cup {None}
  BY DEF DbOK, DbType, GroupRows
<1>2. ServersOf(g, d) \in UNION {[S -> Versions \X Versions] : S \in SUBSET Servers}
  <2> DEFINE S == {t \in Servers : d.chain[<<g, t>>] # None /\ d.chain[<<g, t>>].on /\ d.server[t] # None}
             f == [s \in S |-> <<d.chain[<<g, s>>].row, d.server[s]>>]
  <2>1. \A s \in S : <<g, s>> \in Groups \X Servers /\ s \in Servers
    OBVIOUS
  <2>2. \A s \in S : d.chain[<<g, s>>].row \in Versions /\ d.server[s] \in Versions
    BY <2>1 DEF DbOK, DbType, AssignRows
  <2>3. f \in [S -> Versions \X Versions] /\ S \in SUBSET Servers
    BY <2>2
  <2>4. f = ServersOf(g, d)
    BY DEF ServersOf
  <2> HIDE DEF f, S
  <2> QED BY <2>3, <2>4
<1>3. Filter(ServersOf(g, d), k, d) \in UNION {[S -> Versions \X Versions] : S \in SUBSET Servers}
  <2> DEFINE v == ServersOf(g, d)
             mine == {s \in Servers : <<k, s>> \in d.keyServers}
             w == [s \in mine \cap DOMAIN v |-> v[s]]
  <2>1. PICK S \in SUBSET Servers : v \in [S -> Versions \X Versions]
    BY <1>2
  <2> HIDE DEF v
  <2>2. DOMAIN v = S /\ \A s \in S : v[s] \in Versions \X Versions
    BY <2>1
  <2>3. w \in [mine \cap S -> Versions \X Versions] /\ mine \cap S \in SUBSET Servers
    BY <2>2
  <2>4. Filter(v, k, d) = v \/ Filter(v, k, d) = w
    BY DEF Filter
  <2> HIDE DEF w, mine
  <2>5. Filter(v, k, d) \in UNION {[T -> Versions \X Versions] : T \in SUBSET Servers}
    BY <2>1, <2>3, <2>4
  <2> QED BY <2>5 DEF v
<1>4. CountTokens(d.group[g].ct, d) \in (Servers \X Versions) \cup {None}
  BY <1>1 DEF CountTokens, DbOK, DbType
<1>5. AllowedOf(g, d) \subseteq Models \X Versions
  <2>1. \A p \in d.allowed : d.model[p[2]] # None
    BY DEF DbOK, Referential
  <2>2. ASSUME NEW m \in Models, <<g, m>> \in d.allowed PROVE d.model[m] \in Versions
    <3>1. d.model[m] # None
      BY <2>1, <2>2
    <3> QED BY <3>1 DEF DbOK, DbType
  <2>3. ASSUME NEW v \in AllowedOf(g, d) PROVE v \in Models \X Versions
    <3>1. PICK m \in Models : <<g, m>> \in d.allowed /\ v = <<m, d.model[m]>>
      BY DEF AllowedOf
    <3> QED BY <2>2, <3>1
  <2> QED BY <2>3
<1>6. KeyAllowedOf(k, d) \subseteq Models \X Versions
  <2>1. \A p \in d.keyAllowed : d.model[p[2]] # None
    BY DEF DbOK, Referential
  <2>2. ASSUME NEW m \in Models, <<k, m>> \in d.keyAllowed PROVE d.model[m] \in Versions
    <3>1. d.model[m] # None
      BY <2>1, <2>2
    <3> QED BY <3>1 DEF DbOK, DbType
  <2>3. ASSUME NEW v \in KeyAllowedOf(k, d) PROVE v \in Models \X Versions
    <3>1. PICK m \in Models : <<k, m>> \in d.keyAllowed /\ v = <<m, d.model[m]>>
      BY DEF KeyAllowedOf
    <3> QED BY <2>2, <3>1
  <2> QED BY <2>3
<1>7. BlockedOf(g, d) \subseteq Agents
  BY DEF BlockedOf
<1>8. Whole(g, k, d) \in Configs
  BY <1>1, <1>3, <1>4, <1>5, <1>6, <1>7 DEF Whole, Configs
<1>9. Blank(g, k) \in Configs
  BY DEF Blank, Configs
<1> QED BY <1>8, <1>9, RowsAssumption

\* A group keeps its row while its configuration stays as it is.
LEMMA GroupStays ==
    ASSUME NEW c, NEW d, DbOK(c), UniqueApis(c), NEW g \in Groups, c.group[g] # None,
           ConfigOf(c.group[g].api, d) = ConfigOf(c.group[g].api, c)
    PROVE  d.group[g] # None /\ d.group[g] = c.group[g]
<1> DEFINE a == c.group[g].api
<1>1. g \in GroupsWith(a, c)
  BY DEF GroupsWith
<1>2. \A h \in GroupsWith(a, c) : h = g
  BY DEF GroupsWith, UniqueApis
<1>3. ConfigOf(a, c) = Whole(g, None, c)
  <2> HIDE DEF a
  <2> QED BY <1>1, <1>2, ConfigIs
<1>4. Whole(g, None, c) # None
  BY ConfigsAre
<1>5. ConfigOf(a, d) = Whole(g, None, c)
  BY <1>3
<1> HIDE DEF a
<1>6. \E h \in GroupsWith(a, d) : ConfigOf(a, d) = Whole(h, None, d)
  <2>1. ASSUME NEW k \in KeysWith(a, d),
               ConfigOf(a, d) = IF d.key[k].on THEN Whole(d.key[k].group, k, d)
                                ELSE Blank(d.key[k].group, k)
        PROVE  FALSE
    <3>1. ConfigOf(a, d).key = k /\ Whole(g, None, c).key = None
      BY <2>1, WholeIs
    <3>2. k \in Keys /\ None \notin Keys
      BY RowsAssumption DEF KeysWith
    <3> QED BY <1>5, <3>1, <3>2
  <2> QED BY <1>4, <1>5, <2>1, ConfigIs
<1>7. PICK h \in GroupsWith(a, d) : ConfigOf(a, d) = Whole(h, None, d)
  BY <1>6
<1>8. h = g /\ d.group[h] = c.group[g]
  <2>1. /\ Whole(h, None, d).group = h /\ Whole(h, None, d).row = d.group[h]
        /\ Whole(g, None, c).group = g /\ Whole(g, None, c).row = c.group[g]
    BY WholeIs
  <2>2. Whole(h, None, d) = Whole(g, None, c)
    BY <1>5, <1>7
  <2> QED BY <2>1, <2>2
<1> QED BY <1>8

\* A sub-key stays in its group; an enabled one stays enabled, and the group's row as it is.
LEMMA KeyStays ==
    ASSUME NEW c, NEW d, DbOK(c), UniqueApis(c), NEW k \in Keys, c.key[k] # None,
           ConfigOf(c.key[k].api, d) = ConfigOf(c.key[k].api, c)
    PROVE  /\ d.key[k] # None /\ d.key[k].api = c.key[k].api /\ d.key[k].group = c.key[k].group
           /\ c.key[k].on => d.key[k].on /\ d.group[c.key[k].group] = c.group[c.key[k].group]
<1> DEFINE a == c.key[k].api
           g == c.key[k].group
           v == IF c.key[k].on THEN Whole(g, k, c) ELSE Blank(g, k)
<1>1. k \in KeysWith(a, c) /\ GroupsWith(a, c) = {}
  BY DEF KeysWith, GroupsWith, UniqueApis
<1>2. \A l \in KeysWith(a, c) : l = k
  BY DEF KeysWith, UniqueApis
<1>3. g \in Groups /\ c.group[g] # None
  BY DEF DbOK, DbType, KeyRows, Referential
<1>4. v # None
  <2> HIDE DEF g
  <2> QED BY <1>3, ConfigsAre
<1>5. ConfigOf(a, c) = v
  <2> HIDE DEF a
  <2> QED BY <1>1, <1>2, ConfigIs
<1>6. ConfigOf(a, d) = v
  BY <1>5
<1>7. /\ v.key = k /\ v.group = g
      /\ (c.key[k].on => v.row = c.group[g]) /\ (~c.key[k].on => v.row = None)
  <2> HIDE DEF g
  <2> QED BY WholeIs
<1>8. k # None
  BY RowsAssumption
<1> HIDE DEF v, a
<1>9. \E l \in KeysWith(a, d) :
         ConfigOf(a, d) = IF d.key[l].on THEN Whole(d.key[l].group, l, d)
                          ELSE Blank(d.key[l].group, l)
  <2>1. ASSUME NEW h, ConfigOf(a, d) = Whole(h, None, d) PROVE FALSE
    BY <1>6, <1>7, <1>8, <2>1, WholeIs
  <2> QED BY <1>4, <1>6, <2>1, ConfigIs
<1>10. PICK l \in KeysWith(a, d) :
         ConfigOf(a, d) = IF d.key[l].on THEN Whole(d.key[l].group, l, d)
                          ELSE Blank(d.key[l].group, l)
  BY <1>9
<1> DEFINE h == d.key[l].group
           w == IF d.key[l].on THEN Whole(h, l, d) ELSE Blank(h, l)
<1>11. /\ w = v /\ w.key = l /\ w.group = h
       /\ (d.key[l].on => w.row = d.group[h]) /\ (~d.key[l].on => w.row = None)
  <2>1. w = v
    BY <1>6, <1>10
  <2> HIDE DEF h
  <2> QED BY <2>1, WholeIs
<1> HIDE DEF w
<1>14. l = k /\ d.key[l].group = g
  BY <1>7, <1>11
<1>12. d.key[k] # None /\ d.key[k].api = a
  BY <1>10, <1>14 DEF KeysWith
<1>13. ASSUME c.key[k].on PROVE d.key[k].on /\ d.group[g] = c.group[g]
  <2>1. v.row = c.group[g] /\ w.row # None
    BY <1>3, <1>7, <1>11, <1>13
  <2>2. d.key[l].on
    BY <1>11, <2>1
  <2>3. w.row = d.group[h] /\ h = g
    BY <1>11, <1>14, <2>2
  <2> QED BY <1>11, <1>14, <2>1, <2>2, <2>3
<1> QED BY <1>14, <1>12, <1>13 DEF a

\* A write that takes a server out of a chain invalidates the group.
Chains(c, d, ts) ==
    \A g \in Groups, s \in Servers :
        c.chain[<<g, s>>] # None /\ d.chain[<<g, s>>] = None /\ d.group[g] # None =>
            \A e \in MasterEntry(g, d) \cup OnEntries(g, d) : Covered(e, ts, d)

\* An entry stays in a task's reach, unless a write changes it or takes care of it.
LEMMA SureStays ==
    ASSUME NEW c, NEW d, DbOK(c), UniqueApis(c), NEW t \in Tasks, NEW ts, Chains(c, d, ts),
           NEW e \in Sure(t, c), Fresh(e, d) = Fresh(e, c)
    PROVE  e \in Sure(t, d) \/ Covered(e, ts, d)
<1>0. \A a : Fresh(<<"config", a>>, d) = ConfigOf(a, d) /\ Fresh(<<"config", a>>, c) = ConfigOf(a, c)
  BY DEF Fresh
<1>1. ASSUME NEW g \in Groups, e \in MasterEntry(g, c)
      PROVE  e \in MasterEntry(g, d) /\ d.group[g] = c.group[g] /\ d.group[g] # None
  <2>1. c.group[g] # None /\ e = <<"config", c.group[g].api>>
    BY <1>1 DEF MasterEntry
  <2>2. d.group[g] # None /\ d.group[g] = c.group[g]
    BY <1>0, <2>1, GroupStays
  <2> QED BY <2>1, <2>2 DEF MasterEntry
<1>2. ASSUME NEW g \in Groups, NEW k \in KeysOf(g, c), e = <<"config", c.key[k].api>>
      PROVE  /\ k \in KeysOf(g, d) /\ e = <<"config", d.key[k].api>>
             /\ c.key[k].on => d.key[k].on /\ d.group[g] = c.group[g]
  <2>1. k \in Keys /\ c.key[k] # None /\ c.key[k].group = g
    BY DEF KeysOf
  <2>2. /\ d.key[k] # None /\ d.key[k].api = c.key[k].api /\ d.key[k].group = c.key[k].group
        /\ c.key[k].on => d.key[k].on /\ d.group[c.key[k].group] = c.group[c.key[k].group]
    BY <1>0, <1>2, <2>1, KeyStays
  <2> QED BY <1>2, <2>1, <2>2 DEF KeysOf
<1>3. CASE t[1] = "del"
  BY <1>3 DEF Sure, Targets
<1>4. CASE t[1] = "master"
  <2>1. t[2] \in Groups /\ e \in MasterEntry(t[2], c)
    BY <1>4, TaskIs DEF Sure, Targets
  <2> QED BY <1>1, <1>4, <2>1 DEF Sure, Targets
<1>5. CASE t[1] = "subs"
  <2>1. t[2] \in Groups /\ e \in SubEntries(t[2], c)
    BY <1>5, TaskIs DEF Sure, Targets
  <2>2. PICK k \in KeysOf(t[2], c) : e = <<"config", c.key[k].api>>
    BY <2>1 DEF SubEntries
  <2>3. k \in KeysOf(t[2], d) /\ e = <<"config", d.key[k].api>>
    BY <1>2, <2>1, <2>2
  <2>4. e \in SubEntries(t[2], d)
    BY <2>3 DEF SubEntries
  <2> QED BY <1>5, <2>4 DEF Sure, Targets
<1>6. CASE t[1] = "users"
  <2> DEFINE s == t[2]
  <2>1. s \in Servers
    BY <1>6, TaskIs
  <2>2. PICK g \in UsersOf(s, c) : e \in MasterEntry(g, c) \cup OnEntries(g, c)
    BY <1>6 DEF Sure
  <2>3. g \in Groups /\ c.group[g] # None /\ (c.chain[<<g, s>>] # None \/ c.group[g].ct = s)
    BY <2>2 DEF UsersOf
  <2>4. e \in MasterEntry(g, d) \cup OnEntries(g, d) /\ d.group[g] = c.group[g]
    <3>1. CASE e \in MasterEntry(g, c)
      BY <1>1, <2>3, <3>1
    <3>2. CASE e \in OnEntries(g, c)
      <4>1. PICK k \in KeysOf(g, c) : c.key[k].on /\ e = <<"config", c.key[k].api>>
        BY <3>2 DEF OnEntries
      <4>2. k \in KeysOf(g, d) /\ d.key[k].on /\ e = <<"config", d.key[k].api>> /\ d.group[g] = c.group[g]
        BY <1>2, <2>3, <4>1
      <4>3. e \in OnEntries(g, d)
        BY <4>2 DEF OnEntries
      <4> QED BY <4>2, <4>3
    <3> QED BY <2>2, <3>1, <3>2
  <2>5. CASE d.chain[<<g, s>>] # None \/ d.group[g].ct = s
    <3>1. g \in UsersOf(s, d)
      BY <2>3, <2>4, <2>5 DEF UsersOf
    <3> HIDE DEF s
    <3>2. e \in UNION {MasterEntry(h, d) \cup OnEntries(h, d) : h \in UsersOf(s, d)}
      BY <2>4, <3>1
    <3> QED BY <1>6, <3>2 DEF Sure, s
  <2>6. CASE ~(d.chain[<<g, s>>] # None \/ d.group[g].ct = s)
    <3> HIDE DEF s
    <3> QED BY <2>1, <2>3, <2>4, <2>6 DEF Chains
  <2> QED BY <2>5, <2>6
<1>7. CASE t[1] = "holders"
  <2>1. e \in {"subs"} \X Holders(c)
    BY <1>7 DEF Sure, Targets
  <2>2. PICK k \in Holders(c) : e = <<"subs", k>>
    BY <2>1
  <2>3. k \in Keys /\ c.subs[k] # None /\ c.subs[k].active
    BY DEF Holders
  <2>4. {d.subs[k]} \ {None} = {c.subs[k]} \ {None}
    BY <2>2 DEF Fresh
  <2>5. d.subs[k] = c.subs[k]
    BY <2>3, <2>4
  <2>6. k \in Holders(d)
    BY <2>3, <2>5 DEF Holders
  <2> QED BY <1>7, <2>2, <2>6 DEF Sure, Targets
<1>8. CASE t[1] \notin {"del", "master", "subs", "users", "holders"}
  BY <1>8 DEF Sure, Targets
<1> QED BY <1>3, <1>4, <1>5, <1>6, <1>7, <1>8

-----------------------------------------------------------------------------
(* What a write changes *)

\* The rows of a group and of a sub-key, and what they refer to, are as before
\* but for the groups G and the sub-keys K.
Elsewhere(c, d, G, K) ==
    /\ \A g \in Groups \ G :
          /\ d.group[g] = c.group[g]
          /\ \A s \in Servers : /\ d.chain[<<g, s>>] = c.chain[<<g, s>>]
                                /\ g \in UsersOf(s, c) => d.server[s] = c.server[s]
          /\ \A m \in Models : /\ <<g, m>> \in d.allowed <=> <<g, m>> \in c.allowed
                               /\ <<g, m>> \in c.allowed => d.model[m] = c.model[m]
          /\ \A a \in Agents : <<g, a>> \in d.blocked <=> <<g, a>> \in c.blocked
    /\ \A k \in Keys \ K :
          /\ d.key[k] = c.key[k]
          /\ \A s \in Servers : <<k, s>> \in d.keyServers <=> <<k, s>> \in c.keyServers
          /\ \A m \in Models : /\ <<k, m>> \in d.keyAllowed <=> <<k, m>> \in c.keyAllowed
                               /\ <<k, m>> \in c.keyAllowed => d.model[m] = c.model[m]

\* What a configuration takes from its group is as it was.
SameGroup(g, c, d) ==
    /\ d.group[g] = c.group[g]
    /\ ServersOf(g, d) = ServersOf(g, c)
    /\ CountTokens(d.group[g].ct, d) = CountTokens(c.group[g].ct, c)
    /\ AllowedOf(g, d) = AllowedOf(g, c)
    /\ BlockedOf(g, d) = BlockedOf(g, c)

\* It is so for the other groups.
LEMMA GroupsElsewhere ==
    ASSUME NEW c, NEW d, DbOK(c), NEW G, NEW K, Elsewhere(c, d, G, K),
           NEW g \in Groups \ G, c.group[g] # None
    PROVE  SameGroup(g, c, d)
<1>1. /\ d.group[g] = c.group[g]
      /\ \A s \in Servers : /\ d.chain[<<g, s>>] = c.chain[<<g, s>>]
                            /\ g \in UsersOf(s, c) => d.server[s] = c.server[s]
      /\ \A m \in Models : /\ <<g, m>> \in d.allowed <=> <<g, m>> \in c.allowed
                           /\ <<g, m>> \in c.allowed => d.model[m] = c.model[m]
      /\ \A a \in Agents : <<g, a>> \in d.blocked <=> <<g, a>> \in c.blocked
  BY DEF Elsewhere
<1>2. \A s \in Servers : c.chain[<<g, s>>] # None \/ c.group[g].ct = s => d.server[s] = c.server[s]
  BY <1>1 DEF UsersOf
<1>3. ServersOf(g, d) = ServersOf(g, c)
  <2> DEFINE S == {t \in Servers : c.chain[<<g, t>>] # None /\ c.chain[<<g, t>>].on /\ c.server[t] # None}
             T == {t \in Servers : d.chain[<<g, t>>] # None /\ d.chain[<<g, t>>].on /\ d.server[t] # None}
             v == [s \in S |-> <<c.chain[<<g, s>>].row, c.server[s]>>]
             w == [s \in T |-> <<d.chain[<<g, s>>].row, d.server[s]>>]
  <2>1. S = T
    BY <1>1, <1>2
  <2>2. \A s \in S : d.chain[<<g, s>>] = c.chain[<<g, s>>] /\ d.server[s] = c.server[s]
    BY <1>1, <1>2
  <2>3. v = ServersOf(g, c) /\ w = ServersOf(g, d)
    BY DEF ServersOf
  <2> HIDE DEF S, T
  <2>4. v = w
    BY <2>1, <2>2
  <2> QED BY <2>3, <2>4
<1>4. c.group[g].ct \in Servers \cup {None}
  BY DEF DbOK, DbType, GroupRows
<1>5. CountTokens(d.group[g].ct, d) = CountTokens(c.group[g].ct, c)
  BY <1>1, <1>2, <1>4 DEF CountTokens
<1>6. AllowedOf(g, d) = AllowedOf(g, c)
  <2>1. {n \in Models : <<g, n>> \in d.allowed} = {n \in Models : <<g, n>> \in c.allowed}
    BY <1>1
  <2>2. \A n \in {n \in Models : <<g, n>> \in c.allowed} : d.model[n] = c.model[n]
    BY <1>1
  <2> QED BY <2>1, <2>2 DEF AllowedOf
<1>7. BlockedOf(g, d) = BlockedOf(g, c)
  BY <1>1 DEF BlockedOf
<1> QED BY <1>1, <1>3, <1>5, <1>6, <1>7 DEF SameGroup

\* A configuration of a group that is as it was, and of a sub-key elsewhere.
LEMMA WholeStays ==
    ASSUME NEW c, NEW d, DbOK(c), DbOK(d), NEW G, NEW K, Elsewhere(c, d, G, K),
           NEW g \in Groups \ G, c.group[g] # None, NEW k \in (Keys \ K) \cup {None}
    PROVE  Whole(g, k, d) = Whole(g, k, c)
<1>1. SameGroup(g, c, d)
  BY GroupsElsewhere
<1>2. \A s \in Servers : k # None => (<<k, s>> \in d.keyServers <=> <<k, s>> \in c.keyServers)
  BY DEF Elsewhere
<1>3. KeyAllowedOf(k, d) = KeyAllowedOf(k, c)
  <2>1. ASSUME k # None
        PROVE  \A m \in Models : /\ <<k, m>> \in d.keyAllowed <=> <<k, m>> \in c.keyAllowed
                                 /\ <<k, m>> \in c.keyAllowed => d.model[m] = c.model[m]
    BY <2>1 DEF Elsewhere
  <2>2. ASSUME k = None
        PROVE  \A m \in Models : <<k, m>> \notin d.keyAllowed /\ <<k, m>> \notin c.keyAllowed
    BY <2>2, RowsAssumption DEF DbOK, DbType
  <2>3. {n \in Models : <<k, n>> \in d.keyAllowed} = {n \in Models : <<k, n>> \in c.keyAllowed}
    BY <2>1, <2>2
  <2>4. \A n \in {n \in Models : <<k, n>> \in c.keyAllowed} : d.model[n] = c.model[n]
    BY <2>1, <2>2
  <2> QED BY <2>3, <2>4 DEF KeyAllowedOf
<1>4. Filter(ServersOf(g, d), k, d) = Filter(ServersOf(g, c), k, c)
  <2> DEFINE v == ServersOf(g, c)
             S == {s \in Servers : <<k, s>> \in c.keyServers}
             T == {s \in Servers : <<k, s>> \in d.keyServers}
  <2>1. ServersOf(g, d) = v
    BY <1>1 DEF SameGroup
  <2> HIDE DEF v
  <2>2. CASE k = None
    <3>1. Filter(v, k, d) = Filter(v, k, c)
      BY <2>2 DEF Filter
    <3> QED BY <2>1, <3>1 DEF v
  <2>3. CASE k # None
    <3>1. S = T
      BY <1>2, <2>3
    <3>2. /\ Filter(v, k, c) = IF k = None \/ S = {} THEN v ELSE [s \in S \cap DOMAIN v |-> v[s]]
          /\ Filter(v, k, d) = IF k = None \/ T = {} THEN v ELSE [s \in T \cap DOMAIN v |-> v[s]]
      BY DEF Filter
    <3> HIDE DEF S, T
    <3>3. Filter(v, k, d) = Filter(v, k, c)
      BY <3>1, <3>2
    <3> QED BY <2>1, <3>3 DEF v
  <2> QED BY <2>2, <2>3
<1> QED BY <1>1, <1>3, <1>4 DEF SameGroup, Whole

\* The rows of an API key are the same.
Settled(a, c, d) ==
    /\ GroupsWith(a, d) = GroupsWith(a, c)
    /\ KeysWith(a, d) = KeysWith(a, c)
    /\ \A k \in KeysWith(a, c) : d.key[k].group = c.key[k].group

\* One of several.
Pick(S) == CHOOSE x \in S : TRUE

\* A configuration that has changed belongs to a row that has.
LEMMA Touched ==
    ASSUME NEW c, NEW d, DbOK(c), DbOK(d), NEW G, NEW K, Elsewhere(c, d, G, K),
           NEW a, Settled(a, c, d), ConfigOf(a, d) # ConfigOf(a, c)
    PROVE  \/ \E g \in Groups \cap G : <<"config", a>> \in MasterEntry(g, d) \cup OnEntries(g, d)
           \/ \E k \in Keys \cap K : d.key[k] # None /\ d.key[k].api = a
<1> DEFINE g == Pick(GroupsWith(a, c))
           k == Pick(KeysWith(a, c))
<1>1. /\ ConfigOf(a, c) = IF GroupsWith(a, c) # {} THEN Whole(Pick(GroupsWith(a, c)), None, c)
                          ELSE IF KeysWith(a, c) = {} THEN None
                          ELSE IF c.key[Pick(KeysWith(a, c))].on
                               THEN Whole(c.key[Pick(KeysWith(a, c))].group, Pick(KeysWith(a, c)), c)
                               ELSE Blank(c.key[Pick(KeysWith(a, c))].group, Pick(KeysWith(a, c)))
      /\ ConfigOf(a, d) = IF GroupsWith(a, d) # {} THEN Whole(Pick(GroupsWith(a, d)), None, d)
                          ELSE IF KeysWith(a, d) = {} THEN None
                          ELSE IF d.key[Pick(KeysWith(a, d))].on
                               THEN Whole(d.key[Pick(KeysWith(a, d))].group, Pick(KeysWith(a, d)), d)
                               ELSE Blank(d.key[Pick(KeysWith(a, d))].group, Pick(KeysWith(a, d)))
  BY DEF ConfigOf, Pick
<1>2. /\ GroupsWith(a, c) # {} => g \in GroupsWith(a, c)
      /\ KeysWith(a, c) # {} => k \in KeysWith(a, c)
  BY DEF Pick
<1> HIDE DEF g, k
<1>3. /\ ConfigOf(a, c) = IF GroupsWith(a, c) # {} THEN Whole(g, None, c)
                          ELSE IF KeysWith(a, c) = {} THEN None
                          ELSE IF c.key[k].on THEN Whole(c.key[k].group, k, c)
                               ELSE Blank(c.key[k].group, k)
      /\ ConfigOf(a, d) = IF GroupsWith(a, c) # {} THEN Whole(g, None, d)
                          ELSE IF KeysWith(a, c) = {} THEN None
                          ELSE IF d.key[k].on THEN Whole(d.key[k].group, k, d)
                               ELSE Blank(d.key[k].group, k)
  BY <1>1 DEF Settled, g, k
<1>4. CASE GroupsWith(a, c) # {}
  <2>1. g \in GroupsWith(a, c) /\ g \in GroupsWith(a, d)
    BY <1>2, <1>4 DEF Settled
  <2>2. g \in Groups /\ c.group[g] # None /\ <<"config", a>> \in MasterEntry(g, d)
    BY <2>1 DEF GroupsWith, MasterEntry
  <2>3. Whole(g, None, d) # Whole(g, None, c)
    BY <1>3, <1>4
  <2>4. g \in G
    BY <2>2, <2>3, WholeStays
  <2> QED BY <2>2, <2>4
<1>5. CASE GroupsWith(a, c) = {} /\ KeysWith(a, c) # {}
  <2> DEFINE h == c.key[k].group
  <2>1. k \in KeysWith(a, c) /\ k \in KeysWith(a, d) /\ d.key[k].group = h
    BY <1>2, <1>5 DEF Settled
  <2>2. k \in Keys /\ c.key[k] # None /\ d.key[k] # None /\ d.key[k].api = a
    BY <2>1 DEF KeysWith
  <2>3. h \in Groups /\ c.group[h] # None
    BY <2>2 DEF DbOK, DbType, KeyRows, Referential
  <2>4. CASE k \in K
    BY <2>2, <2>4
  <2>5. CASE k \notin K
    <3>1. d.key[k] = c.key[k]
      BY <2>2, <2>5 DEF Elsewhere
    <3>2. d.key[k].on /\ Whole(h, k, d) # Whole(h, k, c)
      BY <1>3, <1>5, <2>1, <3>1
    <3>3. h \in G
      <4> HIDE DEF h
      <4> QED BY <2>2, <2>3, <2>5, <3>2, WholeStays
    <3>4. <<"config", a>> \in OnEntries(h, d)
      BY <2>1, <2>2, <3>2 DEF OnEntries, KeysOf
    <3> QED BY <2>3, <3>3, <3>4
  <2> QED BY <2>4, <2>5
<1>6. CASE GroupsWith(a, c) = {} /\ KeysWith(a, c) = {}
  BY <1>3, <1>6
<1> QED BY <1>4, <1>5, <1>6

\* The entries that a write makes stale are known to be, or follow in its list.
Hits(d, ts, ex) ==
    \A e \in Outdates(d) : InReach(e, d) => e \in ex \/ Covered(e, ts, d)

\* So they are when the list follows for the rows that it changes.
LEMMA HitsBy ==
    ASSUME DbOK(db), NEW d, DbOK(d), NEW ts, NEW ex, NEW G, NEW K, Elsewhere(db, d, G, K),
           \A g \in Groups \cap G : \A e \in MasterEntry(g, d) \cup OnEntries(g, d) :
               cached[e] = None \/ Covered(e, ts, d),
           \A k \in Keys \cap K : d.key[k] # None =>
               \/ cached[<<"config", d.key[k].api>>] = None
               \/ Covered(<<"config", d.key[k].api>>, ts, d),
           \A a \in ApiKeys : \/ Settled(a, db, d)
                              \/ cached[<<"config", a>>] = None
                              \/ Covered(<<"config", a>>, ts, d),
           \A e \in ListEntries \cup SettingEntries :
               \/ Fresh(e, d) = Fresh(e, db) \/ ~InReach(e, d)
               \/ cached[e] = None \/ e \in ex \/ Covered(e, ts, d)
    PROVE  Hits(d, ts, ex)
<1> SUFFICES ASSUME NEW e \in Outdates(d), InReach(e, d) PROVE e \in ex \/ Covered(e, ts, d)
  BY DEF Hits
<1>1. e \in Entries /\ cached[e] # None /\ Fresh(e, d) # Fresh(e, db)
  BY DEF Outdates
<1>2. CASE e \in ListEntries \cup SettingEntries
  BY <1>1, <1>2
<1>3. CASE e \in ConfigEntries
  <2>1. PICK a \in ApiKeys : e = <<"config", a>>
    BY <1>3 DEF ConfigEntries
  <2>2. ConfigOf(a, d) # ConfigOf(a, db)
    BY <1>1, <2>1 DEF Fresh
  <2>3. CASE Settled(a, db, d)
    <3>1. \/ \E g \in Groups \cap G : <<"config", a>> \in MasterEntry(g, d) \cup OnEntries(g, d)
          \/ \E k \in Keys \cap K : d.key[k] # None /\ d.key[k].api = a
      BY <2>2, <2>3, Touched
    <3> QED BY <1>1, <2>1, <3>1
  <2> QED BY <1>1, <2>1, <2>3
<1> QED BY <1>1, <1>2, <1>3 DEF Entries

-----------------------------------------------------------------------------
(* Lists of tasks *)

\* Tasks that rely on no later one.
Plain(t) == t[1] \in {"del", "master", "subs", "users", "holders", "erase", "drop_server", "drop_model"}

\* They make a sound list.
LEMMA SoundPlain ==
    ASSUME NEW j, NEW s, \A n \in 1 .. Len(s) : Plain(s[n]) PROVE Sound(j, s)
BY DEF Plain, Sound, Need, Creating

\* Tasks whose invalidations are all in the list that follows.
LEMMA SoundBoth ==
    ASSUME NEW j, NEW s \in Seq(Tasks), NEW u \in Seq(Tasks), Sound(j, u),
           \A n \in 1 .. Len(u) : u[n][1] \notin Creating,
           \A n \in 1 .. Len(s) : /\ \A t \in Need(j, s[n]) : InList(t, u)
                                  /\ s[n][1] \in Creating => n = 1
                                  /\ s[n][1] = "chain" => s[n][2] \in j[2]
    PROVE  Sound(j, s \o u)
<1> DEFINE w == s \o u
<1>1. /\ Len(s) \in Nat /\ Len(u) \in Nat /\ Len(w) = Len(s) + Len(u)
      /\ \A i \in 1 .. Len(w) : w[i] = IF i <= Len(s) THEN s[i] ELSE u[i - Len(s)]
  OBVIOUS
<1> HIDE DEF w
<1>2. ASSUME NEW m \in 1 .. Len(u) PROVE m + Len(s) \in 1 .. Len(w) /\ w[m + Len(s)] = u[m]
  BY <1>1
<1>3. ASSUME NEW n \in 1 .. Len(w)
      PROVE  /\ \A t \in Need(j, w[n]) : \E m \in (n + 1) .. Len(w) : w[m] = t
             /\ w[n][1] \in Creating => n = 1
             /\ w[n][1] = "chain" => w[n][2] \in j[2]
  <2>1. CASE n <= Len(s)
    <3>1. n \in 1 .. Len(s) /\ w[n] = s[n]
      BY <1>1, <2>1
    <3>2. ASSUME NEW t \in Need(j, w[n]) PROVE \E m \in (n + 1) .. Len(w) : w[m] = t
      <4>1. PICK m \in 1 .. Len(u) : u[m] = t
        BY <3>1, <3>2 DEF InList
      <4>2. m + Len(s) \in (n + 1) .. Len(w) /\ w[m + Len(s)] = t
        BY <1>1, <1>2, <3>1, <4>1
      <4> QED BY <4>2
    <3> QED BY <3>1, <3>2
  <2>2. CASE ~(n <= Len(s))
    <3> DEFINE i == n - Len(s)
    <3>1. i \in 1 .. Len(u) /\ w[n] = u[i] /\ n = i + Len(s)
      BY <1>1, <2>2
    <3> HIDE DEF i
    <3>2. ASSUME NEW t \in Need(j, w[n]) PROVE \E m \in (n + 1) .. Len(w) : w[m] = t
      <4>1. PICK m \in (i + 1) .. Len(u) : u[m] = t
        BY <3>1, <3>2 DEF Sound
      <4>2. m \in 1 .. Len(u)
        BY <1>1, <3>1
      <4>3. w[m + Len(s)] = t /\ m + Len(s) \in (n + 1) .. Len(w)
        BY <1>1, <1>2, <3>1, <4>1, <4>2
      <4> QED BY <4>3
    <3> QED BY <3>1, <3>2 DEF Sound
  <2> QED BY <2>1, <2>2
<1> QED BY <1>3 DEF Sound, w

\* What follows the first task of a sound list.
LEMMA SoundTail ==
    ASSUME NEW j, NEW s \in Seq(Tasks), s # <<>>, Sound(j, s)
    PROVE  /\ Sound(j, Tail(s)) /\ Tail(s) \in Seq(Tasks)
           /\ \A n \in 1 .. Len(Tail(s)) : Tail(s)[n][1] \notin Creating
           /\ \A t \in Need(j, Head(s)) : InList(t, Tail(s))
           /\ Head(s)[1] = "chain" => Head(s)[2] \in j[2]
<1> DEFINE w == Tail(s)
<1>1. /\ Len(s) \in Nat /\ Len(s) > 0 /\ Head(s) = s[1]
      /\ w \in Seq(Tasks) /\ Len(w) = Len(s) - 1
      /\ \A i \in 1 .. Len(w) : w[i] = s[i + 1] /\ i + 1 \in 1 .. Len(s)
  OBVIOUS
<1> HIDE DEF w
<1>2. \A n \in 1 .. Len(w) : w[n][1] \notin Creating
  BY <1>1 DEF Sound
<1>3. ASSUME NEW n \in 1 .. Len(s), NEW t \in Need(j, s[n])
      PROVE  \E m \in n .. Len(w) : w[m] = t
  <2>1. PICK m \in (n + 1) .. Len(s) : s[m] = t
    BY <1>3 DEF Sound
  <2>2. m - 1 \in n .. Len(w) /\ w[m - 1] = t
    <3>1. m - 1 \in 1 .. Len(w) /\ m - 1 \in n .. Len(w) /\ (m - 1) + 1 = m
      BY <1>1, <2>1
    <3> QED BY <1>1, <2>1, <3>1
  <2> QED BY <2>2
<1>4. Sound(j, w)
  <2>1. ASSUME NEW n \in 1 .. Len(w)
        PROVE  /\ \A t \in Need(j, w[n]) : \E m \in (n + 1) .. Len(w) : w[m] = t
               /\ w[n][1] = "chain" => w[n][2] \in j[2]
    <3>1. n + 1 \in 1 .. Len(s) /\ w[n] = s[n + 1]
      BY <1>1
    <3>2. w[n][1] = "chain" => w[n][2] \in j[2]
      BY <3>1 DEF Sound
    <3> QED BY <1>3, <3>1, <3>2
  <2> QED BY <1>2, <2>1 DEF Sound
<1>5. \A t \in Need(j, s[1]) : InList(t, w)
  <2>1. 1 \in 1 .. Len(s)
    BY <1>1
  <2> QED BY <1>3, <2>1 DEF InList
<1>6. s[1][1] = "chain" => s[1][2] \in j[2]
  <2>1. 1 \in 1 .. Len(s)
    BY <1>1
  <2> QED BY <2>1 DEF Sound
<1> QED BY <1>1, <1>2, <1>4, <1>5, <1>6 DEF w

\* What a task of a list covers.
LEMMA Covers ==
    ASSUME NEW t, NEW s, InList(t, s), NEW d, NEW e \in Sure(t, d) PROVE Covered(e, s, d)
BY DEF InList, Covered

\* A list invalidates a group.
Invalidates(g, s) == InList(<<"master", g>>, s) /\ InList(<<"subs", g>>, s)

\* And so covers its configurations.
LEMMA CoversGroup ==
    ASSUME NEW g, NEW s, Invalidates(g, s), NEW d
    PROVE  \A e \in MasterEntry(g, d) \cup SubEntries(g, d) \cup OnEntries(g, d) : Covered(e, s, d)
<1>1. OnEntries(g, d) \subseteq SubEntries(g, d)
  BY DEF OnEntries, SubEntries
<1>2. Sure(<<"master", g>>, d) = MasterEntry(g, d) /\ Sure(<<"subs", g>>, d) = SubEntries(g, d)
  BY DEF Sure, Targets
<1> QED BY <1>1, <1>2, Covers DEF Invalidates

\* The entry of a DEL is covered.
LEMMA CoversDel ==
    ASSUME NEW e, NEW s, InList(Del(e), s), NEW d PROVE Covered(e, s, d)
<1>1. e \in Sure(Del(e), d)
  BY DEF Sure, Targets, Del
<1> QED BY <1>1, Covers

\* The invalidation of a group does so.
LEMMA InvalidateIs ==
    ASSUME NEW g
    PROVE  /\ Invalidates(g, Invalidate(g)) /\ Len(Invalidate(g)) = 2
           /\ \A n \in 1 .. 2 : Plain(Invalidate(g)[n])
<1> DEFINE s == <<<<"master", g>>, <<"subs", g>>>>
<1>1. Len(s) = 2 /\ s[1] = <<"master", g>> /\ s[2] = <<"subs", g>>
  OBVIOUS
<1>2. s = Invalidate(g)
  BY DEF Invalidate
<1> HIDE DEF s
<1>3. Plain(s[1]) /\ Plain(s[2])
  BY <1>1 DEF Plain
<1> QED BY <1>1, <1>2, <1>3 DEF Invalidates, InList

\* The invalidation of several groups.
LEMMA InvalidateAllIs ==
    ASSUME NEW gs \in SUBSET Groups
    PROVE  /\ \A g \in gs : Invalidates(g, InvalidateAll(gs))
           /\ \A n \in 1 .. Len(InvalidateAll(gs)) : Plain(InvalidateAll(gs)[n])
<1> DEFINE s == SetToSeq(gs)
           w == InvalidateAll(gs)
           n == Len(s)
           m == 2 * n
<1>1. n \in Nat /\ \A g \in gs : \E i \in 1 .. n : s[i] = g
  <2>1. IsFiniteSet(gs)
    BY RowsAssumption, FS_Subset
  <2>2. s \in Seq(gs) /\ \A x \in gs : \E i \in 1 .. Len(s) : s[i] = x
    BY <2>1, SetToSeqIs
  <2> QED BY <2>2
<1>2. w = [i \in 1 .. m |-> <<IF i % 2 = 1 THEN "master" ELSE "subs", s[(i + 1) \div 2]>>]
  BY DEF InvalidateAll
<1> HIDE DEF s, w, n
<1>3. m \in Nat
  BY <1>1
<1>4. Len(w) = m
  <2> HIDE DEF m
  <2> QED BY <1>2, <1>3
<1>5. \A i \in 1 .. m : w[i] = <<IF i % 2 = 1 THEN "master" ELSE "subs", s[(i + 1) \div 2]>>
  BY <1>2
<1>6. \A i \in 1 .. m : Plain(w[i])
  BY <1>5 DEF Plain
<1>7. ASSUME NEW g \in gs PROVE Invalidates(g, w)
  <2>1. PICK i \in 1 .. n : s[i] = g
    BY <1>1
  <2>2. /\ 2 * i - 1 \in 1 .. m /\ (2 * i - 1) % 2 = 1 /\ ((2 * i - 1) + 1) \div 2 = i
        /\ 2 * i \in 1 .. m /\ (2 * i) % 2 = 0 /\ (2 * i + 1) \div 2 = i
    BY <1>1, <2>1
  <2>3. w[2 * i - 1] = <<"master", g>> /\ w[2 * i] = <<"subs", g>>
    BY <1>5, <2>1, <2>2
  <2> QED BY <1>4, <2>2, <2>3 DEF Invalidates, InList
<1> QED BY <1>4, <1>6, <1>7 DEF w

-----------------------------------------------------------------------------
(* New rows and new API keys *)

\* A write of handler j adds at most the row and the API key that it brings.
Lawful(j, d) ==
    /\ \A g \in Groups : d.group[g] # None =>
          \/ db.group[g] # None /\ d.group[g].api = db.group[g].api
          \/ /\ j[1] \in {"create_group", "regenerate_group_key"} /\ Brings(j)
             /\ g = j[2] /\ d.group[g].api = j[3]
             /\ db.group[g] = None => j[1] = "create_group"
    /\ \A k \in Keys : d.key[k] # None =>
          \/ db.key[k] # None /\ d.key[k].api = db.key[k].api
          \/ /\ j[1] = "regenerate_key" /\ Brings(j)
             /\ k = j[2] /\ d.key[k].api = j[3] /\ db.key[k] # None
          \/ /\ j[1] = "create_key" /\ Brings(j)
             /\ k = j[2] /\ d.key[k].api = j[4]
    /\ \A s \in Servers : d.server[s] # None =>
          db.server[s] # None \/ (j[1] = "create_server" /\ Brings(j) /\ s = j[2])

\* It adds none.
Steady(d) ==
    /\ \A g \in Groups : d.group[g] # None =>
          db.group[g] # None /\ d.group[g].api = db.group[g].api
    /\ \A k \in Keys : d.key[k] # None => db.key[k] # None /\ d.key[k].api = db.key[k].api
    /\ \A s \in Servers : d.server[s] # None => db.server[s] # None

\* Which is lawful for every handler.
LEMMA SteadyIsLawful == ASSUME NEW d, Steady(d), NEW j PROVE Lawful(j, d)
BY DEF Steady, Lawful

\* The API key of a row is one that had a row, or the one that the handler brings.
LEMMA LawfulApis ==
    ASSUME NewInv, NEW j \in Jobs, NEW d, Lawful(j, d)
    PROVE  /\ \A g \in Groups : d.group[g] # None =>
                 \/ db.group[g] # None /\ d.group[g].api = db.group[g].api
                 \/ /\ d.group[g].api \in Generated(j) /\ Unused(d.group[g].api, db) /\ Brings(j)
                    /\ j[1] \in {"create_group", "regenerate_group_key"} /\ g = j[2]
           /\ \A k \in Keys : d.key[k] # None =>
                 \/ db.key[k] # None /\ d.key[k].api = db.key[k].api
                 \/ /\ d.key[k].api \in Generated(j) /\ Unused(d.key[k].api, db) /\ Brings(j)
                    /\ j[1] \in {"create_key", "regenerate_key"} /\ k = j[2]
<1>1. ASSUME NEW g \in Groups, d.group[g] # None,
             ~(db.group[g] # None /\ d.group[g].api = db.group[g].api)
      PROVE  /\ d.group[g].api \in Generated(j) /\ Unused(d.group[g].api, db) /\ Brings(j)
             /\ j[1] \in {"create_group", "regenerate_group_key"} /\ g = j[2]
  <2>1. /\ j[1] \in {"create_group", "regenerate_group_key"} /\ Brings(j)
        /\ g = j[2] /\ d.group[g].api = j[3]
    BY <1>1 DEF Lawful
  <2>2. d.group[g].api \in Generated(j)
    BY <2>1 DEF Generated
  <2> QED BY <2>1, <2>2 DEF NewInv, IsToCome
<1>2. ASSUME NEW k \in Keys, d.key[k] # None,
             ~(db.key[k] # None /\ d.key[k].api = db.key[k].api)
      PROVE  /\ d.key[k].api \in Generated(j) /\ Unused(d.key[k].api, db) /\ Brings(j)
             /\ j[1] \in {"create_key", "regenerate_key"} /\ k = j[2]
  <2>1. /\ \/ j[1] = "regenerate_key" /\ d.key[k].api = j[3]
           \/ j[1] = "create_key" /\ d.key[k].api = j[4]
        /\ Brings(j) /\ k = j[2]
    BY <1>2 DEF Lawful
  <2>2. d.key[k].api \in Generated(j)
    BY <2>1 DEF Generated
  <2> QED BY <2>1, <2>2 DEF NewInv, IsToCome
<1> QED BY <1>1, <1>2

\* API keys stay unique.
LEMMA LawfulUnique ==
    ASSUME NewInv, NEW j \in Jobs, NEW d, Lawful(j, d) PROVE UniqueApis(d)
<1>1. /\ \A g \in Groups : d.group[g] # None =>
            \/ db.group[g] # None /\ d.group[g].api = db.group[g].api
            \/ /\ Unused(d.group[g].api, db)
               /\ j[1] \in {"create_group", "regenerate_group_key"} /\ g = j[2]
      /\ \A k \in Keys : d.key[k] # None =>
            \/ db.key[k] # None /\ d.key[k].api = db.key[k].api
            \/ /\ Unused(d.key[k].api, db)
               /\ j[1] \in {"create_key", "regenerate_key"} /\ k = j[2]
  BY LawfulApis
<1>2. ASSUME NEW a, Unused(a, db)
      PROVE  /\ \A g \in Groups : db.group[g] # None => db.group[g].api # a
             /\ \A k \in Keys : db.key[k] # None => db.key[k].api # a
  BY <1>2 DEF Unused, GroupsWith, KeysWith
<1>3. UniqueApis(db)
  BY DEF NewInv
<1>4. ASSUME NEW g \in Groups, NEW h \in Groups, d.group[g] # None, d.group[h] # None,
             d.group[g].api = d.group[h].api
      PROVE  g = h
  <2>1. CASE Unused(d.group[g].api, db)
    BY <1>1, <1>2, <1>4, <2>1
  <2>2. CASE ~Unused(d.group[g].api, db)
    BY <1>1, <1>3, <1>4, <2>2 DEF UniqueApis
  <2> QED BY <2>1, <2>2
<1>5. ASSUME NEW k \in Keys, NEW l \in Keys, d.key[k] # None, d.key[l] # None,
             d.key[k].api = d.key[l].api
      PROVE  k = l
  <2>1. CASE Unused(d.key[k].api, db)
    BY <1>1, <1>2, <1>5, <2>1
  <2>2. CASE ~Unused(d.key[k].api, db)
    BY <1>1, <1>3, <1>5, <2>2 DEF UniqueApis
  <2> QED BY <2>1, <2>2
<1>6. ASSUME NEW g \in Groups, NEW k \in Keys, d.group[g] # None, d.key[k] # None,
             d.group[g].api = d.key[k].api
      PROVE  FALSE
  <2>1. CASE Unused(d.key[k].api, db)
    BY <1>1, <1>2, <1>6, <2>1
  <2>2. CASE ~Unused(d.key[k].api, db)
    BY <1>1, <1>3, <1>6, <2>2 DEF UniqueApis
  <2> QED BY <2>1, <2>2
<1> QED BY <1>4, <1>5, <1>6 DEF UniqueApis

\* What two handlers of a plan bring is different.
LEMMA NewIs ==
    ASSUME TypeInv, Planned, NEW i \in Jobs, NEW j \in Jobs, i # j, Brings(i), Brings(j)
    PROVE  Generated(i) \cap Generated(j) = {} /\ (i[1] = j[1] /\ j[1] \in Creates => i[2] # j[2])
<1>1. i \in plan.jobs /\ j \in plan.jobs
  BY DEF Planned, Brings
<1>2. IsNew(plan)
  BY PlansAssumption DEF TypeInv, TypeOK
<1> QED BY <1>1, <1>2 DEF IsNew

\* What has still to come is not there after a write, which does not reach back.
LEMMA LawfulNew ==
    ASSUME TypeInv, Planned, NewInv, NEW j \in Jobs, NEW d, Lawful(j, d),
           db' = d, cached' = cached, fill' = fill,
           \A i \in Jobs : Brings(i)' => Brings(i),
           Steady(d) \/ ~Brings(j)'
    PROVE  NewInv'
<1>1. UniqueApis(d)
  BY LawfulUnique
<1>2. /\ \A g \in Groups : d.group[g] # None =>
            \/ db.group[g] # None /\ d.group[g].api = db.group[g].api
            \/ /\ d.group[g].api \in Generated(j) /\ Brings(j)
               /\ j[1] \in {"create_group", "regenerate_group_key"} /\ g = j[2]
      /\ \A k \in Keys : d.key[k] # None =>
            \/ db.key[k] # None /\ d.key[k].api = db.key[k].api
            \/ /\ d.key[k].api \in Generated(j) /\ Brings(j)
               /\ j[1] \in {"create_key", "regenerate_key"} /\ k = j[2]
  BY LawfulApis
<1>3. ASSUME NEW i \in Jobs, Brings(i)' PROVE IsToCome(i)'
  <2>1. Brings(i) /\ IsToCome(i)
    BY <1>3 DEF NewInv
  <2>2. Steady(d) \/ i # j
    BY <1>3
  <2>3. ASSUME NEW a \in Generated(i) PROVE Unused(a, d)
    <3>1. Unused(a, db)
      BY <2>1 DEF IsToCome
    <3>2. /\ \A g \in Groups : db.group[g] # None => db.group[g].api # a
          /\ \A k \in Keys : db.key[k] # None => db.key[k].api # a
      BY <3>1 DEF Unused, GroupsWith, KeysWith
    <3>3. /\ \A g \in Groups : d.group[g] # None => d.group[g].api # a
          /\ \A k \in Keys : d.key[k] # None => d.key[k].api # a
      <4>1. CASE Steady(d)
        BY <3>2, <4>1 DEF Steady
      <4>2. CASE i # j
        <5>1. Brings(j) => a \notin Generated(j)
          BY <2>1, <4>2, NewIs
        <5> QED BY <1>2, <3>2, <5>1
      <4> QED BY <2>2, <4>1, <4>2
    <3> QED BY <3>3 DEF Unused, GroupsWith, KeysWith
  <2>4. j[1] = i[1] /\ i[1] \in Creates /\ Brings(j) /\ i # j => i[2] # j[2]
    BY <2>1, NewIs
  <2>5. /\ i[1] = "create_group" => i[2] \in Groups
        /\ i[1] = "create_server" => i[2] \in Servers
        /\ i[1] = "create_key" => i[2] \in Keys
    BY PlansAssumption DEF Given
  <2>6. i[1] = "create_group" => d.group[i[2]] = None
    BY <2>1, <2>2, <2>4, <2>5 DEF IsToCome, Lawful, Steady, Creates
  <2>7. i[1] = "create_server" => d.server[i[2]] = None
    BY <2>1, <2>2, <2>4, <2>5 DEF IsToCome, Lawful, Steady, Creates
  <2>8. i[1] = "create_key" => d.key[i[2]] = None
    BY <2>1, <2>2, <2>4, <2>5 DEF IsToCome, Lawful, Steady, Creates
  <2> QED BY <2>1, <2>3, <2>6, <2>7, <2>8 DEF IsToCome
<1> QED BY <1>1, <1>3 DEF NewInv

\* No list of a key that was not there is cached.
LEMMA ReachedBefore ==
    ASSUME NewInv, NEW j \in Jobs, NEW d, Lawful(j, d), NEW e \in Entries, cached[e] # None,
           InReach(e, d)
    PROVE  InReach(e, db)
<1> SUFFICES ASSUME e \in ListEntries PROVE db.key[e[2]] # None
  BY DEF InReach
<1>1. PICK kind \in {"endpoints", "subs"}, k \in Keys : e = <<kind, k>>
  BY DEF ListEntries
<1>2. d.key[k] # None
  BY <1>1 DEF InReach
<1>3. CASE j[1] = "create_key" /\ Brings(j) /\ k = j[2]
  <2>1. e \in {"subs", "endpoints"} \X {j[2]}
    BY <1>1, <1>3
  <2>2. cached[e] = None
    BY <1>3, <2>1 DEF NewInv, IsToCome
  <2> QED BY <2>2
<1> QED BY <1>1, <1>2, <1>3 DEF Lawful

-----------------------------------------------------------------------------
(* Steps of handlers *)

\* All of the invariant.
Deletes == TypeInv /\ StaleInv /\ Planned /\ NewInv

\* A sure task leads to a deletion.
LEMMA SureIsTarget ==
    ASSUME NEW t, NEW d PROVE Sure(t, d) \subseteq Targets(t, d)
<1>1. CASE t[1] = "users"
  <2>1. \A g : OnEntries(g, d) \subseteq SubEntries(g, d)
    BY DEF OnEntries, SubEntries
  <2>2. /\ Targets(t, d) = UNION {MasterEntry(g, d) \cup SubEntries(g, d) : g \in UsersOf(t[2], d)}
        /\ Sure(t, d) = UNION {MasterEntry(g, d) \cup OnEntries(g, d) : g \in UsersOf(t[2], d)}
    BY <1>1 DEF Targets, Sure
  <2>3. ASSUME NEW e \in Sure(t, d) PROVE e \in Targets(t, d)
    <3>1. PICK g \in UsersOf(t[2], d) : e \in MasterEntry(g, d) \cup OnEntries(g, d)
      BY <2>2
    <3>2. e \in MasterEntry(g, d) \cup SubEntries(g, d)
      BY <2>1, <3>1
    <3> QED BY <2>2, <3>2
  <2> QED BY <2>3
<1>2. CASE t[1] # "users"
  BY <1>2 DEF Sure
<1> QED BY <1>1, <1>2

\* Only a SELECT or a DEL covers an entry.
LEMMA WritesCoverNone ==
    ASSUME NEW t, NEW d, t[1] \notin Selects \cup {"del"} PROVE Sure(t, d) = {}
BY DEF Sure, Targets, Selects

\* The tasks of a list, from the first one on.
LEMMA FirstOrLater ==
    ASSUME NEW s \in Seq(Tasks), s # <<>>, NEW d, NEW e, Covered(e, s, d)
    PROVE  e \in Sure(Head(s), d) \/ Covered(e, Tail(s), d)
<1> DEFINE w == Tail(s)
<1>1. /\ Len(s) \in Nat /\ Len(s) > 0 /\ Head(s) = s[1] /\ Len(w) = Len(s) - 1
      /\ \A i \in 1 .. Len(w) : w[i] = s[i + 1]
  OBVIOUS
<1> HIDE DEF w
<1>2. PICK i \in 1 .. Len(s) : e \in Sure(s[i], d)
  BY DEF Covered
<1>3. CASE i = 1
  BY <1>1, <1>2, <1>3
<1>4. CASE i # 1
  <2>1. i - 1 \in 1 .. Len(w) /\ w[i - 1] = s[i]
    <3>1. i - 1 \in 1 .. Len(w) /\ (i - 1) + 1 = i
      BY <1>1, <1>4
    <3> QED BY <1>1, <3>1
  <2>2. Covered(e, w, d)
    BY <1>2, <2>1 DEF Covered
  <2> QED BY <2>2 DEF w
<1> QED BY <1>3, <1>4

\* And what one covers, the list does.
LEMMA CoveredBoth ==
    ASSUME NEW s \in Seq(Tasks), NEW u \in Seq(Tasks), NEW d, NEW e,
           Covered(e, s, d) \/ Covered(e, u, d)
    PROVE  Covered(e, s \o u, d)
<1> DEFINE w == s \o u
<1>1. /\ Len(s) \in Nat /\ Len(u) \in Nat /\ Len(w) = Len(s) + Len(u)
      /\ \A i \in 1 .. Len(w) : w[i] = IF i <= Len(s) THEN s[i] ELSE u[i - Len(s)]
  OBVIOUS
<1> HIDE DEF w
<1>2. CASE Covered(e, s, d)
  <2>1. PICK i \in 1 .. Len(s) : e \in Sure(s[i], d)
    BY <1>2 DEF Covered
  <2>2. i \in 1 .. Len(w) /\ w[i] = s[i]
    BY <1>1
  <2> QED BY <2>1, <2>2 DEF Covered, w
<1>3. CASE Covered(e, u, d)
  <2>1. PICK i \in 1 .. Len(u) : e \in Sure(u[i], d)
    BY <1>3 DEF Covered
  <2>2. i + Len(s) \in 1 .. Len(w) /\ w[i + Len(s)] = u[i]
    BY <1>1
  <2> QED BY <2>1, <2>2 DEF Covered, w
<1> QED BY <1>2, <1>3

\* After a write every stale entry is still known, or sure to be deleted.
LEMMA StaleStays ==
    ASSUME Deletes, TypeInv', NEW j \in Jobs, NEW d, NEW ts \in Seq(Tasks),
           Lawful(j, d), Chains(db, d, ts), Hits(d, ts, excused'),
           db' = d, cached' = cached, excused \subseteq excused', todo' = [todo EXCEPT ![j] = ts],
           \A e : Covered(e, todo[j], db) => Covered(e, ts, db)
    PROVE  StaleInv'
<1> SUFFICES ASSUME NEW e \in Entries, cached[e] \notin {None, Fresh(e, d)}, InReach(e, d)
             PROVE  e \in excused' \/ \E i \in Jobs : Covered(e, todo'[i], d)
  BY DEF StaleInv
<1>0. /\ DbOK(db) /\ UniqueApis(db) /\ todo \in [Jobs -> Seq(Tasks)] /\ NewInv /\ StaleInv
      /\ todo'[j] = ts /\ \A i \in Jobs \ {j} : todo'[i] = todo[i]
  <2>1. todo \in [Jobs -> Seq(Tasks)]
    BY DEF Deletes, TypeInv, TypeOK
  <2> QED BY <2>1, Before DEF Deletes, NewInv
<1>1. CASE Fresh(e, d) # Fresh(e, db)
  <2>1. e \in Outdates(d)
    BY <1>1 DEF Outdates
  <2> QED BY <1>0, <2>1 DEF Hits
<1>2. CASE Fresh(e, d) = Fresh(e, db)
  <2>1. InReach(e, db)
    BY <1>0, ReachedBefore
  <2>2. e \in excused \/ \E i \in Jobs : Covered(e, todo[i], db)
    BY <1>0, <1>2, <2>1 DEF StaleInv
  <2>3. ASSUME NEW i \in Jobs, Covered(e, todo[i], db)
        PROVE  \E h \in Jobs : Covered(e, todo'[h], d)
    <3> DEFINE s == todo'[i]
    <3>1. Covered(e, s, db) /\ s \in Seq(Tasks)
      BY <1>0, <2>3
    <3>2. PICK n \in 1 .. Len(s) : e \in Sure(s[n], db)
      BY <3>1 DEF Covered
    <3>3. s[n] \in Tasks
      BY <3>1
    <3>4. e \in Sure(s[n], d) \/ Covered(e, ts, d)
      <4> DEFINE t == s[n]
      <4>1. t \in Tasks /\ e \in Sure(t, db)
        BY <3>2, <3>3
      <4> HIDE DEF t
      <4>2. e \in Sure(t, d) \/ Covered(e, ts, d)
        BY <1>0, <1>2, <4>1, SureStays
      <4> QED BY <4>2 DEF t
    <3>5. Covered(e, s, d) \/ Covered(e, ts, d)
      BY <3>4 DEF Covered
    <3> QED BY <1>0, <3>5
  <2> QED BY <2>2, <2>3
<1> QED BY <1>1, <1>2

\* The first statement of a handler.
LEMMA FirstKeeps ==
    ASSUME Deletes, TypeInv', NEW j \in Jobs, NEW kind, NEW ok, NEW d, NEW ts,
           First(j, kind, ok, d, ts), excused \subseteq excused',
           ok => /\ Lawful(j, d) /\ Chains(db, d, ts) /\ Hits(d, ts, excused') /\ Sound(j, ts)
                 /\ Steady(d) \/ ts = <<>>
                 /\ ts \in Seq(Tasks)
    PROVE  Deletes'
<1>0. /\ TypeInv /\ StaleInv /\ Planned /\ NewInv /\ todo \in [Jobs -> Seq(Tasks)]
  BY DEF Deletes, TypeInv, TypeOK
<1>1. /\ j \in waiting /\ waiting' = waiting \ {j} /\ todo[j] = <<>> /\ j \in plan.jobs
      /\ plan' = plan /\ cached' = cached /\ fill' = fill
  BY <1>0 DEF First, Planned
<1>2. CASE ~ok
  <2>1. db' = db /\ todo' = todo
    BY <1>2 DEF First
  <2>2. StaleInv'
    BY <1>0, <1>1, <2>1 DEF StaleInv
  <2>3. Planned'
    BY <1>0, <1>1, <2>1 DEF Planned
  <2>4. NewInv'
    <3>1. \A i \in Jobs : Brings(i)' => Brings(i)
      BY <1>1, <2>1 DEF Brings
    <3>2. UniqueApis(db')
      BY <1>0, <2>1 DEF NewInv
    <3>3. ASSUME NEW i \in Jobs, Brings(i)' PROVE IsToCome(i)'
      <4>1. IsToCome(i)
        BY <1>0, <3>1, <3>3 DEF NewInv
      <4> QED BY <1>1, <2>1, <4>1 DEF IsToCome
    <3> QED BY <3>2, <3>3 DEF NewInv
  <2> QED BY <2>2, <2>3, <2>4 DEF Deletes
<1>3. CASE ok
  <2>1. /\ db' = d /\ todo' = [todo EXCEPT ![j] = ts] /\ ts \in Seq(Tasks)
        /\ todo'[j] = ts /\ \A i \in Jobs \ {j} : todo'[i] = todo[i]
    BY <1>0, <1>3 DEF First
  <2>2. StaleInv'
    <3>1. \A e : ~Covered(e, todo[j], db)
      BY <1>1 DEF Covered
    <3> QED BY <1>0, <1>1, <1>3, <2>1, <3>1, StaleStays
  <2>3. Planned'
    BY <1>0, <1>1, <1>3, <2>1 DEF Planned
  <2>4. NewInv'
    <3>1. \A i \in Jobs : Brings(i)' => Brings(i)
      <4>1. Brings(j)
        BY <1>1 DEF Brings
      <4>2. ASSUME NEW i \in Jobs \ {j}, Brings(i)' PROVE Brings(i)
        BY <1>1, <2>1, <4>2 DEF Brings
      <4> QED BY <4>1, <4>2
    <3>2. ASSUME ts = <<>> PROVE ~Brings(j)'
      BY <1>1, <2>1, <3>2 DEF Brings
    <3> QED BY <1>0, <1>1, <1>3, <2>1, <3>1, <3>2, LawfulNew
  <2> QED BY <2>2, <2>3, <2>4 DEF Deletes
<1> QED BY <1>2, <1>3

\* Tables that stay as they are.
LEMMA NothingChanges ==
    ASSUME NEW ts, NEW ex PROVE Steady(db) /\ Chains(db, db, ts) /\ Hits(db, ts, ex)
BY DEF Steady, Chains, Hits, Outdates

\* A first statement that only reads.
LEMMA ReadKeeps ==
    ASSUME Deletes, TypeInv', NEW j \in Jobs, NEW kind, NEW ok, NEW ts,
           Asked(j, kind, ok, db, ts), ok => Sound(j, ts) /\ ts \in Seq(Tasks)
    PROVE  Deletes'
<1>1. First(j, kind, ok, db, ts) /\ excused \subseteq excused'
  BY DEF Asked
<1>2. Steady(db) /\ Lawful(j, db) /\ Chains(db, db, ts) /\ Hits(db, ts, excused')
  BY NothingChanges, SteadyIsLawful
<1> QED BY <1>1, <1>2, FirstKeeps

\* A step of a running handler that writes no row.
LEMMA QuietKeeps ==
    ASSUME Deletes, NEW j \in Jobs, todo[j] # <<>>, NEW ts \in Seq(Tasks),
           TypeInv', Sound(j, ts), \A n \in 1 .. Len(ts) : ts[n][1] \notin Creating,
           db' = db, plan' = plan, waiting' = waiting, fill' = fill,
           todo' = [todo EXCEPT ![j] = ts],
           \A e \in Entries : cached'[e] # None =>
               /\ cached'[e] = cached[e]
               /\ e \in excused => e \in excused'
               /\ Covered(e, todo[j], db) => e \in excused' \/ Covered(e, ts, db)
    PROVE  Deletes'
<1>0. /\ TypeInv /\ StaleInv /\ Planned /\ NewInv
      /\ todo'[j] = ts /\ \A i \in Jobs \ {j} : todo'[i] = todo[i]
  BY DEF Deletes, TypeInv, TypeOK
<1>1. StaleInv'
  <2> SUFFICES ASSUME NEW e \in Entries, cached'[e] \notin {None, Fresh(e, db)}, InReach(e, db)
               PROVE  e \in excused' \/ \E i \in Jobs : Covered(e, todo'[i], db)
    BY DEF StaleInv
  <2>1. cached[e] \notin {None, Fresh(e, db)}
    OBVIOUS
  <2>2. e \in excused \/ \E i \in Jobs : Covered(e, todo[i], db)
    BY <1>0, <2>1 DEF StaleInv
  <2> QED BY <1>0, <2>2
<1>2. Planned'
  BY <1>0 DEF Planned
<1>3. NewInv'
  <2>1. \A i \in Jobs : Brings(i)' => Brings(i)
    <3>1. ~Brings(j)'
      <4>1. j \notin waiting
        BY <1>0 DEF Planned
      <4>2. ts # <<>> => Head(ts)[1] \notin Creating
        <5>1. ts # <<>> => Head(ts) = ts[1] /\ 1 \in 1 .. Len(ts)
          OBVIOUS
        <5> QED BY <5>1
      <4> QED BY <1>0, <4>1, <4>2 DEF Brings
    <3>2. ASSUME NEW i \in Jobs \ {j}, Brings(i)' PROVE Brings(i)
      BY <1>0, <3>2 DEF Brings
    <3> QED BY <3>1, <3>2
  <2>2. UniqueApis(db')
    BY <1>0 DEF NewInv
  <2>3. ASSUME NEW i \in Jobs, Brings(i)' PROVE IsToCome(i)'
    <3>1. IsToCome(i) /\ Given(i)
      BY <1>0, <2>1, <2>3, PlansAssumption DEF NewInv
    <3>2. \A e \in Entries : cached[e] = None => cached'[e] = None
      OBVIOUS
    <3>3. \A a \in Generated(i) : <<"config", a>> \in Entries
      <4>1. Generated(i) \subseteq ApiKeys
        BY <3>1 DEF Generated, Given
      <4> QED BY <4>1, EntriesAre
    <3>4. ASSUME i[1] = "create_key", NEW e \in {"subs", "endpoints"} \X {i[2]} PROVE e \in Entries
      <4>1. i[2] \in Keys /\ e = <<e[1], i[2]>> /\ e[1] \in {"subs", "endpoints"}
        BY <3>1, <3>4 DEF Given
      <4> QED BY <4>1, EntriesAre
    <3> QED BY <3>1, <3>2, <3>3, <3>4 DEF IsToCome
  <2> QED BY <2>2, <2>3 DEF NewInv
<1> QED BY <1>0, <1>1, <1>2, <1>3 DEF Deletes

\* The list of a running handler.
LEMMA Running ==
    ASSUME Deletes, NEW j \in Jobs, todo[j] # <<>>
    PROVE  /\ todo[j] \in Seq(Tasks) /\ Sound(j, todo[j]) /\ j \notin waiting
           /\ Head(todo[j]) \in Tasks /\ TaskOf(j, Head(todo[j])) /\ Runs(j, Tail(todo[j]))
           /\ Sound(j, Tail(todo[j])) /\ Tail(todo[j]) \in Seq(Tasks)
           /\ \A n \in 1 .. Len(Tail(todo[j])) : Tail(todo[j])[n][1] \notin Creating
           /\ \A t \in Need(j, Head(todo[j])) : InList(t, Tail(todo[j]))
           /\ Head(todo[j])[1] = "chain" => Head(todo[j])[2] \in j[2]
<1>1. todo[j] \in Seq(Tasks) /\ Sound(j, todo[j]) /\ j \notin waiting /\ TypeInv
  BY DEF Deletes, TypeInv, TypeOK, Planned
<1> QED BY <1>1, Current, SoundTail

\* A list that ends early relies on nothing.
LEMMA NoList == ASSUME NEW j PROVE Sound(j, <<>>) /\ <<>> \in Seq(Tasks) /\ Len(<<>>) = 0
BY DEF Sound

\* What is covered is pending.
LEMMA CoveredIsPending ==
    ASSUME NEW j, NEW e, Covered(e, todo[j], db) PROVE e \in Pending(j)
<1>1. PICK i \in 1 .. Len(todo[j]) : e \in Sure(todo[j][i], db)
  BY DEF Covered
<1>2. e \in Targets(todo[j][i], db)
  BY <1>1, SureIsTarget
<1> QED BY <1>2 DEF Pending

\* A statement that follows is refused, or a write.
LEMMA ThenDeletes ==
    ASSUME Deletes, TypeInv', NEW j \in Jobs, todo[j] # <<>>,
           Head(todo[j])[1] \notin Selects \cup {"del"},
           NEW refused, NEW d, NEW raced, Then(j, refused, d, raced),
           ~refused => /\ Lawful(j, d) /\ Chains(db, d, Tail(todo[j]))
                       /\ raced \/ Hits(d, Tail(todo[j]), excused)
    PROVE  Deletes'
<1>0. /\ TypeInv /\ StaleInv /\ Planned /\ NewInv /\ todo \in [Jobs -> Seq(Tasks)]
      /\ plan' = plan /\ cached' = cached /\ waiting' = waiting /\ fill' = fill
  BY DEF Deletes, TypeInv, TypeOK, Then
<1>1. CASE refused
  <2>1. todo' = [todo EXCEPT ![j] = <<>>] /\ excused' = excused \cup Pending(j) /\ db' = db
    BY <1>1 DEF Then
  <2>2. \A e : Covered(e, todo[j], db) => e \in excused'
    BY <2>1, CoveredIsPending
  <2> DEFINE ts == <<>>
  <2>3. /\ ts \in Seq(Tasks) /\ Sound(j, ts) /\ \A n \in 1 .. Len(ts) : ts[n][1] \notin Creating
        /\ todo' = [todo EXCEPT ![j] = ts]
    BY <2>1, NoList
  <2>4. \A e \in Entries : cached'[e] = cached[e] /\ (e \in excused => e \in excused')
    BY <1>0, <2>1
  <2> HIDE DEF ts
  <2> QED BY <1>0, <2>1, <2>2, <2>3, <2>4, QuietKeeps
<1>2. CASE ~refused
  <2> DEFINE ts == Tail(todo[j])
  <2>1. /\ todo' = [todo EXCEPT ![j] = ts] /\ db' = d
        /\ excused' = IF raced THEN excused \cup Outdates(d) ELSE excused
        /\ todo'[j] = ts /\ \A i \in Jobs \ {j} : todo'[i] = todo[i]
    BY <1>0, <1>2 DEF Then
  <2>2. Lawful(j, d) /\ Chains(db, d, ts) /\ (raced \/ Hits(d, ts, excused))
    BY <1>2
  <2>3. /\ ts \in Seq(Tasks) /\ Sound(j, ts) /\ j \notin waiting
        /\ \A n \in 1 .. Len(ts) : ts[n][1] \notin Creating
    BY Running
  <2>4. \A e : Covered(e, todo[j], db) => Covered(e, ts, db)
    BY <1>0, FirstOrLater, WritesCoverNone
  <2> HIDE DEF ts
  <2>5. Hits(d, ts, excused') /\ excused \subseteq excused'
    BY <2>1, <2>2 DEF Hits
  <2>6. StaleInv'
    BY <1>0, <2>1, <2>2, <2>3, <2>4, <2>5, StaleStays
  <2>7. Planned'
    BY <1>0, <2>1, <2>3 DEF Planned
  <2>8. NewInv'
    <3>1. ~Brings(j)'
      <4>1. ts # <<>> => Head(ts) = ts[1] /\ 1 \in 1 .. Len(ts)
        BY <2>3
      <4> QED BY <1>0, <2>1, <2>3, <4>1 DEF Brings
    <3>2. ASSUME NEW i \in Jobs \ {j}, Brings(i)' PROVE Brings(i)
      BY <1>0, <2>1, <3>2 DEF Brings
    <3> QED BY <1>0, <2>1, <2>2, <3>1, <3>2, LawfulNew
  <2> QED BY <2>6, <2>7, <2>8 DEF Deletes
<1> QED BY <1>1, <1>2

\* The DELs of some entries.
LEMMA DelsAre ==
    ASSUME NEW es \in SUBSET Entries, IsFiniteSet(es)
    PROVE  /\ \A e \in es : InList(Del(e), Dels(es))
           /\ \A n \in 1 .. Len(Dels(es)) : Plain(Dels(es)[n])
<1> DEFINE T == {Del(e) : e \in es}
           f == [e \in es |-> Del(e)]
           s == SetToSeq(T)
<1>1. IsFiniteSet(T)
  <2>1. f \in [es -> T] /\ \A y \in T : \E x \in es : f[x] = y
    OBVIOUS
  <2> HIDE DEF f, T
  <2> QED BY <2>1, Onto
<1>2. s = Dels(es)
  BY DEF Dels
<1>3. \A t \in T : Plain(t)
  BY DEF Plain, Del
<1>4. \A e \in es : Del(e) \in T
  OBVIOUS
<1> HIDE DEF T
<1>5. s \in Seq(T) /\ \A x \in T : \E i \in 1 .. Len(s) : s[i] = x
  BY <1>1, SetToSeqIs
<1> HIDE DEF s
<1>6. \A i \in 1 .. Len(s) : s[i] \in T
  BY <1>5
<1> QED BY <1>2, <1>3, <1>4, <1>5, <1>6 DEF InList

\* What a SELECT finds covers what it was sure to.
LEMMA FoundCovers ==
    ASSUME DbOK(db), NEW t \in Tasks, t[1] \in Selects
    PROVE  /\ \A e \in Sure(t, db) : Covered(e, Found(t, db), db)
           /\ \A n \in 1 .. Len(Found(t, db)) : Plain(Found(t, db)[n])
<1>1. CASE t[1] = "users"
  <2> DEFINE gs == UsersOf(t[2], db)
  <2>1. gs \in SUBSET Groups
    BY DEF UsersOf
  <2>2. Found(t, db) = InvalidateAll(gs)
    BY <1>1 DEF Found
  <2>3. Sure(t, db) = UNION {MasterEntry(g, db) \cup OnEntries(g, db) : g \in gs}
    BY <1>1 DEF Sure
  <2> HIDE DEF gs
  <2>4. ASSUME NEW e \in Sure(t, db) PROVE Covered(e, InvalidateAll(gs), db)
    <3>1. PICK g \in gs : e \in MasterEntry(g, db) \cup OnEntries(g, db)
      BY <2>3
    <3>2. Invalidates(g, InvalidateAll(gs))
      BY <2>1, InvalidateAllIs
    <3> QED BY <3>1, <3>2, CoversGroup
  <2> QED BY <2>1, <2>2, <2>4, InvalidateAllIs
<1>2. CASE t[1] # "users"
  <2> DEFINE es == Targets(t, db)
  <2>1. es \in SUBSET Entries /\ IsFiniteSet(es) /\ Found(t, db) = Dels(es) /\ Sure(t, db) = es
    BY <1>2, TargetsAre DEF Selects, Found, Sure, DbOK
  <2> HIDE DEF es
  <2> QED BY <2>1, DelsAre, CoversDel
<1> QED BY <1>1, <1>2

\* The SELECTs and the DELs of an invalidation, and a handler that stops.
LEMMA InvalidatingDeletes ==
    ASSUME Deletes, TypeInv', NEW j \in Jobs, Select(j) \/ RunDel(j) \/ Abort(j) PROVE Deletes'
<1>0. TypeInv /\ DbOK(db) /\ todo \in [Jobs -> Seq(Tasks)]
  BY Before DEF Deletes, TypeInv, TypeOK
<1>1. todo[j] # <<>>
  BY DEF Select, RunDel, Abort, Doing
<1> DEFINE t == Head(todo[j])
           rest == Tail(todo[j])
<1>2. /\ t \in Tasks /\ rest \in Seq(Tasks) /\ Sound(j, rest) /\ todo[j] \in Seq(Tasks)
      /\ \A n \in 1 .. Len(rest) : rest[n][1] \notin Creating
  BY <1>1, Running
<1>3. \A e : Covered(e, todo[j], db) => e \in Sure(t, db) \/ Covered(e, rest, db)
  BY <1>1, <1>2, FirstOrLater
<1>4. Sure(t, db) \subseteq Targets(t, db)
  BY SureIsTarget
<1>5. CASE Select(j)
  <2>1. /\ t[1] \in Selects
        /\ \/ todo' = [todo EXCEPT ![j] = Found(t, db) \o rest] /\ excused' = excused
           \/ todo' = [todo EXCEPT ![j] = rest] /\ excused' = excused \cup Targets(t, db)
        /\ db' = db /\ plan' = plan /\ cached' = cached /\ waiting' = waiting /\ fill' = fill
    BY <1>0, <1>5 DEF Select, Doing
  <2> HIDE DEF t, rest
  <2>2. CASE todo' = [todo EXCEPT ![j] = Found(t, db) \o rest] /\ excused' = excused
    <3> DEFINE f == Found(t, db)
               ts == f \o rest
    <3>1. f \in Seq(Tasks)
      <4>1. TypeInv /\ TypeInv'
        BY <1>0
      <4>2. CASE t[1] = "users"
        <5>1. UsersOf(t[2], db) \in SUBSET Groups
          BY DEF UsersOf
        <5> QED BY <4>2, <5>1, RunsInvalidateAll DEF Found, Runs
      <4>3. CASE t[1] # "users"
        <5>1. Targets(t, db) \in SUBSET Entries /\ IsFiniteSet(Targets(t, db))
          BY <1>0, <1>2, <2>1, <4>3, TargetsAre DEF Selects, DbOK
        <5> QED BY <4>3, <5>1, RunsDels DEF Found, Runs
      <4> QED BY <4>2, <4>3
    <3>2. /\ \A e \in Sure(t, db) : Covered(e, f, db)
          /\ \A n \in 1 .. Len(f) : Plain(f[n])
      BY <1>0, <1>2, <2>1, FoundCovers
    <3> HIDE DEF f
    <3>3. \A n \in 1 .. Len(f) : /\ Need(j, f[n]) = {}
                                 /\ f[n][1] \notin Creating \cup {"chain"}
      BY <3>2 DEF Plain, Need, Creating
    <3>8. \A n \in 1 .. Len(f) : /\ \A u \in Need(j, f[n]) : InList(u, rest)
                                 /\ f[n][1] \in Creating => n = 1
                                 /\ f[n][1] = "chain" => f[n][2] \in j[2]
      BY <3>3
    <3>4. Sound(j, ts) /\ ts \in Seq(Tasks)
      <4>1. ts \in Seq(Tasks)
        BY <1>2, <3>1
      <4> HIDE DEF rest
      <4>2. Sound(j, f \o rest)
        BY <1>2, <3>1, <3>8, SoundBoth
      <4> QED BY <4>1, <4>2
    <3>5. \A n \in 1 .. Len(ts) : ts[n][1] \notin Creating
      <4>1. /\ Len(f) \in Nat /\ Len(rest) \in Nat /\ Len(ts) = Len(f) + Len(rest)
            /\ \A i \in 1 .. Len(ts) : ts[i] = IF i <= Len(f) THEN f[i] ELSE rest[i - Len(f)]
        BY <1>2, <3>1
      <4> HIDE DEF ts
      <4>2. ASSUME NEW n \in 1 .. Len(ts), ~(n <= Len(f))
            PROVE  n - Len(f) \in 1 .. Len(rest) /\ ts[n] = rest[n - Len(f)]
        BY <4>1, <4>2
      <4>3. ASSUME NEW n \in 1 .. Len(ts), n <= Len(f) PROVE n \in 1 .. Len(f) /\ ts[n] = f[n]
        BY <4>1, <4>3
      <4> QED BY <1>2, <3>3, <4>2, <4>3
    <3>6. \A e : Covered(e, todo[j], db) => Covered(e, ts, db)
      BY <1>2, <1>3, <3>1, <3>2, CoveredBoth
    <3>7. todo' = [todo EXCEPT ![j] = ts]
      BY <2>2 DEF f
    <3> HIDE DEF ts
    <3> QED BY <1>1, <2>1, <2>2, <3>4, <3>5, <3>6, <3>7, QuietKeeps
  <2>3. CASE todo' = [todo EXCEPT ![j] = rest] /\ excused' = excused \cup Targets(t, db)
    <3>1. \A e : Covered(e, todo[j], db) => e \in excused' \/ Covered(e, rest, db)
      BY <1>3, <1>4, <2>3
    <3> QED BY <1>1, <1>2, <2>1, <2>3, <3>1, QuietKeeps
  <2> QED BY <2>1, <2>2, <2>3
<1>6. CASE RunDel(j)
  <2>1. /\ t[1] = "del" /\ todo' = [todo EXCEPT ![j] = rest]
        /\ Drop(t[2]) \/ (excused' = excused \cup {t[2]} /\ cached' = cached)
        /\ db' = db /\ plan' = plan /\ waiting' = waiting /\ fill' = fill
    BY <1>0, <1>6 DEF RunDel, Doing
  <2>2. t[2] \in Entries
    BY <1>2, <2>1, TaskIs
  <2>3. Sure(t, db) = {t[2]}
    BY <2>1 DEF Sure, Targets
  <2> HIDE DEF t, rest
  <2>4. ASSUME NEW e \in Entries, cached'[e] # None
        PROVE  /\ cached'[e] = cached[e]
               /\ e \in excused => e \in excused'
               /\ Covered(e, todo[j], db) => e \in excused' \/ Covered(e, rest, db)
    <3>1. CASE Drop(t[2])
      <4>1. excused' = excused \ {t[2]}
        BY <3>1 DEF Drop
      <4>2. e # t[2]
        <5>1. cached' = [cached EXCEPT ![t[2]] = None] /\ DOMAIN cached = Entries
          BY <1>0, <3>1 DEF Drop, TypeInv, TypeOK
        <5> QED BY <2>2, <2>4, <5>1
      <4>3. cached'[e] = cached[e]
        BY <1>0, <3>1, <4>2 DEF Drop, TypeInv, TypeOK
      <4> QED BY <1>3, <2>3, <4>1, <4>2, <4>3
    <3>2. CASE excused' = excused \cup {t[2]} /\ cached' = cached
      BY <1>3, <2>3, <3>2
    <3> QED BY <2>1, <3>1, <3>2
  <2> QED BY <1>1, <1>2, <2>1, <2>4, QuietKeeps
<1>7. CASE Abort(j)
  <2> DEFINE ts == <<>>
  <2>1. /\ todo' = [todo EXCEPT ![j] = ts] /\ excused' = excused \cup Pending(j)
        /\ db' = db /\ plan' = plan /\ cached' = cached /\ waiting' = waiting /\ fill' = fill
    BY <1>7 DEF Abort
  <2>2. /\ ts \in Seq(Tasks) /\ Sound(j, ts) /\ \A n \in 1 .. Len(ts) : ts[n][1] \notin Creating
    BY NoList
  <2>3. \A e : Covered(e, todo[j], db) => e \in excused'
    BY <2>1, CoveredIsPending
  <2> HIDE DEF ts
  <2> QED BY <1>1, <2>1, <2>2, <2>3, QuietKeeps
<1> QED BY <1>5, <1>6, <1>7

-----------------------------------------------------------------------------
(* Requests *)

\* What a request does to what has still to come.
LEMMA NewStays ==
    ASSUME TypeInv, NewInv, db' = db, waiting' = waiting, todo' = todo,
           \A i \in Jobs : Brings(i) => IsToCome(i)'
    PROVE  NewInv'
<1>1. UniqueApis(db')
  BY DEF NewInv
<1>2. \A i \in Jobs : Brings(i)' => Brings(i)
  BY DEF Brings
<1> QED BY <1>1, <1>2 DEF NewInv

\* A request reads the tables, stores what it has found, and knows when it is stale.
LEMMA RequestsDelete ==
    ASSUME Deletes, TypeInv', (\E e \in Entries : Miss(e) \/ Expire(e)) \/ Read
    PROVE  Deletes'
<1>0. /\ TypeInv /\ StaleInv /\ Planned /\ NewInv /\ Filling /\ DOMAIN cached = Entries
      /\ fill # None => fill.entry \in Entries
  BY DEF Deletes, TypeInv, TypeOK
<1>1. plan' = plan /\ db' = db /\ waiting' = waiting /\ todo' = todo
  BY DEF Miss, Expire, Read, FindGroup, FindKey, FindOwner, ReadRow, ReadPart, LoseConfig, Store,
         readVars
<1>2. Planned'
  BY <1>0, <1>1 DEF Planned
<1>3. ASSUME NEW i \in Jobs, Brings(i)
      PROVE  /\ Generated(i) \subseteq ApiKeys /\ (i[1] = "create_key" => i[2] \in Keys)
             /\ IsToCome(i)
  <2>1. Given(i)
    BY PlansAssumption
  <2> QED BY <1>0, <1>3, <2>1 DEF NewInv, Given, Generated
<1>4. ASSUME NEW e \in Entries, Miss(e) PROVE StaleInv' /\ NewInv'
  <2>1. /\ fill = None /\ InReach(e, db) /\ cached' = cached /\ excused' = excused
        /\ fill' = [entry |-> e, at |-> IF e[1] = "config" THEN "group" ELSE "row", got |-> None]
    BY <1>4 DEF Miss
  <2>2. fill'.entry = e /\ (e[1] = "config" => fill'.at = "group")
    BY <2>1
  <2>3. ASSUME NEW i \in Jobs, Brings(i) PROVE IsToCome(i)'
    <3>1. IsToCome(i)
      BY <1>3, <2>3
    <3>2. ASSUME i[1] = "create_key" PROVE e \notin {"subs", "endpoints"} \X {i[2]}
      <4>1. i[2] \in Keys /\ db.key[i[2]] = None
        BY <1>3, <2>3, <3>2 DEF IsToCome
      <4> QED BY <2>1, <4>1 DEF InReach, ListEntries
    <3> QED BY <1>1, <2>1, <2>2, <3>1, <3>2 DEF IsToCome
  <2> QED BY <1>0, <1>1, <2>1, <2>3, NewStays DEF StaleInv
<1>5. ASSUME NEW e \in Entries, Expire(e) PROVE StaleInv' /\ NewInv'
  <2>1. cached' = [cached EXCEPT ![e] = None] /\ excused' = excused \ {e} /\ fill' = fill
    BY <1>5 DEF Expire, Drop
  <2>2. \A f \in Entries : cached'[f] # None => f # e /\ cached'[f] = cached[f]
    BY <1>0, <2>1
  <2>3. \A f \in Entries : cached[f] = None => cached'[f] = None
    BY <1>0, <2>1
  <2>4. StaleInv'
    BY <1>0, <1>1, <2>1, <2>2 DEF StaleInv
  <2>5. ASSUME NEW i \in Jobs, Brings(i) PROVE IsToCome(i)'
    <3>1. \A a \in Generated(i) : <<"config", a>> \in Entries
      BY <1>3, <2>5, EntriesAre
    <3>2. ASSUME i[1] = "create_key", NEW f \in {"subs", "endpoints"} \X {i[2]} PROVE f \in Entries
      <4>1. i[2] \in Keys /\ f = <<f[1], i[2]>> /\ f[1] \in {"subs", "endpoints"}
        BY <1>3, <2>5, <3>2
      <4> QED BY <4>1, EntriesAre
    <3> QED BY <1>1, <1>3, <2>1, <2>3, <2>5, <3>1, <3>2 DEF IsToCome
  <2> QED BY <1>0, <1>1, <2>4, <2>5, NewStays
<1>6. ASSUME Read, ~Store PROVE StaleInv' /\ NewInv'
  <2>1. cached' = cached /\ excused' = excused
    BY <1>6 DEF Read, FindGroup, FindKey, FindOwner, ReadRow, ReadPart, LoseConfig
  <2>2. ASSUME NEW i \in Jobs, Brings(i), fill' # None
        PROVE  /\ fill # None /\ fill'.entry = fill.entry
               /\ fill.entry \in {"config"} \X Generated(i) => fill'.at \in {"group", "key"}
    <3>1. ASSUME NEW step, NEW got, fill # None, Goes(step, got)
          PROVE  fill'.entry = fill.entry /\ fill'.at = step
      <4>1. PICK e \in Entries : fill = [entry |-> e, at |-> fill.at, got |-> fill.got]
        BY <1>0, <3>1 DEF Filling
      <4>2. fill' = [fill EXCEPT !.at = step, !.got = got]
        BY <3>1 DEF Goes
      <4> QED BY <4>1, <4>2
    <3>2. ASSUME fill # None, fill.entry \in {"config"} \X Generated(i)
          PROVE  /\ fill.at \in {"group", "key"}
                 /\ GroupsWith(fill.entry[2], db) = {} /\ KeysWith(fill.entry[2], db) = {}
      <4>1. PICK a \in Generated(i) : fill.entry = <<"config", a>>
        BY <3>2
      <4> QED BY <1>3, <2>2, <3>2, <4>1 DEF IsToCome, Unused
    <3>3. CASE FindGroup
      <4>1. /\ fill # None /\ fill.at = "group"
            /\ \/ \E g \in GroupsWith(fill.entry[2], db) : \E got : Goes(Parts[1], got)
               \/ Goes("key", None)
        BY <3>3 DEF FindGroup, At
      <4> QED BY <3>1, <3>2, <4>1
    <3>4. CASE FindKey
      <4>1. /\ fill # None /\ fill.at = "key"
            /\ \/ fill' = None
               \/ \E k \in KeysWith(fill.entry[2], db) : \E step, got : Goes(step, got)
        BY <3>4 DEF FindKey, At
      <4> QED BY <2>2, <3>1, <3>2, <4>1
    <3>5. CASE FindOwner \/ ReadRow \/ ReadPart
      <4>1. \A n \in 1 .. Len(Parts) : Parts[n] \notin {"group", "key"}
        BY DEF Parts
      <4>2. /\ fill # None /\ fill.at \notin {"group", "key"}
            /\ fill' = None \/ \E step, got : Goes(step, got)
        BY <3>5, <4>1 DEF FindOwner, ReadRow, ReadPart, At
      <4> QED BY <2>2, <3>1, <3>2, <4>2
    <3>6. CASE LoseConfig
      BY <2>2, <3>6 DEF LoseConfig
    <3> QED BY <1>6, <3>3, <3>4, <3>5, <3>6 DEF Read
  <2>3. ASSUME NEW i \in Jobs, Brings(i) PROVE IsToCome(i)'
    <3>1. IsToCome(i)
      BY <1>3, <2>3
    <3>2. \A a \in Generated(i) : fill' # None /\ fill'.entry = <<"config", a>> => fill'.at \in {"group", "key"}
      BY <2>2, <2>3
    <3> QED BY <1>1, <2>1, <2>2, <2>3, <3>1, <3>2 DEF IsToCome
  <2> QED BY <1>0, <1>1, <2>1, <2>3, NewStays DEF StaleInv
<1>7. ASSUME Store PROVE StaleInv' /\ NewInv'
  <2> DEFINE e == fill.entry
  <2>1. /\ fill # None /\ fill.at = "store" /\ e \in Entries /\ fill' = None
        /\ \/ /\ cached' = [cached EXCEPT ![e] = fill.got]
              /\ excused' = IF fill.got = Fresh(e, db) THEN excused \ {e} ELSE excused \cup {e}
           \/ cached' = cached /\ excused' = excused
    BY <1>0, <1>7 DEF Store, At
  <2>2. ASSUME NEW i \in Jobs, Brings(i) PROVE IsToCome(i)'
    <3>1. IsToCome(i)
      BY <1>3, <2>2
    <3>2. \A a \in Generated(i) : e # <<"config", a>>
      BY <2>1, <3>1 DEF IsToCome
    <3>3. i[1] = "create_key" => \A f \in {"subs", "endpoints"} \X {i[2]} : e # f
      BY <2>1, <3>1 DEF IsToCome
    <3> HIDE DEF e
    <3>4. \A f \in Entries : f # e => cached'[f] = cached[f]
      BY <1>0, <2>1
    <3>5. \A a \in Generated(i) : <<"config", a>> \in Entries
      BY <1>3, <2>2, EntriesAre
    <3>6. ASSUME i[1] = "create_key", NEW f \in {"subs", "endpoints"} \X {i[2]} PROVE f \in Entries
      <4>1. i[2] \in Keys /\ f = <<f[1], i[2]>> /\ f[1] \in {"subs", "endpoints"}
        BY <1>3, <2>2, <3>6
      <4> QED BY <4>1, EntriesAre
    <3> QED BY <1>1, <2>1, <3>1, <3>2, <3>3, <3>4, <3>5, <3>6 DEF IsToCome
  <2> HIDE DEF e
  <2>3. StaleInv'
    <3> SUFFICES ASSUME NEW f \in Entries, cached'[f] \notin {None, Fresh(f, db)}, InReach(f, db)
                 PROVE  f \in excused' \/ \E j \in Jobs : Covered(f, todo[j], db)
      BY <1>1 DEF StaleInv
    <3>1. cached[f] \notin {None, Fresh(f, db)} => f \in excused \/ \E j \in Jobs : Covered(f, todo[j], db)
      BY <1>0 DEF StaleInv
    <3>2. CASE cached' = cached /\ excused' = excused
      BY <3>1, <3>2
    <3>3. CASE /\ cached' = [cached EXCEPT ![e] = fill.got]
               /\ excused' = IF fill.got = Fresh(e, db) THEN excused \ {e} ELSE excused \cup {e}
      <4>1. CASE f = e
        BY <1>0, <2>1, <3>3, <4>1
      <4>2. CASE f # e
        BY <1>0, <2>1, <3>1, <3>3, <4>2
      <4> QED BY <4>1, <4>2
    <3> QED BY <2>1, <3>2, <3>3
  <2> QED BY <1>0, <1>1, <2>2, <2>3, NewStays
<1> QED BY <1>0, <1>2, <1>4, <1>5, <1>6, <1>7 DEF Deletes, Read

-----------------------------------------------------------------------------
(* Writes of configurations *)

\* The tables that a write leaves alone.
Kept(d, changed) ==
    /\ "group" \in changed \/ d.group = db.group
    /\ "key" \in changed \/ d.key = db.key
    /\ "server" \in changed \/ d.server = db.server
    /\ "chain" \in changed \/ d.chain = db.chain
    /\ "keyServers" \in changed \/ d.keyServers = db.keyServers
    /\ "model" \in changed \/ d.model = db.model
    /\ "allowed" \in changed \/ d.allowed = db.allowed
    /\ "keyAllowed" \in changed \/ d.keyAllowed = db.keyAllowed
    /\ "blocked" \in changed \/ d.blocked = db.blocked
    /\ "lists" \in changed \/ /\ d.setting = db.setting /\ d.endpoints = db.endpoints
                              /\ d.subs = db.subs

\* It leaves every API key with its row.
SameApis(d) ==
    /\ \A g \in Groups : /\ d.group[g] = None <=> db.group[g] = None
                         /\ db.group[g] # None => d.group[g].api = db.group[g].api
    /\ \A k \in Keys : /\ d.key[k] = None <=> db.key[k] = None
                       /\ db.key[k] # None => /\ d.key[k].api = db.key[k].api
                                              /\ d.key[k].group = db.key[k].group

\* It is about the groups G and the sub-keys K, and no new row.
Changes(d, G, K) ==
    /\ Elsewhere(db, d, G, K) /\ SameApis(d) /\ Kept(d, {"group", "key", "server", "chain",
             "keyServers", "model", "allowed", "keyAllowed", "blocked"})
    /\ \A s \in Servers : d.server[s] # None => db.server[s] # None

\* Lists and settings are as before.
LEMMA ListsKept ==
    ASSUME NEW d, d.setting = db.setting, d.endpoints = db.endpoints, d.subs = db.subs
    PROVE  \A e \in ListEntries \cup SettingEntries : Fresh(e, d) = Fresh(e, db)
BY DEF ListEntries, SettingEntries, Fresh

\* Every API key has the rows it had.
LEMMA SameSettled ==
    ASSUME NEW d, SameApis(d), NEW a PROVE Settled(a, db, d)
<1>1. GroupsWith(a, d) = GroupsWith(a, db)
  BY DEF SameApis, GroupsWith
<1>2. KeysWith(a, d) = KeysWith(a, db)
  BY DEF SameApis, KeysWith
<1>3. \A k \in KeysWith(a, db) : d.key[k].group = db.key[k].group
  BY DEF SameApis, KeysWith
<1> QED BY <1>1, <1>2, <1>3 DEF Settled

\* It is enough to invalidate those groups, and to delete the entries of those sub-keys.
LEMMA ChangesHit ==
    ASSUME DbOK(db), NEW d, DbOK(d), NEW ts, NEW ex, NEW G, NEW K, Changes(d, G, K),
           \A g \in Groups \cap G : Invalidates(g, ts),
           \A k \in Keys \cap K : d.key[k] # None =>
               \/ InList(Del(<<"config", d.key[k].api>>), ts)
               \/ Invalidates(d.key[k].group, ts)
    PROVE  Steady(d) /\ Chains(db, d, ts) /\ Hits(d, ts, ex)
<1>1. Steady(d)
  BY DEF Changes, SameApis, Steady
<1>2. \A g \in Groups \cap G : \A e \in MasterEntry(g, d) \cup OnEntries(g, d) : Covered(e, ts, d)
  BY CoversGroup
<1>3. Chains(db, d, ts)
  BY <1>2 DEF Chains, Changes, Elsewhere
<1>4. ASSUME NEW k \in Keys \cap K, d.key[k] # None
      PROVE  Covered(<<"config", d.key[k].api>>, ts, d)
  <2>1. CASE InList(Del(<<"config", d.key[k].api>>), ts)
    BY <2>1, CoversDel
  <2>2. CASE Invalidates(d.key[k].group, ts)
    <3>1. <<"config", d.key[k].api>> \in SubEntries(d.key[k].group, d)
      BY <1>4 DEF SubEntries, KeysOf
    <3> QED BY <2>2, <3>1, CoversGroup
  <2> QED BY <1>4, <2>1, <2>2
<1>5. \A a \in ApiKeys : Settled(a, db, d)
  BY SameSettled DEF Changes
<1>6. \A e \in ListEntries \cup SettingEntries : Fresh(e, d) = Fresh(e, db)
  BY ListsKept DEF Changes, Kept
<1>7. Elsewhere(db, d, G, K)
  BY DEF Changes
<1>8. Hits(d, ts, ex)
  BY <1>2, <1>4, <1>5, <1>6, <1>7, HitsBy
<1> QED BY <1>1, <1>3, <1>8

\* What a first statement leaves is as it must be.
LEMMA AfterFirst ==
    ASSUME Deletes, TypeInv', NEW j \in Jobs, NEW kind, NEW ok, NEW d, NEW ts,
           First(j, kind, ok, d, ts), ok
    PROVE  DbOK(d) /\ ts \in Seq(Tasks)
<1>1. todo' = [todo EXCEPT ![j] = ts] /\ db' = d /\ todo \in [Jobs -> Seq(Tasks)]
  BY DEF First, Deletes, TypeInv, TypeOK
<1>2. todo'[j] = ts /\ todo'[j] \in Seq(Tasks)
  BY <1>1 DEF TypeInv, TypeOK
<1>3. db' \in DbType /\ Referential(db')
  BY DEF TypeInv, TypeOK
<1> QED BY <1>1, <1>2, <1>3 DEF DbOK

\* A first statement that changes a configuration.
LEMMA ChangeKeeps ==
    ASSUME Deletes, TypeInv', NEW j \in Jobs, NEW kind, NEW ok, NEW d, NEW ts,
           Asked(j, kind, ok, d, ts), NEW G, NEW K,
           ok /\ DbOK(d) => /\ Changes(d, G, K) /\ Sound(j, ts)
                            /\ \A g \in Groups \cap G : Invalidates(g, ts)
                            /\ \A k \in Keys \cap K : d.key[k] # None =>
                                  \/ InList(Del(<<"config", d.key[k].api>>), ts)
                                  \/ Invalidates(d.key[k].group, ts)
    PROVE  Deletes'
<1>1. First(j, kind, ok, d, ts) /\ excused' = excused
  BY DEF Asked
<1>2. DbOK(db)
  BY Before DEF Deletes
<1>3. ASSUME ok
      PROVE  /\ Lawful(j, d) /\ Chains(db, d, ts) /\ Hits(d, ts, excused) /\ Sound(j, ts)
             /\ Steady(d)
             /\ ts \in Seq(Tasks)
  <2>1. DbOK(d) /\ ts \in Seq(Tasks)
    BY <1>1, <1>3, AfterFirst
  <2>2. Steady(d) /\ Chains(db, d, ts) /\ Hits(d, ts, excused)
    BY <1>2, <1>3, <2>1, ChangesHit
  <2> QED BY <1>3, <2>1, <2>2, SteadyIsLawful
<1> QED BY <1>1, <1>3, FirstKeeps

\* It is that of one group, which it invalidates.
LEMMA GroupChanges ==
    ASSUME Deletes, TypeInv', NEW j \in Jobs, NEW kind, NEW ok, NEW d, NEW g,
           Asked(j, kind, ok, d, Invalidate(g)), ok /\ DbOK(d) => Changes(d, {g}, {})
    PROVE  Deletes'
<1> DEFINE ts == Invalidate(g)
<1>1. Invalidates(g, ts) /\ Sound(j, ts)
  BY InvalidateIs, SoundPlain
<1>2. Asked(j, kind, ok, d, ts)
  OBVIOUS
<1> HIDE DEF ts
<1> QED BY <1>1, <1>2, ChangeKeeps

\* A write to the chain of a group.
LEMMA ChainChange ==
    ASSUME DbOK(db), NEW g \in Groups, NEW s \in Servers, NEW v
    PROVE  Changes([db EXCEPT !.chain[<<g, s>>] = v], {g}, {})
<1> DEFINE d == [db EXCEPT !.chain[<<g, s>>] = v]
<1>1. Kept(d, {"chain"}) /\ d.chain = [db.chain EXCEPT ![<<g, s>>] = v]
  BY DEF Kept, DbOK, DbType
<1> HIDE DEF d
<1>2. \A h \in Groups \ {g}, t \in Servers : d.chain[<<h, t>>] = db.chain[<<h, t>>]
  BY <1>1 DEF DbOK, DbType
<1>3. SameApis(d)
  BY <1>1 DEF SameApis, Kept
<1> QED BY <1>1, <1>2, <1>3 DEF Changes, Elsewhere, Kept, d

\* To the servers, which the groups G use.
LEMMA ServerChange ==
    ASSUME DbOK(db), NEW t, NEW G,
           \A s \in Servers : t[s] # None => db.server[s] # None,
           \A s \in Servers : t[s] = db.server[s] \/ UsersOf(s, db) \subseteq G
    PROVE  Changes([db EXCEPT !.server = t], G, {})
<1> DEFINE d == [db EXCEPT !.server = t]
<1>1. Kept(d, {"server"}) /\ d.server = t
  BY DEF Kept, DbOK, DbType
<1> HIDE DEF d
<1>2. SameApis(d)
  BY <1>1 DEF SameApis, Kept
<1> QED BY <1>1, <1>2 DEF Changes, Elsewhere, Kept, d

\* To the models.
LEMMA ModelChange ==
    ASSUME DbOK(db), NEW t,
           \A m \in Models : \/ t[m] = db.model[m]
                             \/ /\ \A g \in Groups : <<g, m>> \notin db.allowed
                                /\ \A k \in Keys : <<k, m>> \notin db.keyAllowed
    PROVE  Changes([db EXCEPT !.model = t], {}, {})
<1> DEFINE d == [db EXCEPT !.model = t]
<1>1. Kept(d, {"model"}) /\ d.model = t
  BY DEF Kept, DbOK, DbType
<1> HIDE DEF d
<1>2. SameApis(d)
  BY <1>1 DEF SameApis, Kept
<1> QED BY <1>1, <1>2 DEF Changes, Elsewhere, Kept, d

\* To the models of a group.
LEMMA AllowedChange ==
    ASSUME DbOK(db), NEW g \in Groups, NEW t,
           \A h \in Groups \ {g}, m \in Models : <<h, m>> \in t <=> <<h, m>> \in db.allowed
    PROVE  Changes([db EXCEPT !.allowed = t], {g}, {})
<1> DEFINE d == [db EXCEPT !.allowed = t]
<1>1. Kept(d, {"allowed"}) /\ d.allowed = t
  BY DEF Kept, DbOK, DbType
<1> HIDE DEF d
<1>2. SameApis(d)
  BY <1>1 DEF SameApis, Kept
<1> QED BY <1>1, <1>2 DEF Changes, Elsewhere, Kept, d

\* To the agents that a group blocks.
LEMMA BlockedChange ==
    ASSUME DbOK(db), NEW g \in Groups, NEW t,
           \A h \in Groups \ {g}, a \in Agents : <<h, a>> \in t <=> <<h, a>> \in db.blocked
    PROVE  Changes([db EXCEPT !.blocked = t], {g}, {})
<1> DEFINE d == [db EXCEPT !.blocked = t]
<1>1. Kept(d, {"blocked"}) /\ d.blocked = t
  BY DEF Kept, DbOK, DbType
<1> HIDE DEF d
<1>2. SameApis(d)
  BY <1>1 DEF SameApis, Kept
<1> QED BY <1>1, <1>2 DEF Changes, Elsewhere, Kept, d

\* To the models of sub-keys.
LEMMA KeyAllowedChange ==
    ASSUME DbOK(db), NEW K, NEW t,
           \A k \in Keys \ K, m \in Models : <<k, m>> \in t <=> <<k, m>> \in db.keyAllowed
    PROVE  Changes([db EXCEPT !.keyAllowed = t], {}, K)
<1> DEFINE d == [db EXCEPT !.keyAllowed = t]
<1>1. Kept(d, {"keyAllowed"}) /\ d.keyAllowed = t
  BY DEF Kept, DbOK, DbType
<1> HIDE DEF d
<1>2. SameApis(d)
  BY <1>1 DEF SameApis, Kept
<1> QED BY <1>1, <1>2 DEF Changes, Elsewhere, Kept, d

\* To the servers of sub-keys.
LEMMA KeyServersChange ==
    ASSUME DbOK(db), NEW K, NEW t,
           \A k \in Keys \ K, s \in Servers : <<k, s>> \in t <=> <<k, s>> \in db.keyServers
    PROVE  Changes([db EXCEPT !.keyServers = t], {}, K)
<1> DEFINE d == [db EXCEPT !.keyServers = t]
<1>1. Kept(d, {"keyServers"}) /\ d.keyServers = t
  BY DEF Kept, DbOK, DbType
<1> HIDE DEF d
<1>2. SameApis(d)
  BY <1>1 DEF SameApis, Kept
<1> QED BY <1>1, <1>2 DEF Changes, Elsewhere, Kept, d

-----------------------------------------------------------------------------
(* The first statements *)

\* groups.rs
LEMMA GroupHandlersDelete ==
    ASSUME Deletes, TypeInv', NEW j \in Jobs,
           \/ CreateGroup(j) \/ UpdateGroup(j) \/ BulkActivate(j) \/ DeleteGroups(j)
           \/ RegenerateGroupKey(j) \/ BulkAssign(j)
    PROVE  Deletes'
<1>0. /\ TypeInv /\ NewInv /\ Given(j) /\ DbOK(db)
      /\ \A g \in Groups : db.group[g] # None => db.group[g] \in GroupRows
  BY Before DEF Deletes
<1>1. CASE CreateGroup(j)
  <2> DEFINE g == j[2]
             row == [api |-> j[3], on |-> TRUE, ct |-> None]
             d == [db EXCEPT !.group[g] = row]
             ts == <<>>
  <2>1. Asked(j, "create_group", TRUE, d, ts)
    BY <1>1 DEF CreateGroup
  <2>2. j[1] = "create_group" /\ j \in waiting
    BY <2>1 DEF Asked, First
  <2>3. g \in Groups /\ j[3] \in ApiKeys /\ Generated(j) = {j[3]}
    BY <1>0, <2>2 DEF Given, Generated
  <2>4. Brings(j) /\ db.group[g] = None /\ Unused(j[3], db) /\ cached[<<"config", j[3]>>] = None
    BY <1>0, <2>2, <2>3 DEF Brings, NewInv, IsToCome
  <2>5. Kept(d, {"group"}) /\ d.group = [db.group EXCEPT ![g] = row]
    BY <1>0 DEF Kept, DbOK, DbType
  <2>6. d.group[g] = row /\ row.api = j[3] /\ row # None /\ \A h \in Groups \ {g} : d.group[h] = db.group[h]
    <3>1. row \in GroupRows
      BY <2>3 DEF GroupRows
    <3> QED BY <1>0, <2>3, <2>5, <3>1, RowsAssumption DEF DbOK, DbType
  <2>7. First(j, "create_group", TRUE, d, ts) /\ excused' = excused
    BY <2>1 DEF Asked
  <2>8. DbOK(d) /\ ts \in Seq(Tasks)
    <3> HIDE DEF d
    <3> QED BY <2>7, AfterFirst
  <2>9. Sound(j, ts)
    BY NoList
  <2> HIDE DEF d, row, ts, g
  <2>10. Lawful(j, d)
    BY <2>2, <2>3, <2>4, <2>5, <2>6 DEF Lawful, Kept, g
  <2>11. Chains(db, d, ts)
    BY <2>5 DEF Kept, Chains
  <2>12. Elsewhere(db, d, {g}, {})
    BY <2>5, <2>6 DEF Elsewhere, Kept
  <2>13. OnEntries(g, d) = {} /\ MasterEntry(g, d) = {<<"config", j[3]>>}
    <3>1. KeysOf(g, d) = {}
      BY <1>0, <2>4, <2>5 DEF KeysOf, Kept, DbOK, Referential
    <3> QED BY <2>6, <3>1 DEF OnEntries, MasterEntry
  <2>14. ASSUME NEW a \in ApiKeys, a # j[3] PROVE Settled(a, db, d)
    <3>1. GroupsWith(a, d) = GroupsWith(a, db)
      BY <2>3, <2>4, <2>6, <2>14 DEF GroupsWith
    <3> QED BY <2>5, <3>1 DEF Settled, KeysWith, Kept
  <2>15. \A e \in ListEntries \cup SettingEntries : Fresh(e, d) = Fresh(e, db)
    BY <2>5, ListsKept DEF Kept
  <2>16. Hits(d, ts, excused)
    BY <1>0, <2>4, <2>8, <2>12, <2>13, <2>14, <2>15, HitsBy
  <2> QED BY <2>7, <2>8, <2>9, <2>10, <2>11, <2>16, FirstKeeps DEF ts
<1>2. CASE UpdateGroup(j)
  <2> DEFINE g == j[2]
             ok == db.group[g] # None /\ (j[3] = None \/ db.server[j[3]] # None)
             row == [db.group[g] EXCEPT !.on = ~@, !.ct = j[3]]
             d == [db EXCEPT !.group[g].on = ~@, !.group[g].ct = j[3]]
  <2>1. Asked(j, "update_group", ok, d, Invalidate(g))
    BY <1>2 DEF UpdateGroup
  <2>2. g \in Groups
    BY <1>0, <2>1 DEF Asked, First, Given
  <2>3. ASSUME ok, DbOK(d) PROVE Changes(d, {g}, {})
    <3>1. Kept(d, {"group"}) /\ d.group = [db.group EXCEPT ![g] = row]
      BY <1>0, <2>2 DEF Kept, DbOK, DbType
    <3>2. row.api = db.group[g].api /\ row # None
      <4>1. j[3] \in Servers \cup {None}
        BY <1>0, <2>1 DEF Asked, First, Given
      <4>2. row \in GroupRows /\ row.api = db.group[g].api
        BY <1>0, <2>2, <2>3, <4>1 DEF GroupRows
      <4> QED BY <4>2, RowsAssumption
    <3> HIDE DEF row, d, g
    <3>3. d.group[g] = row /\ \A h \in Groups \ {g} : d.group[h] = db.group[h]
      BY <1>0, <2>2, <3>1 DEF DbOK, DbType
    <3>4. SameApis(d)
      BY <2>3, <3>1, <3>2, <3>3 DEF SameApis, Kept, g
    <3> QED BY <3>1, <3>3, <3>4 DEF Changes, Elsewhere, Kept
  <2> HIDE DEF d, ok
  <2> QED BY <2>1, <2>3, GroupChanges
<1>3. CASE BulkActivate(j)
  <2> DEFINE found == {g \in j[2] : db.group[g] # None}
             row(g) == IF g \in found THEN [db.group[g] EXCEPT !.on = j[3]] ELSE db.group[g]
             t == [g \in Groups |-> row(g)]
             d == [db EXCEPT !.group = t]
             ts == InvalidateAll(found)
  <2>1. Asked(j, "bulk_activate", TRUE, d, ts)
    BY <1>3 DEF BulkActivate
  <2>2. j[2] \subseteq Groups /\ j[3] \in BOOLEAN
    BY <1>0, <2>1 DEF Asked, First, Given
  <2>3. found \in SUBSET Groups
    BY <2>2
  <2>4. Kept(d, {"group"}) /\ d.group = t
    BY <1>0 DEF Kept, DbOK, DbType
  <2>5. \A g \in Groups : /\ g \notin found => t[g] = db.group[g]
                          /\ g \in found => t[g].api = db.group[g].api /\ t[g] # None /\ db.group[g] # None
    <3>1. ASSUME NEW g \in found PROVE row(g) \in GroupRows /\ row(g).api = db.group[g].api
      BY <1>0, <2>2, <3>1 DEF GroupRows
    <3> QED BY <3>1, RowsAssumption
  <2>6. (\A g \in found : Invalidates(g, ts)) /\ Sound(j, ts)
    BY <2>3, InvalidateAllIs, SoundPlain
  <2> HIDE DEF found, t, ts, d
  <2>7. SameApis(d)
    BY <2>4, <2>5 DEF SameApis, Kept
  <2>8. Changes(d, found, {})
    BY <2>4, <2>5, <2>7 DEF Changes, Elsewhere, Kept
  <2>9. /\ \A g \in Groups \cap found : Invalidates(g, ts)
        /\ \A k \in Keys \cap {} : d.key[k] # None =>
              \/ InList(Del(<<"config", d.key[k].api>>), ts)
              \/ Invalidates(d.key[k].group, ts)
    BY <2>6
  <2> QED BY <2>1, <2>6, <2>8, <2>9, ChangeKeeps
<1>4. CASE DeleteGroups(j)
  <2> DEFINE found == {g \in j[2] : db.group[g] # None}
             ts == InvalidateAll(found) \o <<<<"erase">>>>
             ok == found # {}
  <2>1. Asked(j, "delete_groups", ok, db, ts)
    BY <1>4 DEF DeleteGroups
  <2>2. j[1] = "delete_groups" /\ found \in SUBSET Groups
    BY <1>0, <2>1 DEF Asked, First, Given
  <2>3. Sound(j, ts) /\ ts \in Seq(Tasks)
    <3> DEFINE a == InvalidateAll(found)
               b == <<<<"erase">>>>
    <3>1. a \in Seq(Tasks) /\ \A n \in 1 .. Len(a) : Plain(a[n])
      BY <2>2, InvalidateAllIs, RunsInvalidateAll DEF Runs
    <3>2. b \in Seq(Tasks) /\ Sound(j, b) /\ \A n \in 1 .. Len(b) : b[n][1] \notin Creating
      <4>1. Len(b) = 1 /\ b[1] = <<"erase">> /\ b[1] \in Tasks
        BY DEF Tasks
      <4>2. \A n \in 1 .. Len(b) : b[n] = <<"erase">>
        BY <4>1
      <4> QED BY <4>1, <4>2, SoundPlain DEF Plain, Creating
    <3> HIDE DEF a, b
    <3>3. \A n \in 1 .. Len(a) : /\ \A t \in Need(j, a[n]) : InList(t, b)
                                 /\ a[n][1] \in Creating => n = 1
                                 /\ a[n][1] = "chain" => a[n][2] \in j[2]
      BY <3>1 DEF Plain, Need, Creating
    <3>4. Sound(j, a \o b) /\ a \o b \in Seq(Tasks)
      <4>1. Sound(j, a \o b)
        BY <3>1, <3>2, <3>3, SoundBoth
      <4> QED BY <3>1, <3>2, <4>1
    <3> QED BY <3>4 DEF a, b
  <2> HIDE DEF ts, found, ok
  <2> QED BY <2>1, <2>3, ReadKeeps
<1>5. CASE RegenerateGroupKey(j)
  <2> DEFINE g == j[2]
             a == <<"group_api", db.group[g].api>>
             b == Del(<<"config", db.group[g].api>>)
             ts == <<a, b>> \o Invalidate(g)
             ok == db.group[g] # None
  <2>1. Asked(j, "regenerate_group_key", ok, db, ts)
    BY <1>5 DEF RegenerateGroupKey
  <2>2. g \in Groups
    BY <1>0, <2>1 DEF Asked, First, Given
  <2>3. ASSUME ok PROVE Sound(j, ts) /\ ts \in Seq(Tasks)
    <3> DEFINE m == <<"master", g>>
               s == <<"subs", g>>
               u == <<b, m, s>>
               w == <<a>> \o u
    <3>0. b[1] = "del" /\ a[1] = "group_api" /\ a[2] = db.group[g].api
      BY DEF Del
    <3>1. db.group[g].api \in ApiKeys
      BY <1>0, <2>2, <2>3 DEF GroupRows
    <3>2. a \in Tasks /\ b \in Tasks
      BY <3>1, EntriesAre DEF Tasks, Del
    <3>3. m \in Tasks /\ s \in Tasks /\ Plain(m) /\ Plain(s) /\ Plain(b)
      BY <2>2, <3>0 DEF Tasks, Plain
    <3>7. Need(j, a) = {b, m, s}
      BY DEF Need
    <3>8. Invalidate(g) = <<m, s>>
      BY DEF Invalidate
    <3> HIDE DEF a, b, m, s
    <3>6. w = ts
      BY <3>8
    <3>4. /\ u \in Seq(Tasks) /\ \A n \in 1 .. Len(u) : Plain(u[n])
          /\ InList(b, u) /\ InList(m, u) /\ InList(s, u)
      <4>1. u \in Seq(Tasks) /\ Len(u) = 3 /\ u[1] = b /\ u[2] = m /\ u[3] = s
        BY <3>2, <3>3
      <4> HIDE DEF u
      <4>2. \A n \in 1 .. Len(u) : n = 1 \/ n = 2 \/ n = 3
        BY <4>1
      <4> QED BY <3>3, <4>1, <4>2 DEF InList
    <3>5. Sound(j, w) /\ w \in Seq(Tasks)
      <4> HIDE DEF u
      <4>1. Sound(j, u) /\ \A n \in 1 .. Len(u) : u[n][1] \notin Creating
        BY <3>4, SoundPlain DEF Plain, Creating
      <4>2. <<a>> \in Seq(Tasks) /\ Len(<<a>>) = 1 /\ <<a>>[1] = a
        BY <3>2
      <4>3. \A n \in 1 .. Len(<<a>>) : /\ \A t \in Need(j, <<a>>[n]) : InList(t, u)
                                       /\ <<a>>[n][1] \in Creating => n = 1
                                       /\ <<a>>[n][1] = "chain" => <<a>>[n][2] \in j[2]
        <5>1. \A n \in 1 .. Len(<<a>>) : n = 1
          BY <4>2
        <5>2. \A t \in Need(j, a) : InList(t, u)
          BY <3>4, <3>7
        <5> QED BY <3>0, <4>2, <5>1, <5>2
      <4>4. Sound(j, w)
        BY <3>4, <4>1, <4>2, <4>3, SoundBoth
      <4> QED BY <3>4, <4>2, <4>4
    <3> QED BY <3>5, <3>6
  <2> HIDE DEF ts, ok
  <2> QED BY <2>1, <2>3, ReadKeeps
<1>6. CASE BulkAssign(j)
  <2> DEFINE gs == j[2]
             T == {<<"chain", g>> : g \in gs}
             f == [g \in gs |-> <<"chain", g>>]
             a == SetToSeq(T)
             b == InvalidateAll(gs)
             ts == a \o b
  <2>1. Asked(j, "bulk_assign", TRUE, db, ts)
    BY <1>6 DEF BulkAssign
  <2>2. j[1] = "bulk_assign" /\ gs \in SUBSET Groups
    BY <1>0, <2>1 DEF Asked, First, Given
  <2>3. IsFiniteSet(T)
    <3>1. IsFiniteSet(gs) /\ f \in [gs -> T] /\ \A y \in T : \E x \in gs : f[x] = y
      BY <2>2, RowsAssumption, FS_Subset
    <3> HIDE DEF f, T
    <3> QED BY <3>1, Onto
  <2>4. \A t \in T : t \in Tasks /\ t[1] = "chain" /\ t[2] \in gs
    BY <2>2 DEF Tasks
  <2>5. /\ b \in Seq(Tasks) /\ Sound(j, b) /\ \A n \in 1 .. Len(b) : b[n][1] \notin Creating
        /\ \A g \in gs : Invalidates(g, b)
    BY <2>2, InvalidateAllIs, RunsInvalidateAll, SoundPlain DEF Runs, Plain, Creating
  <2> HIDE DEF T, b
  <2>6. a \in Seq(T)
    BY <2>3, SetToSeqIs
  <2> HIDE DEF a
  <2>7. a \in Seq(Tasks) /\ \A n \in 1 .. Len(a) : a[n] \in T
    BY <2>4, <2>6
  <2>8. ASSUME NEW n \in 1 .. Len(a)
        PROVE  /\ \A t \in Need(j, a[n]) : InList(t, b)
               /\ a[n][1] \in Creating => n = 1
               /\ a[n][1] = "chain" => a[n][2] \in j[2]
    <3>1. a[n][1] = "chain" /\ a[n][2] \in gs
      BY <2>4, <2>7
    <3>2. Need(j, a[n]) = {"master", "subs"} \X gs
      BY <3>1 DEF Need
    <3>3. ASSUME NEW t \in {"master", "subs"} \X gs PROVE InList(t, b)
      <4>1. PICK g \in gs : t = <<"master", g>> \/ t = <<"subs", g>>
        OBVIOUS
      <4> QED BY <2>5, <4>1 DEF Invalidates
    <3> QED BY <3>1, <3>2, <3>3 DEF Creating
  <2>9. Sound(j, ts) /\ ts \in Seq(Tasks)
    <3>1. Sound(j, ts)
      BY <2>5, <2>7, <2>8, SoundBoth
    <3> QED BY <2>5, <2>7, <3>1
  <2> HIDE DEF ts
  <2> QED BY <2>1, <2>9, ReadKeeps
<1> QED BY <1>1, <1>2, <1>3, <1>4, <1>5, <1>6

\* group_servers.rs, servers.rs
LEMMA ServerHandlersDelete ==
    ASSUME Deletes, TypeInv', NEW j \in Jobs,
           \/ AssignServer(j) \/ UpdateAssignment(j) \/ RemoveServer(j)
           \/ CreateServer(j) \/ UpdateServer(j) \/ DeleteServer(j)
    PROVE  Deletes'
<1>0. TypeInv /\ NewInv /\ Given(j) /\ DbOK(db)
  BY Before DEF Deletes
<1>1. CASE AssignServer(j)
  <2> DEFINE row == [on |-> TRUE, row |-> 0]
             ok == /\ db.group[j[2]] # None /\ db.server[j[3]] # None
                   /\ db.chain[<<j[2], j[3]>>] = None
             d == [db EXCEPT !.chain[<<j[2], j[3]>>] = row]
  <2>1. Asked(j, "assign_server", ok, d, Invalidate(j[2]))
    BY <1>1 DEF AssignServer
  <2>2. j[2] \in Groups /\ j[3] \in Servers
    BY <1>0, <2>1 DEF Asked, First, Given
  <2> HIDE DEF row
  <2>3. Changes(d, {j[2]}, {})
    BY <1>0, <2>2, ChainChange
  <2> HIDE DEF d, ok
  <2> QED BY <2>1, <2>3, GroupChanges
<1>2. CASE UpdateAssignment(j)
  <2> DEFINE p == <<j[2], j[3]>>
             row == [on |-> ~db.chain[p].on, row |-> Other(db.chain[p].row)]
             ok == db.chain[p] # None
             d == [db EXCEPT !.chain[<<j[2], j[3]>>] = row]
  <2>1. Asked(j, "update_assignment", ok,
              [db EXCEPT !.chain[<<j[2], j[3]>>] = [on |-> ~@.on, row |-> Other(@.row)]],
              Invalidate(j[2]))
    BY <1>2 DEF UpdateAssignment
  <2>2. j[2] \in Groups /\ j[3] \in Servers
    BY <1>0, <2>1 DEF Asked, First, Given
  <2>3. d = [db EXCEPT !.chain[<<j[2], j[3]>>] = [on |-> ~@.on, row |-> Other(@.row)]]
    BY <1>0, <2>2 DEF DbOK, DbType
  <2>4. Asked(j, "update_assignment", ok, d, Invalidate(j[2]))
    BY <2>1, <2>3
  <2> HIDE DEF row
  <2>5. Changes(d, {j[2]}, {})
    BY <1>0, <2>2, ChainChange
  <2> HIDE DEF d, ok
  <2> QED BY <2>4, <2>5, GroupChanges
<1>3. CASE RemoveServer(j)
  <2> DEFINE ok == db.chain[<<j[2], j[3]>>] # None
             d == [db EXCEPT !.chain[<<j[2], j[3]>>] = None]
  <2>1. Asked(j, "remove_server", ok, d, Invalidate(j[2]))
    BY <1>3 DEF RemoveServer
  <2>2. j[2] \in Groups /\ j[3] \in Servers
    BY <1>0, <2>1 DEF Asked, First, Given
  <2>3. Changes(d, {j[2]}, {})
    BY <1>0, <2>2, ChainChange
  <2> HIDE DEF d, ok
  <2> QED BY <2>1, <2>3, GroupChanges
<1>4. CASE CreateServer(j)
  <2> DEFINE s == j[2]
             d == [db EXCEPT !.server[s] = 0]
             ts == <<>>
  <2>1. Asked(j, "create_server", TRUE, d, ts)
    BY <1>4 DEF CreateServer
  <2>2. s \in Servers /\ j[1] = "create_server" /\ j \in waiting
    BY <1>0, <2>1 DEF Asked, First, Given
  <2>3. Brings(j) /\ db.server[s] = None
    BY <1>0, <2>2 DEF Brings, NewInv, IsToCome
  <2>4. Kept(d, {"server"}) /\ d.server = [db.server EXCEPT ![s] = 0]
    BY <1>0 DEF Kept, DbOK, DbType
  <2>5. First(j, "create_server", TRUE, d, ts) /\ excused' = excused
    BY <2>1 DEF Asked
  <2> HIDE DEF d, ts
  <2>6. DbOK(d) /\ ts \in Seq(Tasks)
    BY <2>5, AfterFirst
  <2>7. \A t \in Servers \ {s} : d.server[t] = db.server[t]
    BY <1>0, <2>4 DEF DbOK, DbType
  <2>8. UsersOf(s, db) = {}
    BY <1>0, <2>2, <2>3, RowsAssumption DEF UsersOf, DbOK, Referential
  <2>9. Elsewhere(db, d, {}, {})
    BY <2>4, <2>7, <2>8 DEF Elsewhere, Kept
  <2>10. SameApis(d)
    BY <2>4 DEF SameApis, Kept
  <2>11. \A a \in ApiKeys : Settled(a, db, d)
    BY <2>10, SameSettled
  <2>12. \A e \in ListEntries \cup SettingEntries : Fresh(e, d) = Fresh(e, db)
    BY <2>4, ListsKept DEF Kept
  <2>13. Hits(d, ts, excused)
    BY <1>0, <2>6, <2>9, <2>11, <2>12, HitsBy
  <2>14. Chains(db, d, ts)
    BY <2>4 DEF Chains, Kept
  <2>15. Lawful(j, d)
    BY <2>2, <2>3, <2>7, <2>10 DEF Lawful, SameApis
  <2>16. ts = <<>> /\ Sound(j, ts)
    BY NoList DEF ts
  <2> QED BY <2>5, <2>6, <2>13, <2>14, <2>15, <2>16, FirstKeeps
<1>5. CASE UpdateServer(j)
  <2> DEFINE s == j[2]
             t == [db.server EXCEPT ![s] = Other(@)]
             d == [db EXCEPT !.server = t]
             u == <<"users", s>>
             ts == <<u>>
             ok == db.server[s] # None
  <2>1. Asked(j, "update_server", ok, [db EXCEPT !.server[s] = Other(@)], ts)
    BY <1>5 DEF UpdateServer
  <2>2. s \in Servers
    BY <1>0, <2>1 DEF Asked, First, Given
  <2>3. d = [db EXCEPT !.server[s] = Other(@)]
    BY <1>0, <2>2 DEF DbOK, DbType
  <2>4. First(j, "update_server", ok, d, ts) /\ excused' = excused
    BY <2>1, <2>3 DEF Asked
  <2>5. \A r \in Servers : r # s => t[r] = db.server[r]
    BY <1>0 DEF DbOK, DbType
  <2>6. Kept(d, {"server"})
    BY <1>0 DEF Kept, DbOK, DbType
  <2>7. u \in Tasks /\ u[1] = "users" /\ u[2] = s
    BY <2>2 DEF Tasks
  <2>8. Len(ts) = 1 /\ ts[1] = u /\ InList(u, ts)
    BY DEF InList
  <2>9. Sound(j, ts)
    <3>1. \A n \in 1 .. Len(ts) : Plain(ts[n])
      BY <2>8 DEF Plain
    <3> QED BY <3>1, SoundPlain
  <2> HIDE DEF u, ts, t
  <2>10. ASSUME ok, DbOK(d) PROVE Steady(d) /\ Chains(db, d, ts) /\ Hits(d, ts, excused)
    <3>1. Changes(d, UsersOf(s, db), {})
      BY <1>0, <2>2, <2>5, <2>10, ServerChange
    <3> HIDE DEF d
    <3>2. UsersOf(s, d) = UsersOf(s, db)
      BY <2>6 DEF UsersOf, Kept
    <3>3. ASSUME NEW g \in UsersOf(s, db), NEW e \in MasterEntry(g, d) \cup OnEntries(g, d)
          PROVE  Covered(e, ts, d)
      <4>1. e \in Sure(u, d)
        <5>1. Sure(u, d) = UNION {MasterEntry(h, d) \cup OnEntries(h, d) : h \in UsersOf(s, d)}
          BY <2>7 DEF Sure
        <5> QED BY <3>2, <3>3, <5>1
      <4> QED BY <2>8, <4>1, Covers
    <3>4. \A a \in ApiKeys : Settled(a, db, d)
      BY <3>1, SameSettled DEF Changes
    <3>5. \A e \in ListEntries \cup SettingEntries : Fresh(e, d) = Fresh(e, db)
      BY <2>6, ListsKept DEF Kept
    <3>6. Elsewhere(db, d, UsersOf(s, db), {})
      BY <3>1 DEF Changes
    <3>7. Hits(d, ts, excused)
      BY <1>0, <2>10, <3>3, <3>4, <3>5, <3>6, HitsBy
    <3>8. Steady(d)
      BY <3>1 DEF Changes, SameApis, Steady
    <3>9. Chains(db, d, ts)
      BY <2>6 DEF Chains, Kept
    <3> QED BY <3>7, <3>8, <3>9
  <2> HIDE DEF ok, d
  <2>11. ok => DbOK(d) /\ ts \in Seq(Tasks)
    BY <2>4, AfterFirst
  <2>12. ok => /\ Lawful(j, d) /\ Chains(db, d, ts) /\ Hits(d, ts, excused') /\ Sound(j, ts)
               /\ Steady(d)
               /\ ts \in Seq(Tasks)
    BY <2>4, <2>9, <2>10, <2>11, SteadyIsLawful
  <2> QED BY <2>4, <2>12, FirstKeeps
<1>6. CASE DeleteServer(j)
  <2> DEFINE a == <<"drop_server">>
             ts == <<a>>
             ok == \A g \in Groups : db.chain[<<g, j[2]>>] = None
  <2>1. Asked(j, "delete_server", ok, db, ts)
    BY <1>6 DEF DeleteServer
  <2>2. a \in Tasks /\ Plain(a)
    BY DEF Tasks, Plain
  <2> HIDE DEF a
  <2>3. Sound(j, ts) /\ ts \in Seq(Tasks)
    <3>1. ts \in Seq(Tasks) /\ Len(ts) = 1 /\ ts[1] = a
      BY <2>2
    <3> HIDE DEF ts
    <3>2. \A n \in 1 .. Len(ts) : Plain(ts[n])
      BY <2>2, <3>1
    <3> QED BY <3>1, <3>2, SoundPlain
  <2> HIDE DEF ts, ok
  <2> QED BY <2>1, <2>3, ReadKeeps
<1> QED BY <1>1, <1>2, <1>3, <1>4, <1>5, <1>6

\* A write and the one task that it relies on.
LEMMA SoundPair ==
    ASSUME NEW j, NEW a \in Tasks, NEW b \in Tasks, a[1] # "chain", Need(j, a) \subseteq {b}, Plain(b)
    PROVE  Sound(j, <<a, b>>) /\ <<a, b>> \in Seq(Tasks)
<1> DEFINE s == <<a, b>>
<1>1. s \in Seq(Tasks) /\ Len(s) = 2 /\ s[1] = a /\ s[2] = b
  OBVIOUS
<1> HIDE DEF s
<1>2. ASSUME NEW n \in 1 .. Len(s)
      PROVE  /\ \A u \in Need(j, s[n]) : \E m \in (n + 1) .. Len(s) : s[m] = u
             /\ s[n][1] \in Creating => n = 1
             /\ s[n][1] = "chain" => s[n][2] \in j[2]
  <2>1. CASE n = 1
    <3>1. 2 \in (n + 1) .. Len(s)
      BY <1>1, <2>1
    <3> QED BY <1>1, <2>1, <3>1
  <2>2. CASE n = 2
    BY <1>1, <2>2 DEF Plain, Need, Creating
  <2> QED BY <1>1, <1>2, <2>1, <2>2
<1> QED BY <1>1, <1>2 DEF Sound, s

\* A write and the invalidation that it relies on.
LEMMA SoundThenInvalidate ==
    ASSUME NEW j, NEW a \in Tasks, NEW g \in Groups, a[1] \notin Creating \cup {"chain"},
           Need(j, a) \subseteq {<<"master", g>>, <<"subs", g>>}
    PROVE  Sound(j, <<a>> \o Invalidate(g)) /\ <<a>> \o Invalidate(g) \in Seq(Tasks)
<1> DEFINE s == <<a>>
           u == Invalidate(g)
<1>1. s \in Seq(Tasks) /\ Len(s) = 1 /\ s[1] = a
  OBVIOUS
<1>2. u \in Seq(Tasks) /\ Len(u) = 2 /\ Invalidates(g, u) /\ \A n \in 1 .. Len(u) : Plain(u[n])
  BY InvalidateIs, RunsInvalidate DEF Runs
<1> HIDE DEF s, u
<1>3. Sound(j, u) /\ \A n \in 1 .. Len(u) : u[n][1] \notin Creating
  BY <1>2, SoundPlain DEF Plain, Creating
<1>4. ASSUME NEW n \in 1 .. Len(s)
      PROVE  /\ \A t \in Need(j, s[n]) : InList(t, u)
             /\ s[n][1] \in Creating => n = 1
             /\ s[n][1] = "chain" => s[n][2] \in j[2]
  <2>1. n = 1
    BY <1>1
  <2> QED BY <1>1, <1>2, <2>1 DEF Invalidates
<1>5. Sound(j, s \o u)
  BY <1>1, <1>2, <1>3, <1>4, SoundBoth
<1> QED BY <1>1, <1>2, <1>5 DEF s, u

\* A first statement of a handler that reads a key and queues a write.
LEMMA OfKeyDeletes ==
    ASSUME Deletes, TypeInv', NEW j \in Jobs, NEW kind, NEW ok, NEW task,
           kind \in {"update_key", "delete_key", "regenerate_key", "assign_key_server", "remove_key_server"},
           task \in {"key_api", "drop_key", "link", "unlink"},
           OfKey(j, kind, ok, task)
    PROVE  Deletes'
<1> DEFINE k == j[2]
           a == <<task, db.key[k].api>>
           b == Del(<<"config", db.key[k].api>>)
           ts == <<a, b>>
           v == db.key[k] # None /\ ok
<1>1. Asked(j, kind, v, db, ts) /\ j[1] = kind
  BY DEF OfKey
<1>2. k \in Keys /\ DbOK(db)
  BY <1>1, Before DEF Given, Deletes
<1>3. ASSUME v PROVE Sound(j, ts) /\ ts \in Seq(Tasks)
  <2>1. db.key[k].api \in ApiKeys
    BY <1>2, <1>3 DEF DbOK, DbType, KeyRows
  <2>2. a \in Tasks /\ b \in Tasks
    BY <2>1, EntriesAre DEF Tasks, Del
  <2>3. Need(j, a) = {b} /\ a[1] # "chain"
    BY DEF Need
  <2>4. Plain(b)
    BY DEF Plain, Del
  <2> HIDE DEF a, b
  <2> QED BY <2>2, <2>3, <2>4, SoundPair
<1> HIDE DEF ts, v
<1> QED BY <1>1, <1>3, ReadKeeps

\* group_keys.rs, group_key_servers.rs
LEMMA KeyHandlersDelete ==
    ASSUME Deletes, TypeInv', NEW j \in Jobs,
           \/ CreateKey(j) \/ UpdateKey(j) \/ RegenerateKey(j) \/ DeleteKey(j)
           \/ AssignKeyServer(j) \/ RemoveKeyServer(j)
    PROVE  Deletes'
<1>0. /\ TypeInv /\ NewInv /\ Given(j) /\ DbOK(db)
      /\ \A k \in Keys : db.key[k] # None => db.key[k] \in KeyRows
  BY Before DEF Deletes
<1>1. CASE CreateKey(j)
  <2> DEFINE a == <<"insert_key", db.limit>>
             ts == <<a>>
             ok == db.group[j[3]] # None
  <2>1. Asked(j, "create_key", ok, db, ts)
    BY <1>1 DEF CreateKey
  <2>2. a \in Tasks /\ a[1] = "insert_key" /\ Need(j, a) = {}
    BY <1>0 DEF Tasks, Need, DbOK, DbType
  <2> HIDE DEF a
  <2>3. Sound(j, ts) /\ ts \in Seq(Tasks)
    <3>1. ts \in Seq(Tasks) /\ Len(ts) = 1 /\ ts[1] = a
      BY <2>2
    <3> HIDE DEF ts
    <3>2. \A n \in 1 .. Len(ts) : n = 1
      BY <3>1
    <3> QED BY <2>2, <3>1, <3>2 DEF Sound
  <2> HIDE DEF ts, ok
  <2> QED BY <2>1, <2>3, ReadKeeps
<1>2. CASE UpdateKey(j)
  <2> DEFINE k == j[2]
             row == [db.key[k] EXCEPT !.on = ~@]
             b == Del(<<"config", db.key[k].api>>)
             ts == <<b>>
             ok == db.key[k] # None
             d == [db EXCEPT !.key[k].on = ~@]
  <2>1. Asked(j, "update_key", ok, d, ts) /\ j[1] = "update_key"
    BY <1>2 DEF UpdateKey
  <2>2. k \in Keys
    BY <1>0, <2>1 DEF Given
  <2>3. ASSUME ok, DbOK(d)
        PROVE  /\ Changes(d, {}, {k}) /\ Sound(j, ts)
               /\ InList(Del(<<"config", d.key[k].api>>), ts)
    <3>1. Kept(d, {"key"}) /\ d.key = [db.key EXCEPT ![k] = row]
      BY <1>0, <2>2 DEF Kept, DbOK, DbType
    <3>2. /\ row \in KeyRows /\ row.api = db.key[k].api /\ row.group = db.key[k].group
      BY <1>0, <2>2, <2>3 DEF KeyRows
    <3>3. Plain(b)
      BY DEF Plain, Del
    <3> HIDE DEF row, d
    <3>4. d.key[k] = row /\ row # None /\ \A l \in Keys \ {k} : d.key[l] = db.key[l]
      BY <1>0, <2>2, <3>1, <3>2, RowsAssumption DEF DbOK, DbType
    <3>5. SameApis(d)
      BY <2>3, <3>1, <3>2, <3>4 DEF SameApis, Kept
    <3>6. Changes(d, {}, {k})
      BY <3>1, <3>4, <3>5 DEF Changes, Elsewhere, Kept
    <3>7. b = Del(<<"config", d.key[k].api>>)
      BY <3>2, <3>4
    <3> HIDE DEF b
    <3>8. Len(ts) = 1 /\ ts[1] = b
      OBVIOUS
    <3> HIDE DEF ts
    <3>9. InList(b, ts) /\ \A n \in 1 .. Len(ts) : Plain(ts[n])
      BY <3>3, <3>8 DEF InList
    <3> QED BY <3>6, <3>7, <3>9, SoundPlain
  <2> HIDE DEF ts, ok, d, k
  <2>4. ok /\ DbOK(d) => /\ Changes(d, {}, {k}) /\ Sound(j, ts)
                         /\ \A g \in Groups \cap {} : Invalidates(g, ts)
                         /\ \A l \in Keys \cap {k} : d.key[l] # None =>
                               \/ InList(Del(<<"config", d.key[l].api>>), ts)
                               \/ Invalidates(d.key[l].group, ts)
    BY <2>3
  <2> QED BY <2>1, <2>4, ChangeKeeps
<1>3. CASE RegenerateKey(j)
  <2> DEFINE ok == TRUE
  <2>1. OfKey(j, "regenerate_key", ok, "key_api")
    BY <1>3 DEF RegenerateKey
  <2> HIDE DEF ok
  <2> QED BY <2>1, OfKeyDeletes
<1>4. CASE DeleteKey(j)
  <2> DEFINE ok == TRUE
  <2>1. OfKey(j, "delete_key", ok, "drop_key")
    BY <1>4 DEF DeleteKey
  <2> HIDE DEF ok
  <2> QED BY <2>1, OfKeyDeletes
<1>5. CASE AssignKeyServer(j)
  <2> DEFINE ok == db.key[j[2]] # None /\ db.chain[<<db.key[j[2]].group, j[3]>>] # None
  <2>1. OfKey(j, "assign_key_server", ok, "link")
    BY <1>5 DEF AssignKeyServer
  <2> HIDE DEF ok
  <2> QED BY <2>1, OfKeyDeletes
<1>6. CASE RemoveKeyServer(j)
  <2> DEFINE ok == TRUE
  <2>1. OfKey(j, "remove_key_server", ok, "unlink")
    BY <1>6 DEF RemoveKeyServer
  <2> HIDE DEF ok
  <2> QED BY <2>1, OfKeyDeletes
<1> QED BY <1>1, <1>2, <1>3, <1>4, <1>5, <1>6

\* The invalidation comes after the write.
LEMMA ThenInvalidate ==
    ASSUME NEW a \in Tasks, NEW g \in Groups PROVE Invalidates(g, <<a>> \o Invalidate(g))
<1> DEFINE m == <<"master", g>>
           s == <<"subs", g>>
           u == <<a, m, s>>
<1>1. Invalidate(g) = <<m, s>>
  BY DEF Invalidate
<1> HIDE DEF m, s
<1>2. u = <<a>> \o Invalidate(g)
  BY <1>1
<1>3. Len(u) = 3 /\ u[2] = m /\ u[3] = s
  OBVIOUS
<1> HIDE DEF u
<1>4. InList(m, u) /\ InList(s, u)
  BY <1>3 DEF InList
<1> QED BY <1>2, <1>4 DEF Invalidates, m, s

\* A write that leaves API keys, servers and chains alone.
LEMMA KeptSteady ==
    ASSUME NEW d, Kept(d, {"keyServers", "model", "allowed", "keyAllowed", "blocked", "lists"}), NEW ts
    PROVE  Steady(d) /\ Chains(db, d, ts) /\ SameApis(d)
BY DEF Kept, Steady, Chains, SameApis

\* A write whose stale entries are known.
LEMMA KnownHit ==
    ASSUME NEW d, NEW ts, NEW ex, Outdates(d) \subseteq ex PROVE Hits(d, ts, ex)
BY DEF Hits

\* group_allowed_models.rs, group_key_allowed_models.rs
LEMMA AllowHandlersDelete ==
    ASSUME Deletes, TypeInv', NEW j \in Jobs,
           AllowModel(j) \/ DisallowModel(j) \/ AllowKeyModel(j) \/ DisallowKeyModel(j)
    PROVE  Deletes'
<1>0. TypeInv /\ NewInv /\ Given(j) /\ DbOK(db)
  BY Before DEF Deletes
<1>1. CASE AllowModel(j)
  <2> DEFINE g == j[2]
             m == j[3]
             v == IF db.model[m] = None THEN 0 ELSE db.model[m]
             t == [db.model EXCEPT ![m] = v]
             d == [db EXCEPT !.model = t]
             a == <<"allow">>
             ts == <<a>> \o Invalidate(g)
  <2>1. /\ Asked(j, "allow_model", TRUE, [db EXCEPT !.model[m] = IF @ = None THEN 0 ELSE @], ts)
        /\ j[1] = "allow_model"
    BY <1>1 DEF AllowModel, Asked, First
  <2>2. g \in Groups /\ m \in Models
    BY <1>0, <2>1 DEF Given
  <2>3. [db EXCEPT !.model[m] = IF @ = None THEN 0 ELSE @] = d
    BY <1>0, <2>2 DEF DbOK, DbType
  <2>4. Asked(j, "allow_model", TRUE, d, ts)
    BY <2>1, <2>3
  <2>5. a \in Tasks /\ a[1] = "allow" /\ Need(j, a) = {<<"master", g>>, <<"subs", g>>}
    BY DEF Tasks, Need
  <2>6. \A n \in Models : \/ t[n] = db.model[n]
                          \/ /\ \A h \in Groups : <<h, n>> \notin db.allowed
                             /\ \A k \in Keys : <<k, n>> \notin db.keyAllowed
    <3>1. \A n \in Models : t[n] = db.model[n] \/ db.model[n] = None
      BY <1>0 DEF DbOK, DbType
    <3> HIDE DEF t
    <3> QED BY <1>0, <3>1 DEF DbOK, Referential
  <2> HIDE DEF t, a
  <2>7. Changes(d, {}, {})
    BY <1>0, <2>6, ModelChange
  <2>8. Sound(j, ts)
    BY <2>2, <2>5, SoundThenInvalidate DEF Creating
  <2> HIDE DEF d, ts
  <2>9. /\ \A h \in Groups \cap {} : Invalidates(h, ts)
        /\ \A k \in Keys \cap {} : d.key[k] # None =>
              \/ InList(Del(<<"config", d.key[k].api>>), ts)
              \/ Invalidates(d.key[k].group, ts)
    OBVIOUS
  <2> QED BY <2>4, <2>7, <2>8, <2>9, ChangeKeeps
<1>2. CASE DisallowModel(j)
  <2> DEFINE g == j[2]
             p == <<j[2], j[3]>>
             t == db.allowed \ {p}
             d == [db EXCEPT !.allowed = t]
             a == <<"cascade">>
             ts == <<a>> \o Invalidate(g)
             ok == p \in db.allowed
  <2>1. /\ Asked(j, "disallow_model", ok, [db EXCEPT !.allowed = @ \ {p}], ts)
        /\ j[1] = "disallow_model"
    BY <1>2 DEF DisallowModel, Asked, First
  <2>2. g \in Groups /\ j[3] \in Models
    BY <1>0, <2>1 DEF Given
  <2>3. [db EXCEPT !.allowed = @ \ {p}] = d
    BY <1>0 DEF DbOK, DbType
  <2>4. Asked(j, "disallow_model", ok, d, ts)
    BY <2>1, <2>3
  <2>5. a \in Tasks /\ a[1] = "cascade" /\ Need(j, a) = {<<"master", g>>, <<"subs", g>>}
    BY DEF Tasks, Need
  <2>6. \A h \in Groups \ {g}, n \in Models : <<h, n>> \in t <=> <<h, n>> \in db.allowed
    OBVIOUS
  <2> HIDE DEF t, a
  <2>7. Changes(d, {g}, {})
    BY <1>0, <2>2, <2>6, AllowedChange
  <2>8. Sound(j, ts) /\ Invalidates(g, ts)
    BY <2>2, <2>5, SoundThenInvalidate, ThenInvalidate DEF Creating
  <2> HIDE DEF d, ts, ok, g
  <2>9. /\ \A h \in Groups \cap {g} : Invalidates(h, ts)
        /\ \A k \in Keys \cap {} : d.key[k] # None =>
              \/ InList(Del(<<"config", d.key[k].api>>), ts)
              \/ Invalidates(d.key[k].group, ts)
    BY <2>8
  <2> QED BY <2>4, <2>7, <2>8, <2>9, ChangeKeeps
<1>3. CASE AllowKeyModel(j)
  <2> DEFINE g == j[2]
             a == <<"allow_key">>
             ts == <<a>> \o Invalidate(g)
             ok == <<j[2], j[4]>> \in db.allowed
  <2>1. Asked(j, "allow_key_model", ok, db, ts) /\ j[1] = "allow_key_model"
    BY <1>3 DEF AllowKeyModel, Asked, First
  <2>2. g \in Groups
    BY <1>0, <2>1 DEF Given
  <2>3. a \in Tasks /\ a[1] = "allow_key" /\ Need(j, a) = {<<"master", g>>, <<"subs", g>>}
    BY DEF Tasks, Need
  <2> HIDE DEF a
  <2>4. Sound(j, ts) /\ ts \in Seq(Tasks)
    BY <2>2, <2>3, SoundThenInvalidate DEF Creating
  <2> HIDE DEF ts, ok
  <2> QED BY <2>1, <2>4, ReadKeeps
<1>4. CASE DisallowKeyModel(j)
  <2> DEFINE g == j[2]
             k == j[3]
             p == <<j[3], j[4]>>
             t == db.keyAllowed \ {p}
             d == [db EXCEPT !.keyAllowed = t]
             ts == Invalidate(g)
             ok == p \in db.keyAllowed
  <2>0. [db EXCEPT !.keyAllowed = @ \ {p}] = d
    BY <1>0 DEF DbOK, DbType
  <2>1. /\ First(j, "disallow_key_model", ok, d, ts)
        /\ excused' = IF ok /\ OfOther(j) THEN excused \cup Outdates(d) ELSE excused
    BY <1>4, <2>0 DEF DisallowKeyModel
  <2>2. k \in Keys /\ g \in Groups
    BY <1>0, <2>1 DEF First, Given
  <2>3. \A l \in Keys \ {k}, n \in Models : <<l, n>> \in t <=> <<l, n>> \in db.keyAllowed
    OBVIOUS
  <2>4. ok => db.key[k] # None
    BY <1>0, <2>2 DEF DbOK, Referential
  <2>5. Kept(d, {"keyAllowed"})
    BY <1>0 DEF Kept, DbOK, DbType
  <2> HIDE DEF t
  <2>6. Changes(d, {}, {k})
    BY <1>0, <2>2, <2>3, KeyAllowedChange
  <2>7. Sound(j, ts) /\ Invalidates(g, ts)
    BY InvalidateIs, SoundPlain
  <2> HIDE DEF d, ts, ok
  <2>8. Steady(d) /\ Chains(db, d, ts)
    BY <2>5, KeptSteady DEF Kept
  <2>9. ASSUME ok PROVE Hits(d, ts, excused') /\ ts \in Seq(Tasks)
    <3>1. DbOK(d) /\ ts \in Seq(Tasks)
      BY <2>1, <2>9, AfterFirst
    <3>2. CASE OfOther(j)
      BY <2>1, <2>9, <3>1, <3>2, KnownHit
    <3>3. CASE ~OfOther(j)
      <4>1. d.key[k].group = g
        BY <2>4, <2>5, <2>9, <3>3 DEF OfOther, Kept
      <4> HIDE DEF g, k
      <4>2. /\ \A h \in Groups \cap {} : Invalidates(h, ts)
            /\ \A l \in Keys \cap {k} : d.key[l] # None =>
                  \/ InList(Del(<<"config", d.key[l].api>>), ts)
                  \/ Invalidates(d.key[l].group, ts)
        BY <2>7, <4>1
      <4> QED BY <1>0, <2>6, <3>1, <4>2, ChangesHit
    <3> QED BY <3>1, <3>2, <3>3
  <2>10. excused \subseteq excused'
    BY <2>1
  <2>11. ok => /\ Lawful(j, d) /\ Chains(db, d, ts) /\ Hits(d, ts, excused') /\ Sound(j, ts)
               /\ Steady(d)
               /\ ts \in Seq(Tasks)
    BY <2>7, <2>8, <2>9, SteadyIsLawful
  <2> QED BY <2>1, <2>10, <2>11, FirstKeeps
<1> QED BY <1>1, <1>2, <1>3, <1>4

\* models.rs, group_user_agents.rs
LEMMA ModelHandlersDelete ==
    ASSUME Deletes, TypeInv', NEW j \in Jobs,
           \/ CreateModel(j) \/ UpdateModel(j) \/ DeleteModel(j)
           \/ BlockAgent(j) \/ UnblockAgent(j)
    PROVE  Deletes'
<1>0. TypeInv /\ NewInv /\ Given(j) /\ DbOK(db)
  BY Before DEF Deletes
<1>1. CASE CreateModel(j)
  <2> DEFINE m == j[2]
             t == [db.model EXCEPT ![m] = 0]
             d == [db EXCEPT !.model = t]
             ts == <<>>
             ok == db.model[m] = None
  <2>1. Asked(j, "create_model", ok, [db EXCEPT !.model[m] = 0], ts)
    BY <1>1 DEF CreateModel
  <2>2. m \in Models
    BY <1>0, <2>1 DEF Asked, First, Given
  <2>3. [db EXCEPT !.model[m] = 0] = d
    BY <1>0, <2>2 DEF DbOK, DbType
  <2>4. Asked(j, "create_model", ok, d, ts)
    BY <2>1, <2>3
  <2>5. ASSUME ok
        PROVE  \A n \in Models : \/ t[n] = db.model[n]
                                 \/ /\ \A h \in Groups : <<h, n>> \notin db.allowed
                                    /\ \A k \in Keys : <<k, n>> \notin db.keyAllowed
    <3>1. \A n \in Models : t[n] = db.model[n] \/ db.model[n] = None
      BY <1>0, <2>5 DEF DbOK, DbType
    <3> HIDE DEF t
    <3> QED BY <1>0, <3>1 DEF DbOK, Referential
  <2> HIDE DEF t
  <2>6. ok => Changes(d, {}, {})
    BY <1>0, <2>5, ModelChange
  <2>7. Sound(j, ts)
    BY NoList
  <2> HIDE DEF d, ts, ok
  <2>8. /\ \A h \in Groups \cap {} : Invalidates(h, ts)
        /\ \A k \in Keys \cap {} : d.key[k] # None =>
              \/ InList(Del(<<"config", d.key[k].api>>), ts)
              \/ Invalidates(d.key[k].group, ts)
    OBVIOUS
  <2> QED BY <2>4, <2>6, <2>7, <2>8, ChangeKeeps
<1>2. CASE UpdateModel(j)
  <2> DEFINE m == j[2]
             d == [db EXCEPT !.model[m] = Other(@)]
             ts == <<>>
             ok == db.model[m] # None
  <2>1. /\ First(j, "update_model", ok, d, ts)
        /\ excused' = IF ok THEN excused \cup Outdates(d) ELSE excused
    BY <1>2 DEF UpdateModel
  <2>2. Kept(d, {"model"})
    BY <1>0 DEF Kept, DbOK, DbType
  <2>3. Sound(j, ts) /\ ts \in Seq(Tasks)
    BY NoList
  <2> HIDE DEF d, ts, ok
  <2>4. Steady(d) /\ Chains(db, d, ts)
    BY <2>2, KeptSteady DEF Kept
  <2>5. ok => Hits(d, ts, excused')
    BY <2>1, KnownHit
  <2>6. excused \subseteq excused'
    BY <2>1
  <2>7. ok => /\ Lawful(j, d) /\ Chains(db, d, ts) /\ Hits(d, ts, excused') /\ Sound(j, ts)
              /\ Steady(d)
              /\ ts \in Seq(Tasks)
    BY <2>3, <2>4, <2>5, SteadyIsLawful
  <2> QED BY <2>1, <2>6, <2>7, FirstKeeps
<1>3. CASE DeleteModel(j)
  <2> DEFINE a == <<"drop_model">>
             ts == <<a>>
             ok == \A g \in Groups : <<g, j[2]>> \notin db.allowed
  <2>1. Asked(j, "delete_model", ok, db, ts)
    BY <1>3 DEF DeleteModel
  <2>2. a \in Tasks /\ Plain(a)
    BY DEF Tasks, Plain
  <2> HIDE DEF a
  <2>3. Sound(j, ts) /\ ts \in Seq(Tasks)
    <3>1. ts \in Seq(Tasks) /\ Len(ts) = 1 /\ ts[1] = a
      BY <2>2
    <3> HIDE DEF ts
    <3>2. \A n \in 1 .. Len(ts) : Plain(ts[n])
      BY <2>2, <3>1
    <3> QED BY <3>1, <3>2, SoundPlain
  <2> HIDE DEF ts, ok
  <2> QED BY <2>1, <2>3, ReadKeeps
<1>4. CASE BlockAgent(j)
  <2> DEFINE g == j[2]
             t == db.blocked \cup {<<j[2], j[3]>>}
             d == [db EXCEPT !.blocked = t]
             ok == db.group[g] # None
  <2>1. Asked(j, "block_agent", ok, [db EXCEPT !.blocked = @ \cup {<<j[2], j[3]>>}], Invalidate(g))
    BY <1>4 DEF BlockAgent
  <2>2. g \in Groups
    BY <1>0, <2>1 DEF Asked, First, Given
  <2>3. [db EXCEPT !.blocked = @ \cup {<<j[2], j[3]>>}] = d
    BY <1>0 DEF DbOK, DbType
  <2>4. Asked(j, "block_agent", ok, d, Invalidate(g))
    BY <2>1, <2>3
  <2>5. \A h \in Groups \ {g}, n \in Agents : <<h, n>> \in t <=> <<h, n>> \in db.blocked
    OBVIOUS
  <2> HIDE DEF t
  <2>6. Changes(d, {g}, {})
    BY <1>0, <2>2, <2>5, BlockedChange
  <2> HIDE DEF d, ok
  <2> QED BY <2>4, <2>6, GroupChanges
<1>5. CASE UnblockAgent(j)
  <2> DEFINE g == j[2]
             t == db.blocked \ {<<j[2], j[3]>>}
             d == [db EXCEPT !.blocked = t]
             ok == TRUE
  <2>1. Asked(j, "unblock_agent", ok, [db EXCEPT !.blocked = @ \ {<<j[2], j[3]>>}], Invalidate(g))
    BY <1>5 DEF UnblockAgent
  <2>2. g \in Groups
    BY <1>0, <2>1 DEF Asked, First, Given
  <2>3. [db EXCEPT !.blocked = @ \ {<<j[2], j[3]>>}] = d
    BY <1>0 DEF DbOK, DbType
  <2>4. Asked(j, "unblock_agent", ok, d, Invalidate(g))
    BY <2>1, <2>3
  <2>5. \A h \in Groups \ {g}, n \in Agents : <<h, n>> \in t <=> <<h, n>> \in db.blocked
    OBVIOUS
  <2> HIDE DEF t
  <2>6. Changes(d, {g}, {})
    BY <1>0, <2>2, <2>5, BlockedChange
  <2> HIDE DEF d, ok
  <2> QED BY <2>4, <2>6, GroupChanges
<1> QED BY <1>1, <1>2, <1>3, <1>4, <1>5

\* A first statement that queues a write and the one task that it relies on.
LEMMA PairKeeps ==
    ASSUME Deletes, TypeInv', NEW j \in Jobs, NEW kind, NEW ok, NEW a, NEW b,
           Asked(j, kind, ok, db, <<a, b>>),
           ok => /\ a \in Tasks /\ b \in Tasks /\ a[1] # "chain" /\ Need(j, a) \subseteq {b}
                 /\ Plain(b)
    PROVE  Deletes'
<1> DEFINE ts == <<a, b>>
<1>1. Asked(j, kind, ok, db, ts)
  OBVIOUS
<1>2. ok => Sound(j, ts) /\ ts \in Seq(Tasks)
  BY SoundPair
<1> HIDE DEF ts
<1> QED BY <1>1, <1>2, ReadKeeps

\* settings.rs, user_endpoints.rs
LEMMA SettingHandlersDelete ==
    ASSUME Deletes, TypeInv', NEW j \in Jobs, PutSettings(j) \/ ChangeEndpoints(j) PROVE Deletes'
<1>0. /\ TypeInv /\ Given(j) /\ DbOK(db) /\ \A v \in Versions : Other(v) \in Versions
  BY Before DEF Deletes
<1>1. CASE PutSettings(j)
  <2> DEFINE merged == [n \in Settings |-> IF n \in j[2] THEN Other(db.setting[n]) ELSE db.setting[n]]
             a == <<"upsert", merged>>
             es == {"setting"} \X j[2]
             s == <<a>>
             u == Dels(es)
             ts == s \o u
             ok == TRUE
  <2>1. Asked(j, "put_settings", ok, db, ts) /\ j[1] = "put_settings"
    BY <1>1 DEF PutSettings, Asked, First
  <2>2. j[2] \subseteq Settings
    BY <1>0, <2>1 DEF Given
  <2>3. a \in Tasks
    <3>1. merged \in [Settings -> Versions]
      BY <1>0 DEF DbOK, DbType
    <3> HIDE DEF merged
    <3> QED BY <3>1 DEF Tasks
  <2>4. es \in SUBSET Entries
    BY <2>2 DEF Entries, SettingEntries
  <2>5. IsFiniteSet(es)
    BY <2>2, RowsAssumption, FS_Subset, FS_Singleton, FS_Product
  <2>6. Need(j, a) = {Del(e) : e \in es} /\ a[1] = "upsert"
    BY DEF Need
  <2> HIDE DEF a, es
  <2>7. /\ s \in Seq(Tasks) /\ Len(s) = 1 /\ s[1] = a
    BY <2>3
  <2>8. u \in Seq(Tasks) /\ \A e \in es : InList(Del(e), u)
    BY <2>4, <2>5, DelsAre, RunsDels DEF Runs
  <2>9. \A n \in 1 .. Len(u) : Plain(u[n])
    BY <2>4, <2>5, DelsAre
  <2> HIDE DEF s, u
  <2>10. Sound(j, u) /\ \A n \in 1 .. Len(u) : u[n][1] \notin Creating
    BY <2>9, SoundPlain DEF Plain, Creating
  <2>11. ASSUME NEW n \in 1 .. Len(s)
         PROVE  /\ \A t \in Need(j, s[n]) : InList(t, u)
                /\ s[n][1] \in Creating => n = 1
                /\ s[n][1] = "chain" => s[n][2] \in j[2]
    <3>1. n = 1
      BY <2>7
    <3> QED BY <2>6, <2>7, <2>8, <3>1
  <2>12. Sound(j, ts)
    BY <2>7, <2>8, <2>10, <2>11, SoundBoth
  <2>13. ts \in Seq(Tasks)
    BY <2>7, <2>8
  <2> HIDE DEF ts, ok
  <2> QED BY <2>1, <2>12, <2>13, ReadKeeps
<1>2. CASE ChangeEndpoints(j)
  <2> DEFINE a == <<"endpoints">>
             b == Del(<<"endpoints", j[2]>>)
             ok == \E k \in {j[2]} : db.key[k] # None /\ db.key[k].on
  <2>1. Asked(j, "change_endpoints", ok, db, <<a, b>>) /\ j[1] = "change_endpoints"
    BY <1>2 DEF ChangeEndpoints, Asked, First
  <2>2. j[2] \in Keys
    BY <1>0, <2>1 DEF Given
  <2>3. a \in Tasks /\ b \in Tasks /\ a[1] # "chain" /\ Need(j, a) \subseteq {b} /\ Plain(b)
    BY <2>2, DelIs, EntriesAre DEF Tasks, Need, Plain, Del
  <2> HIDE DEF a, b, ok
  <2> QED BY <2>1, <2>3, PairKeeps
<1> QED BY <1>1, <1>2

\* key_subscriptions.rs, subscription_plans.rs
LEMMA SubscriptionHandlersDelete ==
    ASSUME Deletes, TypeInv', NEW j \in Jobs,
           Assign(j) \/ Cancel(j) \/ ChangeBonus(j) \/ UpdatePlan(j) \/ SyncPlan(j)
    PROVE  Deletes'
<1>0. /\ TypeInv /\ Given(j) /\ DbOK(db) /\ db.limit \in Versions
      /\ \A v \in Versions : Other(v) \in Versions
  BY Before DEF Deletes, DbOK, DbType
<1> DEFINE b == Del(<<"subs", j[2]>>)
           h == <<"holders">>
<1>1. j[1] \in {"assign", "cancel", "change_bonus"} => b \in Tasks /\ Plain(b)
  BY <1>0, DelIs, EntriesAre DEF Given, Plain, Del
<1>2. h \in Tasks /\ Plain(h)
  BY DEF Tasks, Plain
<1>3. CASE Assign(j)
  <2> DEFINE a == <<"subscribe", db.limit>>
             ok == TRUE
  <2>1. Asked(j, "assign", ok, db, <<a, b>>) /\ j[1] = "assign"
    BY <1>3 DEF Assign, Asked, First
  <2>2. a \in Tasks /\ a[1] # "chain" /\ Need(j, a) \subseteq {b}
    BY <1>0 DEF Tasks, Need
  <2> HIDE DEF a, b, ok
  <2> QED BY <1>1, <2>1, <2>2, PairKeeps
<1>4. CASE Cancel(j)
  <2> DEFINE a == <<"cancelled">>
             ok == \E s \in {db.subs[j[2]]} : s # None /\ s.active
  <2>1. Asked(j, "cancel", ok, db, <<a, b>>) /\ j[1] = "cancel"
    BY <1>4 DEF Cancel, Asked, First
  <2>2. a \in Tasks /\ a[1] # "chain" /\ Need(j, a) \subseteq {b}
    BY DEF Tasks, Need
  <2> HIDE DEF a, b, ok
  <2> QED BY <1>1, <2>1, <2>2, PairKeeps
<1>5. CASE ChangeBonus(j)
  <2> DEFINE a == <<"bonus">>
             ok == db.subs[j[2]] # None
  <2>1. Asked(j, "change_bonus", ok, db, <<a, b>>) /\ j[1] = "change_bonus"
    BY <1>5 DEF ChangeBonus, Asked, First
  <2>2. a \in Tasks /\ a[1] # "chain" /\ Need(j, a) \subseteq {b}
    BY DEF Tasks, Need
  <2> HIDE DEF a, b, ok
  <2> QED BY <1>1, <2>1, <2>2, PairKeeps
<1>6. CASE UpdatePlan(j)
  <2> DEFINE a == <<"sync", Other(db.limit)>>
             d == [db EXCEPT !.limit = Other(@)]
             ts == <<a, h>>
             ok == TRUE
  <2>1. Asked(j, "update_plan", ok, d, ts)
    BY <1>6 DEF UpdatePlan
  <2>2. a \in Tasks /\ a[1] # "chain" /\ Need(j, a) \subseteq {h}
    BY <1>0 DEF Tasks, Need
  <2> HIDE DEF a, h
  <2>3. Sound(j, ts)
    BY <1>2, <2>2, SoundPair
  <2>4. Kept(d, {})
    BY <1>0 DEF Kept, DbOK, DbType
  <2> HIDE DEF d, ts, ok
  <2>5. Changes(d, {}, {})
    BY <2>4 DEF Kept, Changes, Elsewhere, SameApis
  <2>6. /\ \A g \in Groups \cap {} : Invalidates(g, ts)
        /\ \A k \in Keys \cap {} : d.key[k] # None =>
              \/ InList(Del(<<"config", d.key[k].api>>), ts)
              \/ Invalidates(d.key[k].group, ts)
    OBVIOUS
  <2> QED BY <2>1, <2>3, <2>5, <2>6, ChangeKeeps
<1>7. CASE SyncPlan(j)
  <2> DEFINE a == <<"sync", db.limit>>
             ok == TRUE
  <2>1. Asked(j, "sync_plan", ok, db, <<a, h>>)
    BY <1>7 DEF SyncPlan
  <2>2. a \in Tasks /\ a[1] # "chain" /\ Need(j, a) \subseteq {h}
    BY <1>0 DEF Tasks, Need
  <2> HIDE DEF a, h, ok
  <2> QED BY <1>2, <2>1, <2>2, PairKeeps
<1> QED BY <1>3, <1>4, <1>5, <1>6, <1>7

-----------------------------------------------------------------------------
(* The statements that follow *)

\* What a statement leaves is as it must be.
LEMMA AfterThen ==
    ASSUME TypeInv', NEW j, NEW refused, NEW d, NEW raced, Then(j, refused, d, raced), ~refused
    PROVE  DbOK(d)
BY DEF Then, TypeInv, TypeOK, DbOK

\* A handler that is at a write.
LEMMA AtWrite ==
    ASSUME Deletes, NEW j \in Jobs, NEW kind, Doing(j, kind), kind \notin Selects \cup {"del"}
    PROVE  /\ todo[j] # <<>> /\ Head(todo[j])[1] = kind
           /\ Head(todo[j])[1] \notin Selects \cup {"del"}
           /\ Head(todo[j]) \in Tasks /\ TaskOf(j, Head(todo[j])) /\ Tail(todo[j]) \in Seq(Tasks)
           /\ \A t \in Need(j, Head(todo[j])) : InList(t, Tail(todo[j]))
           /\ Head(todo[j])[1] = "chain" => Head(todo[j])[2] \in j[2]
           /\ kind \in Creating => Brings(j)
BY Running DEF Doing, Brings

\* A write that changes configurations and invalidates them, unless it was raced.
LEMMA ThenChanges ==
    ASSUME Deletes, TypeInv', NEW j \in Jobs, NEW kind, Doing(j, kind),
           kind \notin Selects \cup {"del"},
           NEW refused, NEW d, NEW raced, Then(j, refused, d, raced), NEW G, NEW K,
           ~refused => Changes(d, G, K) /\ Kept(d, {"server", "keyServers", "model", "allowed",
                                                    "keyAllowed", "blocked", "chain"}),
           ~refused /\ ~raced =>
               /\ \A g \in Groups \cap G : Invalidates(g, Tail(todo[j]))
               /\ \A k \in Keys \cap K : d.key[k] # None =>
                     \/ InList(Del(<<"config", d.key[k].api>>), Tail(todo[j]))
                     \/ Invalidates(d.key[k].group, Tail(todo[j])),
           ~refused /\ raced => d.chain = db.chain
    PROVE  Deletes'
<1>1. todo[j] # <<>> /\ Head(todo[j])[1] \notin Selects \cup {"del"}
  BY AtWrite
<1>2. DbOK(db)
  BY Before DEF Deletes
<1> DEFINE ts == Tail(todo[j])
<1> HIDE DEF ts
<1>3. ASSUME ~refused
      PROVE  Steady(d) /\ Chains(db, d, ts) /\ (raced \/ Hits(d, ts, excused))
  <2>1. DbOK(d)
    BY <1>3, AfterThen
  <2>2. CASE ~raced
    <3>1. Changes(d, G, K)
      BY <1>3
    <3>2. /\ \A g \in Groups \cap G : Invalidates(g, ts)
          /\ \A k \in Keys \cap K : d.key[k] # None =>
                \/ InList(Del(<<"config", d.key[k].api>>), ts)
                \/ Invalidates(d.key[k].group, ts)
      BY <1>3, <2>2 DEF ts
    <3> QED BY <1>2, <2>1, <3>1, <3>2, ChangesHit
  <2>3. CASE raced
    <3>1. Steady(d)
      BY <1>3 DEF Changes, SameApis, Steady
    <3>2. Chains(db, d, ts)
      BY <1>3, <2>3 DEF Chains
    <3> QED BY <2>3, <3>1, <3>2
  <2> QED BY <2>2, <2>3
<1> QED BY <1>1, <1>3, SteadyIsLawful, ThenDeletes DEF ts

\* A write of lists or settings deletes those that it changes.
LEMMA ListsHit ==
    ASSUME DbOK(db), NEW d, DbOK(d), NEW ts, NEW ex, Kept(d, {"lists"}),
           \A e \in ListEntries \cup SettingEntries : Fresh(e, d) = Fresh(e, db) \/ Covered(e, ts, d)
    PROVE  Steady(d) /\ Chains(db, d, ts) /\ Hits(d, ts, ex)
<1>1. Steady(d) /\ Chains(db, d, ts) /\ SameApis(d)
  BY KeptSteady DEF Kept
<1>2. \A a \in ApiKeys : Settled(a, db, d)
  BY <1>1, SameSettled
<1>3. Elsewhere(db, d, {}, {})
  BY DEF Elsewhere, Kept
<1>4. Hits(d, ts, ex)
  BY <1>2, <1>3, HitsBy
<1> QED BY <1>1, <1>4

\* groups.rs, servers.rs
LEMMA GroupWritesDelete ==
    ASSUME Deletes, TypeInv', NEW j \in Jobs, Erase(j) \/ SetGroupApi(j) \/ Chain(j) \/ DropServer(j)
    PROVE  Deletes'
<1>0. /\ TypeInv /\ NewInv /\ Given(j) /\ DbOK(db)
      /\ \A g \in Groups : db.group[g] # None => db.group[g] \in GroupRows
  BY Before DEF Deletes
<1> DEFINE t == Head(todo[j])
           ts == Tail(todo[j])
<1>1. CASE Erase(j)
  <2> DEFINE gs == j[2]
             ks == UNION {KeysOf(g, db) : g \in gs}
             d == WithoutGroups(gs, db)
             refused == FALSE
             raced == TRUE
  <2>1. Doing(j, "erase") /\ Then(j, refused, d, raced)
    BY <1>1 DEF Erase
  <2>2. /\ todo[j] # <<>> /\ t[1] \notin Selects \cup {"del"}
    BY <2>1, AtWrite DEF Selects
  <2>3. /\ d.group = [g \in Groups |-> IF g \in gs THEN None ELSE db.group[g]]
        /\ d.key = [k \in Keys |-> IF k \in ks THEN None ELSE db.key[k]]
        /\ d.chain = [p \in Groups \X Servers |-> IF p[1] \in gs THEN None ELSE db.chain[p]]
        /\ d.server = db.server
    <3> HIDE DEF gs
    <3> QED BY <1>0 DEF WithoutGroups, WithoutKeys, DbOK, DbType
  <2> HIDE DEF d, gs, ks
  <2>4. Steady(d)
    BY <2>3 DEF Steady
  <2>5. Chains(db, d, ts)
    BY <2>3 DEF Chains
  <2> HIDE DEF refused
  <2> QED BY <2>1, <2>2, <2>4, <2>5, SteadyIsLawful, ThenDeletes
<1>2. CASE SetGroupApi(j)
  <2> DEFINE g == j[2]
             old == db.group[g].api
             row == [db.group[g] EXCEPT !.api = j[3]]
             refused == db.group[g] = None
             raced == db.group[g] # None /\ db.group[g].api # t[2]
             d == [db EXCEPT !.group[g].api = j[3]]
  <2>1. Doing(j, "group_api") /\ Then(j, refused, d, raced)
    BY <1>2 DEF SetGroupApi
  <2>2. /\ todo[j] # <<>> /\ t[1] \notin Selects \cup {"del"} /\ t[1] = "group_api" /\ Brings(j)
        /\ TaskOf(j, t) /\ \A u \in Need(j, t) : InList(u, ts)
    BY <2>1, AtWrite DEF Selects, Creating
  <2>3. j[1] = "regenerate_group_key"
    BY <2>2 DEF TaskOf
  <2>4. g \in Groups /\ j[3] \in ApiKeys /\ Generated(j) = {j[3]}
    BY <1>0, <2>3 DEF Given, Generated
  <2>5. Unused(j[3], db) /\ cached[<<"config", j[3]>>] = None
    BY <1>0, <2>2, <2>4 DEF NewInv, IsToCome
  <2>6. InList(Del(<<"config", t[2]>>), ts) /\ Invalidates(g, ts)
    <3>1. Need(j, t) = {Del(<<"config", t[2]>>), <<"master", j[2]>>, <<"subs", j[2]>>}
      BY <2>2 DEF Need
    <3> QED BY <2>2, <3>1 DEF Invalidates
  <2>7. ASSUME ~refused
        PROVE  /\ Lawful(j, d) /\ Chains(db, d, ts)
               /\ raced \/ Hits(d, ts, excused)
    <3>1. DbOK(d)
      <4> HIDE DEF d, raced
      <4> QED BY <2>1, <2>7, AfterThen
    <3>2. Kept(d, {"group"}) /\ d.group = [db.group EXCEPT ![g] = row]
      BY <1>0, <2>4 DEF Kept, DbOK, DbType
    <3>3. row \in GroupRows /\ row.api = j[3]
      BY <1>0, <2>4, <2>7 DEF GroupRows
    <3> HIDE DEF d, row
    <3>4. d.group[g] = row /\ row # None /\ \A h \in Groups \ {g} : d.group[h] = db.group[h]
      BY <1>0, <2>4, <3>2, <3>3, RowsAssumption DEF DbOK, DbType
    <3> HIDE DEF t, ts, raced
    <3>5. Lawful(j, d)
      BY <2>2, <2>3, <2>7, <3>2, <3>3, <3>4 DEF Lawful, Kept
    <3>6. Chains(db, d, ts)
      BY <3>2 DEF Chains, Kept
    <3>7. ASSUME ~raced PROVE Hits(d, ts, excused)
      <4>1. InList(Del(<<"config", old>>), ts)
        BY <2>6, <2>7, <3>7 DEF raced
      <4>2. Covered(<<"config", old>>, ts, d)
        BY <4>1, CoversDel
      <4>3. Elsewhere(db, d, {g}, {})
        BY <3>2, <3>4 DEF Elsewhere, Kept
      <4>4. \A e \in MasterEntry(g, d) \cup OnEntries(g, d) : Covered(e, ts, d)
        BY <2>6, CoversGroup
      <4>5. ASSUME NEW a \in ApiKeys, a # j[3], a # old PROVE Settled(a, db, d)
        <5>1. GroupsWith(a, d) = GroupsWith(a, db)
          BY <2>4, <2>7, <3>3, <3>4, <4>5 DEF GroupsWith
        <5> QED BY <3>2, <5>1 DEF Settled, KeysWith, Kept
      <4>6. \A e \in ListEntries \cup SettingEntries : Fresh(e, d) = Fresh(e, db)
        BY <3>2, ListsKept DEF Kept
      <4>7. \A a \in ApiKeys : \/ Settled(a, db, d)
                               \/ cached[<<"config", a>>] = None
                               \/ Covered(<<"config", a>>, ts, d)
        BY <2>5, <4>2, <4>5
      <4> HIDE DEF g, old
      <4> QED BY <1>0, <3>1, <4>3, <4>4, <4>6, <4>7, HitsBy
    <3> QED BY <3>5, <3>6, <3>7
  <2> HIDE DEF d, refused, raced
  <2> QED BY <2>1, <2>2, <2>7, ThenDeletes
<1>3. CASE Chain(j)
  <2> DEFINE g == t[2]
             s == j[3]
             row == [on |-> TRUE, row |-> 0]
             d == [db EXCEPT !.chain[<<g, s>>] = row]
             refused == db.group[g] = None \/ db.server[s] = None
             raced == FALSE
  <2>1. Doing(j, "chain") /\ Then(j, refused, d, raced)
    BY <1>3 DEF Chain
  <2>2. /\ t[1] = "chain" /\ t \in Tasks /\ TaskOf(j, t) /\ g \in j[2]
        /\ \A u \in Need(j, t) : InList(u, ts)
    BY <2>1, AtWrite DEF Selects
  <2>3. g \in Groups /\ s \in Servers
    BY <1>0, <2>2, TaskIs DEF TaskOf, Given
  <2>4. Invalidates(g, ts)
    <3>1. Need(j, t) = {"master", "subs"} \X j[2]
      BY <2>2 DEF Need
    <3>2. <<"master", g>> \in Need(j, t) /\ <<"subs", g>> \in Need(j, t)
      BY <2>2, <3>1
    <3> QED BY <2>2, <3>2 DEF Invalidates
  <2>5. Kept(d, {"chain"})
    BY <1>0 DEF Kept, DbOK, DbType
  <2> HIDE DEF row
  <2>6. Changes(d, {g}, {})
    BY <1>0, <2>3, ChainChange
  <2> HIDE DEF d, refused, g
  <2>7. Kept(d, {"server", "keyServers", "model", "allowed", "keyAllowed", "blocked", "chain"})
    BY <2>5 DEF Kept
  <2>8. /\ \A h \in Groups \cap {g} : Invalidates(h, Tail(todo[j]))
        /\ \A k \in Keys \cap {} : d.key[k] # None =>
              \/ InList(Del(<<"config", d.key[k].api>>), Tail(todo[j]))
              \/ Invalidates(d.key[k].group, Tail(todo[j]))
    BY <2>4
  <2>9. "chain" \notin Selects \cup {"del"} /\ ~raced
    BY DEF Selects
  <2> HIDE DEF raced
  <2> QED BY <2>1, <2>6, <2>7, <2>8, <2>9, ThenChanges
<1>4. CASE DropServer(j)
  <2> DEFINE s == j[2]
             d == WithoutServer(s, db)
             refused == \/ \E g \in Groups : db.chain[<<g, s>>] # None
                        \/ \E k \in Keys : <<k, s>> \in db.keyServers
             raced == TRUE
  <2>1. Doing(j, "drop_server") /\ Then(j, refused, d, raced)
    BY <1>4 DEF DropServer
  <2>2. todo[j] # <<>> /\ t[1] \notin Selects \cup {"del"} /\ t[1] = "drop_server" /\ TaskOf(j, t)
    BY <2>1, AtWrite DEF Selects
  <2>3. s \in Servers
    BY <1>0, <2>2 DEF TaskOf, Given
  <2>4. /\ d.key = db.key /\ d.chain = db.chain /\ d.server = [db.server EXCEPT ![s] = None]
        /\ d.group = [g \in Groups |-> IF db.group[g] # None /\ db.group[g].ct = s
                                       THEN [db.group[g] EXCEPT !.ct = None] ELSE db.group[g]]
    <3> HIDE DEF s
    <3> QED BY <1>0 DEF WithoutServer, DbOK, DbType
  <2> HIDE DEF d, s
  <2>5. \A g \in Groups : d.group[g] # None => db.group[g] # None /\ d.group[g].api = db.group[g].api
    <3>1. ASSUME NEW g \in Groups, db.group[g] # None
          PROVE  [db.group[g] EXCEPT !.ct = None].api = db.group[g].api
      BY <1>0, <3>1 DEF GroupRows
    <3> QED BY <2>4, <3>1
  <2>6. \A r \in Servers : d.server[r] # None => db.server[r] # None
    BY <1>0, <2>4 DEF DbOK, DbType
  <2>7. Steady(d)
    BY <2>4, <2>5, <2>6 DEF Steady
  <2>8. Chains(db, d, ts)
    BY <2>4 DEF Chains
  <2> HIDE DEF refused
  <2> QED BY <2>1, <2>2, <2>7, <2>8, SteadyIsLawful, ThenDeletes
<1> QED BY <1>1, <1>2, <1>3, <1>4

\* group_keys.rs, group_key_servers.rs
LEMMA KeyWritesDelete ==
    ASSUME Deletes, TypeInv', NEW j \in Jobs,
           InsertKey(j) \/ SetKeyApi(j) \/ DropKey(j) \/ Link(j) \/ Unlink(j)
    PROVE  Deletes'
<1>0. /\ TypeInv /\ NewInv /\ Given(j) /\ DbOK(db)
      /\ \A k \in Keys : db.key[k] # None => db.key[k] \in KeyRows
  BY Before DEF Deletes
<1> DEFINE t == Head(todo[j])
           ts == Tail(todo[j])
           k == j[2]
           old == db.key[k].api
<1>1. CASE InsertKey(j)
  <2> DEFINE row == [group |-> j[3], api |-> j[4], on |-> TRUE]
             subs == IF j[5] THEN [active |-> TRUE, limit |-> t[2], row |-> 0] ELSE None
             d == [db EXCEPT !.key[k] = row, !.subs[k] = subs]
             refused == db.group[j[3]] = None
             raced == FALSE
  <2>1. Doing(j, "insert_key") /\ Then(j, refused, d, raced)
    BY <1>1 DEF InsertKey
  <2>2. /\ todo[j] # <<>> /\ t[1] \notin Selects \cup {"del"} /\ t[1] = "insert_key" /\ Brings(j)
        /\ TaskOf(j, t)
    BY <2>1, AtWrite DEF Selects, Creating
  <2>3. j[1] = "create_key"
    BY <2>2 DEF TaskOf
  <2>4. k \in Keys /\ j[3] \in Groups /\ j[4] \in ApiKeys /\ Generated(j) = {j[4]}
    BY <1>0, <2>3 DEF Given, Generated
  <2>5. /\ Unused(j[4], db) /\ cached[<<"config", j[4]>>] = None /\ db.key[k] = None
        /\ cached[<<"subs", k>>] = None
    BY <1>0, <2>2, <2>3, <2>4 DEF NewInv, IsToCome
  <2>6. ASSUME ~refused PROVE Lawful(j, d) /\ Chains(db, d, ts) /\ Hits(d, ts, excused)
    <3>1. DbOK(d)
      <4> HIDE DEF d, raced
      <4> QED BY <2>1, <2>6, AfterThen
    <3>2. /\ Kept(d, {"key", "lists"}) /\ d.key = [db.key EXCEPT ![k] = row]
          /\ d.subs = [db.subs EXCEPT ![k] = subs]
          /\ d.setting = db.setting /\ d.endpoints = db.endpoints
      <4> HIDE DEF row, subs
      <4> QED BY <1>0 DEF Kept, DbOK, DbType
    <3>3. row \in KeyRows /\ row.api = j[4] /\ row.group = j[3]
      BY <2>4 DEF KeyRows
    <3> HIDE DEF d, row, subs
    <3>4. /\ d.key[k] = row /\ row # None /\ \A l \in Keys \ {k} : d.key[l] = db.key[l]
          /\ \A l \in Keys \ {k} : d.subs[l] = db.subs[l]
      BY <1>0, <2>4, <3>2, <3>3, RowsAssumption DEF DbOK, DbType
    <3> HIDE DEF t, ts, raced, old
    <3>5. Lawful(j, d)
      BY <2>2, <2>3, <3>2, <3>3, <3>4 DEF Lawful, Kept
    <3>6. Chains(db, d, ts)
      BY <3>2 DEF Chains, Kept
    <3>7. Elsewhere(db, d, {}, {k})
      BY <3>2, <3>4 DEF Elsewhere, Kept
    <3>8. ASSUME NEW a \in ApiKeys, a # j[4] PROVE Settled(a, db, d)
      <4>1. KeysWith(a, d) = KeysWith(a, db)
        BY <2>4, <2>5, <3>3, <3>4, <3>8 DEF KeysWith
      <4>2. \A l \in KeysWith(a, db) : d.key[l] = db.key[l]
        BY <2>5, <3>4 DEF KeysWith
      <4> QED BY <3>2, <4>1, <4>2 DEF Settled, GroupsWith, Kept
    <3>9. ASSUME NEW e \in ListEntries \cup SettingEntries
          PROVE  Fresh(e, d) = Fresh(e, db) \/ cached[e] = None
      <4>1. CASE e \in SettingEntries
        BY <3>2, <4>1 DEF SettingEntries, Fresh
      <4>2. CASE e \in ListEntries
        <5>1. PICK kind \in {"endpoints", "subs"}, l \in Keys : e = <<kind, l>>
          BY <4>2 DEF ListEntries
        <5>2. CASE kind = "endpoints"
          BY <3>2, <5>1, <5>2 DEF Fresh
        <5>3. CASE kind = "subs" /\ l # k
          BY <3>4, <5>1, <5>3 DEF Fresh
        <5>4. CASE kind = "subs" /\ l = k
          BY <2>5, <5>1, <5>4
        <5> QED BY <5>1, <5>2, <5>3, <5>4
      <4> QED BY <4>1, <4>2
    <3>10. /\ \A g \in Groups \cap {} : \A e \in MasterEntry(g, d) \cup OnEntries(g, d) :
                  cached[e] = None \/ Covered(e, ts, d)
           /\ \A l \in Keys \cap {k} : d.key[l] # None =>
                  \/ cached[<<"config", d.key[l].api>>] = None
                  \/ Covered(<<"config", d.key[l].api>>, ts, d)
           /\ \A a \in ApiKeys : \/ Settled(a, db, d)
                                 \/ cached[<<"config", a>>] = None
                                 \/ Covered(<<"config", a>>, ts, d)
           /\ \A e \in ListEntries \cup SettingEntries :
                  \/ Fresh(e, d) = Fresh(e, db) \/ ~InReach(e, d)
                  \/ cached[e] = None \/ e \in excused \/ Covered(e, ts, d)
      BY <2>5, <3>3, <3>4, <3>8, <3>9
    <3>11. Hits(d, ts, excused)
      <4> HIDE DEF k
      <4> QED BY <1>0, <3>1, <3>7, <3>10, HitsBy
    <3> QED BY <3>5, <3>6, <3>11
  <2> HIDE DEF d, refused, raced
  <2> QED BY <2>1, <2>2, <2>6, ThenDeletes
<1>2. CASE SetKeyApi(j)
  <2> DEFINE row == [db.key[k] EXCEPT !.api = j[3]]
             refused == db.key[k] = None
             raced == HasOther(j)
             d == [db EXCEPT !.key[k].api = j[3]]
  <2>1. Doing(j, "key_api") /\ Then(j, refused, d, raced)
    BY <1>2 DEF SetKeyApi
  <2>2. /\ todo[j] # <<>> /\ t[1] \notin Selects \cup {"del"} /\ t[1] = "key_api" /\ Brings(j)
        /\ TaskOf(j, t) /\ \A u \in Need(j, t) : InList(u, ts)
    BY <2>1, AtWrite DEF Selects, Creating
  <2>3. j[1] = "regenerate_key"
    BY <2>2 DEF TaskOf
  <2>4. k \in Keys /\ j[3] \in ApiKeys /\ Generated(j) = {j[3]}
    BY <1>0, <2>3 DEF Given, Generated
  <2>5. Unused(j[3], db) /\ cached[<<"config", j[3]>>] = None
    BY <1>0, <2>2, <2>4 DEF NewInv, IsToCome
  <2>6. InList(Del(<<"config", t[2]>>), ts)
    BY <2>2 DEF Need
  <2>7. ASSUME ~refused
        PROVE  /\ Lawful(j, d) /\ Chains(db, d, ts)
               /\ raced \/ Hits(d, ts, excused)
    <3>1. DbOK(d)
      <4> HIDE DEF d, raced
      <4> QED BY <2>1, <2>7, AfterThen
    <3>2. Kept(d, {"key"}) /\ d.key = [db.key EXCEPT ![k] = row]
      BY <1>0, <2>4 DEF Kept, DbOK, DbType
    <3>3. row \in KeyRows /\ row.api = j[3] /\ row.group = db.key[k].group
      BY <1>0, <2>4, <2>7 DEF KeyRows
    <3> HIDE DEF d, row
    <3>4. d.key[k] = row /\ row # None /\ \A l \in Keys \ {k} : d.key[l] = db.key[l]
      BY <1>0, <2>4, <3>2, <3>3, RowsAssumption DEF DbOK, DbType
    <3>8. raced \/ old = t[2]
      BY <2>7 DEF HasOther
    <3> HIDE DEF t, ts, raced
    <3>5. Lawful(j, d)
      BY <2>2, <2>3, <2>7, <3>2, <3>3, <3>4 DEF Lawful, Kept
    <3>6. Chains(db, d, ts)
      BY <3>2 DEF Chains, Kept
    <3>7. ASSUME ~raced PROVE Hits(d, ts, excused)
      <4>1. Covered(<<"config", old>>, ts, d)
        BY <2>6, <3>7, <3>8, CoversDel
      <4>2. Elsewhere(db, d, {}, {k})
        BY <3>2, <3>4 DEF Elsewhere, Kept
      <4>3. ASSUME NEW a \in ApiKeys, a # j[3], a # old PROVE Settled(a, db, d)
        <5>1. KeysWith(a, d) = KeysWith(a, db)
          BY <2>4, <2>7, <3>3, <3>4, <4>3 DEF KeysWith
        <5>2. \A l \in KeysWith(a, db) : d.key[l] = db.key[l]
          BY <3>4, <4>3 DEF KeysWith
        <5> QED BY <3>2, <5>1, <5>2 DEF Settled, GroupsWith, Kept
      <4>4. \A e \in ListEntries \cup SettingEntries : Fresh(e, d) = Fresh(e, db)
        BY <3>2, ListsKept DEF Kept
      <4>5. /\ \A g \in Groups \cap {} : \A e \in MasterEntry(g, d) \cup OnEntries(g, d) :
                   cached[e] = None \/ Covered(e, ts, d)
            /\ \A l \in Keys \cap {k} : d.key[l] # None =>
                   \/ cached[<<"config", d.key[l].api>>] = None
                   \/ Covered(<<"config", d.key[l].api>>, ts, d)
            /\ \A a \in ApiKeys : \/ Settled(a, db, d)
                                  \/ cached[<<"config", a>>] = None
                                  \/ Covered(<<"config", a>>, ts, d)
        BY <2>5, <3>3, <3>4, <4>1, <4>3
      <4> HIDE DEF k, old
      <4> QED BY <1>0, <3>1, <4>2, <4>4, <4>5, HitsBy
    <3> QED BY <3>5, <3>6, <3>7
  <2> HIDE DEF d, refused, raced
  <2> QED BY <2>1, <2>2, <2>7, ThenDeletes
<1>3. CASE DropKey(j)
  <2> DEFINE d == WithoutKeys({k}, db)
             refused == FALSE
             raced == HasOther(j)
  <2>1. Doing(j, "drop_key") /\ Then(j, refused, d, raced)
    BY <1>3 DEF DropKey
  <2>2. /\ todo[j] # <<>> /\ t[1] \notin Selects \cup {"del"} /\ t[1] = "drop_key"
        /\ TaskOf(j, t) /\ \A u \in Need(j, t) : InList(u, ts)
    BY <2>1, AtWrite DEF Selects
  <2>3. k \in Keys
    BY <1>0, <2>2 DEF TaskOf, Given
  <2>4. InList(Del(<<"config", t[2]>>), ts)
    BY <2>2 DEF Need
  <2>5. /\ d.key = [l \in Keys |-> IF l \in {k} THEN None ELSE db.key[l]]
        /\ d.subs = [l \in Keys |-> IF l \in {k} THEN None ELSE db.subs[l]]
        /\ d.keyServers = db.keyServers \ ({k} \X Servers)
        /\ d.keyAllowed = db.keyAllowed \ ({k} \X Models)
        /\ d.setting = db.setting /\ d.endpoints = db.endpoints
        /\ Kept(d, {"key", "keyServers", "keyAllowed", "lists"})
    <3> HIDE DEF k
    <3> QED BY <1>0 DEF WithoutKeys, Kept, DbOK, DbType
  <2>6. DbOK(d)
    <3>1. ~refused
      OBVIOUS
    <3> HIDE DEF d, raced, refused
    <3> QED BY <2>1, <3>1, AfterThen
  <2> HIDE DEF d, t, ts
  <2>7. /\ d.key[k] = None /\ \A l \in Keys \ {k} : d.key[l] = db.key[l]
        /\ \A l \in Keys \ {k} : d.subs[l] = db.subs[l]
    BY <2>3, <2>5
  <2>8. Steady(d)
    BY <2>5, <2>7 DEF Steady, Kept
  <2>9. Chains(db, d, ts)
    BY <2>5 DEF Chains, Kept
  <2>10. ASSUME ~raced PROVE Hits(d, ts, excused)
    <3>1. db.key[k] = None \/ Covered(<<"config", old>>, ts, d)
      BY <2>4, <2>10, CoversDel DEF HasOther, t
    <3>2. Elsewhere(db, d, {}, {k})
      BY <2>5, <2>7 DEF Elsewhere, Kept
    <3>3. ASSUME NEW a \in ApiKeys, db.key[k] = None \/ a # old PROVE Settled(a, db, d)
      <4>1. KeysWith(a, d) = KeysWith(a, db)
        BY <2>7, <3>3 DEF KeysWith
      <4>2. \A l \in KeysWith(a, db) : d.key[l] = db.key[l]
        BY <2>7, <3>3 DEF KeysWith
      <4> QED BY <2>5, <4>1, <4>2 DEF Settled, GroupsWith, Kept
    <3>4. ASSUME NEW e \in ListEntries \cup SettingEntries
          PROVE  Fresh(e, d) = Fresh(e, db) \/ ~InReach(e, d)
      <4>1. CASE e \in SettingEntries
        BY <2>5, <4>1 DEF SettingEntries, Fresh
      <4>2. CASE e \in ListEntries
        <5>1. PICK kind \in {"endpoints", "subs"}, l \in Keys : e = <<kind, l>>
          BY <4>2 DEF ListEntries
        <5>2. CASE kind = "endpoints"
          BY <2>5, <5>1, <5>2 DEF Fresh
        <5>3. CASE kind = "subs" /\ l # k
          BY <2>7, <5>1, <5>3 DEF Fresh
        <5>4. CASE kind = "subs" /\ l = k
          BY <2>7, <4>2, <5>1, <5>4 DEF InReach
        <5> QED BY <5>1, <5>2, <5>3, <5>4
      <4> QED BY <4>1, <4>2
    <3>5. /\ \A g \in Groups \cap {} : \A e \in MasterEntry(g, d) \cup OnEntries(g, d) :
                 cached[e] = None \/ Covered(e, ts, d)
          /\ \A l \in Keys \cap {k} : d.key[l] # None =>
                 \/ cached[<<"config", d.key[l].api>>] = None
                 \/ Covered(<<"config", d.key[l].api>>, ts, d)
          /\ \A a \in ApiKeys : \/ Settled(a, db, d)
                                \/ cached[<<"config", a>>] = None
                                \/ Covered(<<"config", a>>, ts, d)
          /\ \A e \in ListEntries \cup SettingEntries :
                 \/ Fresh(e, d) = Fresh(e, db) \/ ~InReach(e, d)
                 \/ cached[e] = None \/ e \in excused \/ Covered(e, ts, d)
      BY <2>7, <3>1, <3>3, <3>4
    <3> HIDE DEF k, old
    <3> QED BY <1>0, <2>6, <3>2, <3>5, HitsBy
  <2> HIDE DEF refused, raced
  <2> QED BY <2>1, <2>2, <2>8, <2>9, <2>10, SteadyIsLawful, ThenDeletes DEF t, ts
<1>4. CASE Link(j)
  <2> DEFINE s == j[3]
             u == db.keyServers \cup {<<k, s>>}
             d == [db EXCEPT !.keyServers = u]
             refused == db.key[k] = None \/ db.server[s] = None
             raced == HasOther(j)
  <2>1. Doing(j, "link") /\ Then(j, refused, d, raced)
    <3>1. [db EXCEPT !.keyServers = @ \cup {<<k, s>>}] = d
      BY <1>0 DEF DbOK, DbType
    <3> QED BY <1>4, <3>1 DEF Link
  <2>2. \A x \in Need(j, t) : InList(x, ts)
    BY <2>1, AtWrite DEF Selects
  <2>3. InList(Del(<<"config", t[2]>>), ts)
    BY <2>1, <2>2 DEF Need, Doing
  <2>4. refused \/ raced \/ InList(Del(<<"config", old>>), ts)
    BY <2>3 DEF HasOther
  <2>5. \A l \in Keys \ {k}, r \in Servers : <<l, r>> \in u <=> <<l, r>> \in db.keyServers
    OBVIOUS
  <2> HIDE DEF u
  <2>6. Changes(d, {}, {k}) /\ Kept(d, {"keyServers"})
    BY <1>0, <2>5, KeyServersChange DEF Kept, DbOK, DbType
  <2> HIDE DEF d, refused, raced
  <2>7. Kept(d, {"server", "keyServers", "model", "allowed", "keyAllowed", "blocked", "chain"})
    BY <2>6 DEF Kept
  <2>8. ~refused /\ ~raced =>
            /\ \A g \in Groups \cap {} : Invalidates(g, Tail(todo[j]))
            /\ \A l \in Keys \cap {k} : d.key[l] # None =>
                  \/ InList(Del(<<"config", d.key[l].api>>), Tail(todo[j]))
                  \/ Invalidates(d.key[l].group, Tail(todo[j]))
    BY <2>4, <2>6 DEF Kept
  <2>9. "link" \notin Selects \cup {"del"} /\ d.chain = db.chain
    BY <2>6 DEF Selects, Kept
  <2> HIDE DEF k
  <2> QED BY <2>1, <2>6, <2>7, <2>8, <2>9, ThenChanges
<1>5. CASE Unlink(j)
  <2> DEFINE s == j[3]
             p == <<k, s>>
             u == db.keyServers \ {p}
             d == [db EXCEPT !.keyServers = u]
             refused == p \notin db.keyServers
             raced == HasOther(j)
  <2>1. Doing(j, "unlink") /\ Then(j, refused, d, raced)
    <3>1. [db EXCEPT !.keyServers = @ \ {p}] = d
      BY <1>0 DEF DbOK, DbType
    <3> QED BY <1>5, <3>1 DEF Unlink
  <2>2. \A x \in Need(j, t) : InList(x, ts)
    BY <2>1, AtWrite DEF Selects
  <2>3. InList(Del(<<"config", t[2]>>), ts)
    BY <2>1, <2>2 DEF Need, Doing
  <2>4. refused \/ raced \/ InList(Del(<<"config", old>>), ts)
    <3>1. refused \/ db.key[k] # None
      BY <1>0 DEF DbOK, Referential
    <3> QED BY <2>3, <3>1 DEF HasOther
  <2>5. \A l \in Keys \ {k}, r \in Servers : <<l, r>> \in u <=> <<l, r>> \in db.keyServers
    OBVIOUS
  <2> HIDE DEF u
  <2>6. Changes(d, {}, {k}) /\ Kept(d, {"keyServers"})
    BY <1>0, <2>5, KeyServersChange DEF Kept, DbOK, DbType
  <2> HIDE DEF d, refused, raced
  <2>7. Kept(d, {"server", "keyServers", "model", "allowed", "keyAllowed", "blocked", "chain"})
    BY <2>6 DEF Kept
  <2>8. ~refused /\ ~raced =>
            /\ \A g \in Groups \cap {} : Invalidates(g, Tail(todo[j]))
            /\ \A l \in Keys \cap {k} : d.key[l] # None =>
                  \/ InList(Del(<<"config", d.key[l].api>>), Tail(todo[j]))
                  \/ Invalidates(d.key[l].group, Tail(todo[j]))
    BY <2>4, <2>6 DEF Kept
  <2>9. "unlink" \notin Selects \cup {"del"} /\ d.chain = db.chain
    BY <2>6 DEF Selects, Kept
  <2> HIDE DEF k
  <2> QED BY <2>1, <2>6, <2>7, <2>8, <2>9, ThenChanges
<1> QED BY <1>1, <1>2, <1>3, <1>4, <1>5

\* group_allowed_models.rs, group_key_allowed_models.rs, models.rs
LEMMA ModelWritesDelete ==
    ASSUME Deletes, TypeInv', NEW j \in Jobs, Allow(j) \/ Cascade(j) \/ AllowKey(j) \/ DropModel(j)
    PROVE  Deletes'
<1>0. TypeInv /\ Given(j) /\ DbOK(db)
  BY Before DEF Deletes
<1> DEFINE t == Head(todo[j])
           ts == Tail(todo[j])
           g == j[2]
<1>1. ASSUME NEW kind \in {"allow", "cascade", "allow_key"}, Doing(j, kind)
      PROVE  Invalidates(g, ts)
  <2>1. t[1] = kind /\ \A u \in Need(j, t) : InList(u, ts)
    BY <1>1, AtWrite DEF Selects
  <2>2. Need(j, t) = {<<"master", g>>, <<"subs", g>>}
    BY <2>1 DEF Need
  <2> QED BY <2>1, <2>2 DEF Invalidates
<1>2. CASE Allow(j)
  <2> DEFINE m == j[3]
             u == db.allowed \cup {<<g, m>>}
             d == [db EXCEPT !.allowed = u]
             refused == \/ db.group[g] = None
                        \/ db.model[m] = None
                        \/ <<g, m>> \in db.allowed
             raced == FALSE
  <2>1. Doing(j, "allow") /\ Then(j, refused, d, raced)
    <3>1. [db EXCEPT !.allowed = @ \cup {<<g, m>>}] = d
      BY <1>0 DEF DbOK, DbType
    <3> QED BY <1>2, <3>1 DEF Allow
  <2>2. Invalidates(g, ts) /\ g \in Groups
    <3>1. j[1] = "allow_model"
      BY <2>1, AtWrite DEF Selects, TaskOf
    <3> QED BY <1>0, <1>1, <2>1, <3>1 DEF Given
  <2>3. \A h \in Groups \ {g}, n \in Models : <<h, n>> \in u <=> <<h, n>> \in db.allowed
    OBVIOUS
  <2> HIDE DEF u
  <2>4. Changes(d, {g}, {}) /\ Kept(d, {"allowed"})
    BY <1>0, <2>2, <2>3, AllowedChange DEF Kept, DbOK, DbType
  <2> HIDE DEF d, refused
  <2>5. Kept(d, {"server", "keyServers", "model", "allowed", "keyAllowed", "blocked", "chain"})
    BY <2>4 DEF Kept
  <2>6. /\ \A h \in Groups \cap {g} : Invalidates(h, Tail(todo[j]))
        /\ \A k \in Keys \cap {} : d.key[k] # None =>
              \/ InList(Del(<<"config", d.key[k].api>>), Tail(todo[j]))
              \/ Invalidates(d.key[k].group, Tail(todo[j]))
    BY <2>2
  <2>7. "allow" \notin Selects \cup {"del"} /\ ~raced
    BY DEF Selects
  <2> HIDE DEF raced, g
  <2> QED BY <2>1, <2>4, <2>5, <2>6, <2>7, ThenChanges
<1>3. CASE Cascade(j)
  <2> DEFINE K == KeysOf(g, db)
             u == db.keyAllowed \ (K \X {j[3]})
             d == [db EXCEPT !.keyAllowed = u]
             refused == FALSE
             raced == FALSE
  <2>1. Doing(j, "cascade") /\ Then(j, refused, d, raced)
    <3>1. [db EXCEPT !.keyAllowed = @ \ (K \X {j[3]})] = d
      BY <1>0 DEF DbOK, DbType
    <3> QED BY <1>3, <3>1 DEF Cascade
  <2>2. Invalidates(g, ts)
    BY <1>1, <2>1
  <2>3. \A k \in Keys \ K, n \in Models : <<k, n>> \in u <=> <<k, n>> \in db.keyAllowed
    OBVIOUS
  <2> HIDE DEF u, K
  <2>4. Changes(d, {}, K) /\ Kept(d, {"keyAllowed"})
    BY <1>0, <2>3, KeyAllowedChange DEF Kept, DbOK, DbType
  <2> HIDE DEF d
  <2>5. Kept(d, {"server", "keyServers", "model", "allowed", "keyAllowed", "blocked", "chain"})
    BY <2>4 DEF Kept
  <2>6. /\ \A h \in Groups \cap {} : Invalidates(h, Tail(todo[j]))
        /\ \A k \in Keys \cap K : d.key[k] # None =>
              \/ InList(Del(<<"config", d.key[k].api>>), Tail(todo[j]))
              \/ Invalidates(d.key[k].group, Tail(todo[j]))
    <3>1. \A k \in K : d.key[k].group = g
      BY <2>4 DEF K, KeysOf, Kept
    <3> QED BY <2>2, <3>1
  <2>7. "cascade" \notin Selects \cup {"del"} /\ ~raced
    BY DEF Selects
  <2> HIDE DEF raced, refused
  <2> QED BY <2>1, <2>4, <2>5, <2>6, <2>7, ThenChanges
<1>4. CASE AllowKey(j)
  <2> DEFINE q == j[3]
             m == j[4]
             u == db.keyAllowed \cup {<<q, m>>}
             d == [db EXCEPT !.keyAllowed = u]
             refused == db.key[q] = None \/ db.model[m] = None \/ <<q, m>> \in db.keyAllowed
             raced == OfOther(j)
  <2>1. Doing(j, "allow_key") /\ Then(j, refused, d, raced)
    <3>1. [db EXCEPT !.keyAllowed = @ \cup {<<q, m>>}] = d
      BY <1>0 DEF DbOK, DbType
    <3> QED BY <1>4, <3>1 DEF AllowKey
  <2>2. Invalidates(g, ts)
    BY <1>1, <2>1
  <2>3. refused \/ raced \/ db.key[q].group = g
    BY DEF OfOther
  <2>4. \A k \in Keys \ {q}, n \in Models : <<k, n>> \in u <=> <<k, n>> \in db.keyAllowed
    OBVIOUS
  <2> HIDE DEF u
  <2>5. Changes(d, {}, {q}) /\ Kept(d, {"keyAllowed"})
    BY <1>0, <2>4, KeyAllowedChange DEF Kept, DbOK, DbType
  <2> HIDE DEF d, refused, raced
  <2>6. Kept(d, {"server", "keyServers", "model", "allowed", "keyAllowed", "blocked", "chain"})
    BY <2>5 DEF Kept
  <2>7. ~refused /\ ~raced =>
            /\ \A h \in Groups \cap {} : Invalidates(h, Tail(todo[j]))
            /\ \A k \in Keys \cap {q} : d.key[k] # None =>
                  \/ InList(Del(<<"config", d.key[k].api>>), Tail(todo[j]))
                  \/ Invalidates(d.key[k].group, Tail(todo[j]))
    BY <2>2, <2>3, <2>5 DEF Kept
  <2>8. "allow_key" \notin Selects \cup {"del"} /\ d.chain = db.chain
    BY <2>5 DEF Selects, Kept
  <2> HIDE DEF q
  <2> QED BY <2>1, <2>5, <2>6, <2>7, <2>8, ThenChanges
<1>5. CASE DropModel(j)
  <2> DEFINE m == j[2]
             u == [db.model EXCEPT ![m] = None]
             d == [db EXCEPT !.model = u]
             refused == \/ \E h \in Groups : <<h, m>> \in db.allowed
                        \/ \E k \in Keys : <<k, m>> \in db.keyAllowed
             raced == FALSE
  <2>1. Doing(j, "drop_model") /\ Then(j, refused, d, raced)
    <3>1. [db EXCEPT !.model[m] = None] = d
      BY <1>0 DEF DbOK, DbType
    <3> QED BY <1>5, <3>1 DEF DropModel
  <2>2. ASSUME ~refused
        PROVE  \A n \in Models : \/ u[n] = db.model[n]
                                 \/ /\ \A h \in Groups : <<h, n>> \notin db.allowed
                                    /\ \A k \in Keys : <<k, n>> \notin db.keyAllowed
    BY <1>0, <2>2 DEF DbOK, DbType
  <2> HIDE DEF u, refused
  <2>3. ~refused => Changes(d, {}, {})
    BY <1>0, <2>2, ModelChange
  <2>4. Kept(d, {"model"})
    BY <1>0 DEF Kept, DbOK, DbType
  <2> HIDE DEF d
  <2>5. Kept(d, {"server", "keyServers", "model", "allowed", "keyAllowed", "blocked", "chain"})
    BY <2>4 DEF Kept
  <2>6. /\ \A h \in Groups \cap {} : Invalidates(h, Tail(todo[j]))
        /\ \A k \in Keys \cap {} : d.key[k] # None =>
              \/ InList(Del(<<"config", d.key[k].api>>), Tail(todo[j]))
              \/ Invalidates(d.key[k].group, Tail(todo[j]))
    OBVIOUS
  <2>7. "drop_model" \notin Selects \cup {"del"} /\ ~raced
    BY DEF Selects
  <2> HIDE DEF raced
  <2> QED BY <2>1, <2>3, <2>5, <2>6, <2>7, ThenChanges
<1> QED BY <1>2, <1>3, <1>4, <1>5

\* A statement that writes lists or settings.
LEMMA ThenLists ==
    ASSUME Deletes, TypeInv', NEW j \in Jobs, NEW kind, Doing(j, kind),
           kind \notin Selects \cup {"del"},
           NEW refused, NEW d, NEW raced, Then(j, refused, d, raced), Kept(d, {"lists"}),
           ~refused /\ ~raced =>
               \A e \in ListEntries \cup SettingEntries :
                   Fresh(e, d) = Fresh(e, db) \/ Covered(e, Tail(todo[j]), d)
    PROVE  Deletes'
<1>1. todo[j] # <<>> /\ Head(todo[j])[1] \notin Selects \cup {"del"}
  BY AtWrite
<1>2. DbOK(db)
  BY Before DEF Deletes
<1> DEFINE ts == Tail(todo[j])
<1>3. Steady(d) /\ Chains(db, d, ts)
  <2> HIDE DEF ts
  <2>1. Kept(d, {"keyServers", "model", "allowed", "keyAllowed", "blocked", "lists"})
    BY DEF Kept
  <2> QED BY <2>1, KeptSteady
<1>4. ASSUME ~refused, ~raced PROVE Hits(d, ts, excused)
  <2>1. DbOK(d)
    BY <1>4, AfterThen
  <2>2. \A e \in ListEntries \cup SettingEntries : Fresh(e, d) = Fresh(e, db) \/ Covered(e, ts, d)
    BY <1>4
  <2> HIDE DEF ts
  <2> QED BY <1>2, <2>1, <2>2, ListsHit
<1> QED BY <1>1, <1>3, <1>4, SteadyIsLawful, ThenDeletes

\* One that writes the list of one key.
LEMMA ThenList ==
    ASSUME Deletes, TypeInv', NEW j \in Jobs, NEW kind, Doing(j, kind),
           kind \notin Selects \cup {"del"},
           NEW refused, NEW d, NEW raced, Then(j, refused, d, raced),
           Kept(d, {"lists"}), NEW e, InList(Del(e), Tail(todo[j])),
           \A f \in (ListEntries \cup SettingEntries) \ {e} : Fresh(f, d) = Fresh(f, db)
    PROVE  Deletes'
<1>1. \A f \in ListEntries \cup SettingEntries :
          Fresh(f, d) = Fresh(f, db) \/ Covered(f, Tail(todo[j]), d)
  BY CoversDel
<1> QED BY <1>1, ThenLists

\* A write to the subscriptions of a key changes its list alone.
LEMMA SubsChange ==
    ASSUME DbOK(db), NEW k \in Keys, NEW row, NEW d, d = [db EXCEPT !.subs[k] = row]
    PROVE  /\ Kept(d, {"lists"})
           /\ \A f \in (ListEntries \cup SettingEntries) \ {<<"subs", k>>} : Fresh(f, d) = Fresh(f, db)
<1>1. Kept(d, {"lists"}) /\ d.setting = db.setting /\ d.endpoints = db.endpoints
  BY DEF Kept, DbOK, DbType
<1>2. \A l \in Keys \ {k} : d.subs[l] = db.subs[l]
  BY DEF DbOK, DbType
<1>3. ASSUME NEW f \in (ListEntries \cup SettingEntries) \ {<<"subs", k>>} PROVE Fresh(f, d) = Fresh(f, db)
  <2>1. CASE f \in SettingEntries
    BY <1>1, <2>1 DEF SettingEntries, Fresh
  <2>2. CASE f \in ListEntries
    <3>1. PICK kind \in {"endpoints", "subs"}, l \in Keys : f = <<kind, l>>
      BY <2>2 DEF ListEntries
    <3> QED BY <1>1, <1>2, <3>1 DEF Fresh
  <2> QED BY <2>1, <2>2
<1> QED BY <1>1, <1>3

\* settings.rs, user_endpoints.rs, key_subscriptions.rs, subscription_plans.rs
LEMMA OtherWritesDelete ==
    ASSUME Deletes, TypeInv', NEW j \in Jobs,
           Upsert(j) \/ WriteEndpoints(j) \/ Subscribe(j) \/ SetCancelled(j) \/ SetBonus(j) \/ Sync(j)
    PROVE  Deletes'
<1>0. TypeInv /\ Given(j) /\ DbOK(db)
  BY Before DEF Deletes
<1> DEFINE t == Head(todo[j])
           ts == Tail(todo[j])
           k == j[2]
<1>1. CASE Upsert(j)
  <2> DEFINE row == t[2]
             d == [db EXCEPT !.setting = row]
             refused == FALSE
             raced == \E n \in Settings \ j[2] : row[n] # db.setting[n]
  <2>1. Doing(j, "upsert") /\ Then(j, refused, d, raced)
    BY <1>1 DEF Upsert
  <2>2. t[1] = "upsert" /\ t \in Tasks /\ \A u \in Need(j, t) : InList(u, ts)
    BY <2>1, AtWrite DEF Selects
  <2>3. Kept(d, {"lists"}) /\ d.setting = row /\ d.endpoints = db.endpoints /\ d.subs = db.subs
    BY <1>0 DEF Kept, DbOK, DbType
  <2>4. \A n \in j[2] : InList(Del(<<"setting", n>>), ts)
    <3>1. \A n \in j[2] : Del(<<"setting", n>>) \in Need(j, t)
      BY <2>2 DEF Need
    <3> QED BY <2>2, <3>1
  <2> HIDE DEF d, ts
  <2>5. ASSUME ~raced, NEW e \in ListEntries \cup SettingEntries
        PROVE  Fresh(e, d) = Fresh(e, db) \/ Covered(e, ts, d)
    <3>1. CASE e \in ListEntries
      BY <2>3, <3>1 DEF ListEntries, Fresh
    <3>2. CASE e \in SettingEntries
      <4>1. PICK n \in Settings : e = <<"setting", n>>
        BY <3>2 DEF SettingEntries
      <4>2. CASE n \in j[2]
        BY <2>4, <4>1, <4>2, CoversDel
      <4>3. CASE n \notin j[2]
        BY <2>3, <2>5, <4>1, <4>3 DEF Fresh
      <4> QED BY <4>2, <4>3
    <3> QED BY <3>1, <3>2
  <2>6. "upsert" \notin Selects \cup {"del"}
    BY DEF Selects
  <2>7. ~refused /\ ~raced =>
            \A e \in ListEntries \cup SettingEntries :
                Fresh(e, d) = Fresh(e, db) \/ Covered(e, Tail(todo[j]), d)
    BY <2>5 DEF ts
  <2> HIDE DEF refused, raced
  <2> QED BY <2>1, <2>3, <2>6, <2>7, ThenLists
<1>2. CASE WriteEndpoints(j)
  <2> DEFINE e == <<"endpoints", k>>
             d == [db EXCEPT !.endpoints[k] = Other(@)]
             refused == db.key[k] = None
             raced == FALSE
  <2>1. Doing(j, "endpoints") /\ Then(j, refused, d, raced)
    BY <1>2 DEF WriteEndpoints
  <2>2. t[1] = "endpoints" /\ TaskOf(j, t) /\ \A u \in Need(j, t) : InList(u, ts)
    BY <2>1, AtWrite DEF Selects
  <2>3. k \in Keys
    BY <1>0, <2>2 DEF TaskOf, Given
  <2>4. InList(Del(e), Tail(todo[j]))
    BY <2>2 DEF Need
  <2>5. Kept(d, {"lists"}) /\ d.setting = db.setting /\ d.subs = db.subs
    BY <1>0 DEF Kept, DbOK, DbType
  <2>6. \A l \in Keys \ {k} : d.endpoints[l] = db.endpoints[l]
    BY <1>0 DEF DbOK, DbType
  <2> HIDE DEF d
  <2>7. ASSUME NEW f \in (ListEntries \cup SettingEntries) \ {e} PROVE Fresh(f, d) = Fresh(f, db)
    <3>1. CASE f \in SettingEntries
      BY <2>5, <3>1 DEF SettingEntries, Fresh
    <3>2. CASE f \in ListEntries
      <4>1. PICK kind \in {"endpoints", "subs"}, l \in Keys : f = <<kind, l>>
        BY <3>2 DEF ListEntries
      <4> QED BY <2>5, <2>6, <2>7, <4>1 DEF Fresh
    <3> QED BY <3>1, <3>2
  <2>8. "endpoints" \notin Selects \cup {"del"}
    BY DEF Selects
  <2> HIDE DEF e, refused, raced
  <2> QED BY <2>1, <2>4, <2>5, <2>7, <2>8, ThenList
<1>3. ASSUME NEW kind \in {"subscribe", "cancelled", "bonus"}, NEW row, NEW refused, NEW raced,
             Doing(j, kind), Then(j, refused, [db EXCEPT !.subs[k] = row], raced)
      PROVE  Deletes'
  <2> DEFINE e == <<"subs", k>>
             d == [db EXCEPT !.subs[k] = row]
  <2>1. t[1] = kind /\ TaskOf(j, t) /\ \A u \in Need(j, t) : InList(u, ts)
    BY <1>3, AtWrite DEF Selects
  <2>2. k \in Keys
    BY <1>0, <2>1 DEF TaskOf, Given
  <2>3. InList(Del(e), Tail(todo[j]))
    BY <2>1 DEF Need
  <2>4. /\ Kept(d, {"lists"})
        /\ \A f \in (ListEntries \cup SettingEntries) \ {e} : Fresh(f, d) = Fresh(f, db)
    BY <1>0, <2>2, SubsChange
  <2>5. kind \notin Selects \cup {"del"} /\ Then(j, refused, d, raced)
    BY <1>3 DEF Selects
  <2> HIDE DEF d, e
  <2> QED BY <1>3, <2>3, <2>4, <2>5, ThenList
<1>4. CASE Subscribe(j)
  <2> DEFINE row == [active |-> TRUE, limit |-> t[2], row |-> 0]
             refused == db.key[k] = None
             raced == FALSE
  <2>1. Doing(j, "subscribe") /\ Then(j, refused, [db EXCEPT !.subs[k] = row], raced)
    BY <1>4 DEF Subscribe
  <2> HIDE DEF row, refused, raced
  <2> QED BY <1>3, <2>1
<1>5. CASE SetCancelled(j)
  <2> DEFINE row == [db.subs[k] EXCEPT !.active = FALSE]
             refused == db.subs[k] = None
             raced == FALSE
  <2>1. Doing(j, "cancelled") /\ Then(j, refused, [db EXCEPT !.subs[k].active = FALSE], raced)
    BY <1>5 DEF SetCancelled
  <2>2. [db EXCEPT !.subs[k].active = FALSE] = [db EXCEPT !.subs[k] = row]
    BY <1>0 DEF DbOK, DbType
  <2>3. Then(j, refused, [db EXCEPT !.subs[k] = row], raced)
    BY <2>1, <2>2
  <2> HIDE DEF row, refused, raced
  <2> QED BY <1>3, <2>1, <2>3
<1>6. CASE SetBonus(j)
  <2> DEFINE row == [db.subs[k] EXCEPT !.row = Other(@)]
             refused == db.subs[k] = None
             raced == FALSE
  <2>1. Doing(j, "bonus") /\ Then(j, refused, [db EXCEPT !.subs[k].row = Other(@)], raced)
    BY <1>6 DEF SetBonus
  <2>2. [db EXCEPT !.subs[k].row = Other(@)] = [db EXCEPT !.subs[k] = row]
    BY <1>0 DEF DbOK, DbType
  <2>3. Then(j, refused, [db EXCEPT !.subs[k] = row], raced)
    BY <2>1, <2>2
  <2> HIDE DEF row, refused, raced
  <2> QED BY <1>3, <2>1, <2>3
<1>7. CASE Sync(j)
  <2> DEFINE held(l) == db.subs[l] # None /\ db.subs[l].active
             row(l) == IF held(l) THEN [db.subs[l] EXCEPT !.limit = t[2]] ELSE db.subs[l]
             rows == [l \in Keys |-> row(l)]
             d == [db EXCEPT !.subs = rows]
             refused == FALSE
             raced == FALSE
             h == <<"holders">>
  <2>1. Doing(j, "sync") /\ Then(j, refused, d, raced)
    BY <1>7 DEF Sync
  <2>2. t[1] = "sync" /\ t \in Tasks /\ \A u \in Need(j, t) : InList(u, ts)
    BY <2>1, AtWrite DEF Selects
  <2>3. InList(h, ts)
    BY <2>2 DEF Need
  <2>4. Kept(d, {"lists"}) /\ d.subs = rows /\ d.setting = db.setting /\ d.endpoints = db.endpoints
    BY <1>0 DEF Kept, DbOK, DbType
  <2>5. \A l \in Keys : rows[l] = db.subs[l] \/ (rows[l] # None /\ rows[l].active)
    <3>1. ASSUME NEW l \in Keys, held(l) PROVE row(l) # None /\ row(l).active
      <4>1. db.subs[l] \in SubRows /\ t[2] \in Versions
        BY <1>0, <2>2, <3>1, TaskIs, Before
      <4>2. row(l) \in SubRows /\ row(l).active
        BY <3>1, <4>1 DEF SubRows
      <4> QED BY <4>2, RowsAssumption
    <3> QED BY <3>1
  <2> HIDE DEF d, rows, ts
  <2>6. \A l \in Keys : d.subs[l] = db.subs[l] \/ <<"subs", l>> \in Sure(h, d)
    BY <2>4, <2>5 DEF Sure, Targets, Holders
  <2>7. ASSUME NEW e \in ListEntries \cup SettingEntries
        PROVE  Fresh(e, d) = Fresh(e, db) \/ Covered(e, ts, d)
    <3>1. CASE e \in SettingEntries
      BY <2>4, <3>1 DEF SettingEntries, Fresh
    <3>2. CASE e \in ListEntries
      <4>1. PICK kind \in {"endpoints", "subs"}, l \in Keys : e = <<kind, l>>
        BY <3>2 DEF ListEntries
      <4>2. CASE kind = "endpoints" \/ d.subs[l] = db.subs[l]
        BY <2>4, <4>1, <4>2 DEF Fresh
      <4>3. CASE kind = "subs" /\ <<"subs", l>> \in Sure(h, d)
        <5> HIDE DEF h
        <5> QED BY <2>3, <4>1, <4>3, Covers
      <4> QED BY <2>6, <4>1, <4>2, <4>3
    <3> QED BY <3>1, <3>2
  <2>8. "sync" \notin Selects \cup {"del"}
    BY DEF Selects
  <2>9. ~refused /\ ~raced =>
            \A e \in ListEntries \cup SettingEntries :
                Fresh(e, d) = Fresh(e, db) \/ Covered(e, Tail(todo[j]), d)
    BY <2>7 DEF ts
  <2> HIDE DEF refused, raced
  <2> QED BY <2>1, <2>4, <2>8, <2>9, ThenLists
<1> QED BY <1>1, <1>2, <1>4, <1>5, <1>6, <1>7

-----------------------------------------------------------------------------
(* The theorem *)

\* At the start nothing is cached, nothing runs, and what is to come is new.
LEMMA DeletesInit == Init => Deletes
<1> SUFFICES ASSUME Init PROVE Deletes
  OBVIOUS
<1>1. TypeInv
  BY TypeInit
<1>2. /\ plan \in Plans /\ db = Db0 /\ cached = [e \in Entries |-> None] /\ waiting = plan.jobs
      /\ todo = [j \in Jobs |-> <<>>] /\ fill = None
  BY DEF Init
<1>3. StaleInv
  BY <1>2 DEF StaleInv
<1>4. Planned
  BY <1>2, NoList DEF Planned
<1>5. ASSUME NEW j \in Jobs, Brings(j) PROVE IsToCome(j)
  <2>1. j \in plan.jobs /\ IsNew(plan) /\ Given(j)
    BY <1>2, <1>5, PlansAssumption DEF Brings
  <2>2. \A a \in Generated(j) : a \in ApiKeys /\ Unused(a, db)
    BY <1>2, <2>1 DEF Generated, Given, IsNew
  <2>3. \A a \in Generated(j) : cached[<<"config", a>>] = None
    BY <1>2, <2>2, EntriesAre
  <2>4. j[1] = "create_key" => \A e \in {"subs", "endpoints"} \X {j[2]} : cached[e] = None
    <3>1. j[1] = "create_key" => j[2] \in Keys
      BY <2>1 DEF Given
    <3>2. ASSUME j[2] \in Keys, NEW e \in {"subs", "endpoints"} \X {j[2]} PROVE e \in Entries
      <4>1. e = <<"subs", j[2]>> \/ e = <<"endpoints", j[2]>>
        OBVIOUS
      <4> QED BY <3>2, <4>1, EntriesAre
    <3> QED BY <1>2, <3>1, <3>2
  <2>5. /\ j[1] = "create_group" => db.group[j[2]] = None
        /\ j[1] = "create_server" => db.server[j[2]] = None
        /\ j[1] = "create_key" => db.key[j[2]] = None
    BY <1>2, <2>1 DEF IsNew
  <2> QED BY <1>2, <2>2, <2>3, <2>4, <2>5 DEF IsToCome
<1>6. UniqueApis(db)
  BY <1>2, PlansAssumption
<1> QED BY <1>1, <1>3, <1>4, <1>5, <1>6 DEF Deletes, NewInv

\* Every step keeps the invariant.
LEMMA DeletesStep == Deletes /\ [Next]_vars => Deletes'
<1> SUFFICES ASSUME Deletes, [Next]_vars PROVE Deletes'
  OBVIOUS
<1>1. TypeInv'
  BY TypeStep DEF Deletes
<1>2. CASE (\E e \in Entries : Miss(e) \/ Expire(e)) \/ Read
  BY <1>1, <1>2, RequestsDelete
<1>3. ASSUME NEW j \in Jobs, Handle(j) PROVE Deletes'
  BY <1>1, <1>3, GroupHandlersDelete, ServerHandlersDelete, KeyHandlersDelete, AllowHandlersDelete,
     ModelHandlersDelete, SettingHandlersDelete, SubscriptionHandlersDelete DEF Handle
<1>4. ASSUME NEW j \in Jobs, Continue(j) PROVE Deletes'
  BY <1>1, <1>4, InvalidatingDeletes, GroupWritesDelete, KeyWritesDelete, ModelWritesDelete,
     OtherWritesDelete DEF Continue
<1>5. CASE UNCHANGED vars
  BY <1>1, <1>5 DEF vars, Deletes, StaleInv, Planned, NewInv, IsToCome, Brings
<1> QED BY <1>2, <1>3, <1>4, <1>5 DEF Next

\* Every write to the tables is followed by the deletion of every entry that it
\* makes stale: whatever the tables, the admin requests that come, their order,
\* and the requests that fill the caches meanwhile, an entry that differs from
\* what the rows now say is about to be deleted, or its cause is known.
THEOREM WritesInvalidate == Spec => []StaleIsDeleted
<1>1. Deletes => StaleIsDeleted
  <2> SUFFICES ASSUME Deletes, NEW e \in Entries,
                      cached[e] \notin {None, Fresh(e, db)}, InReach(e, db)
               PROVE  e \in excused \/ \E j \in Jobs : e \in Pending(j)
    BY DEF StaleIsDeleted
  <2>1. e \in excused \/ \E j \in Jobs : Covered(e, todo[j], db)
    BY DEF Deletes, StaleInv
  <2> QED BY <2>1, CoveredIsPending
<1> QED BY <1>1, DeletesInit, DeletesStep, PTL DEF Spec
=============================================================================
