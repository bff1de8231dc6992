---------------------------- MODULE ConfigCache ----------------------------
(***************************************************************************)
(* The Redis caches in front of the configuration tables (cache.rs), the   *)
(* requests that fill them and the admin handlers that write the tables    *)
(* and then delete what has become stale.                                  *)
(*                                                                         *)
(* A handler is a list of tasks: the statements it still has to run, one   *)
(* step each.  Its first statement queues the others; a SELECT of what to  *)
(* invalidate queues one DEL for each row it finds.  Reading, writing and  *)
(* deleting interleave freely, and nothing makes them one transaction.     *)
(***************************************************************************)
EXTENDS ConfigRows, SequencesExt

CONSTANTS
    Db0,          \* the tables at the start
    Plans         \* what a behaviour is about, see below

(***************************************************************************)
(* A plan bounds a behaviour: the admin requests that come, the entries    *)
(* proxied requests ask for, and how many commands and queries fail.       *)
(* A job is a tuple: the handler's name and what it is given.              *)
(***************************************************************************)

Jobs == UNION {p.jobs : p \in Plans}

Given(j) ==
    /\ j[1] \in {"create_group", "regenerate_group_key"} => j[2] \in Groups /\ j[3] \in ApiKeys
    /\ j[1] = "update_group" => j[2] \in Groups /\ j[3] \in Servers \cup {None}
    /\ j[1] = "bulk_activate" => j[2] \subseteq Groups /\ j[3] \in BOOLEAN
    /\ j[1] = "delete_groups" => j[2] \subseteq Groups
    /\ j[1] = "bulk_assign" => j[2] \subseteq Groups /\ j[3] \in Servers
    /\ j[1] \in {"assign_server", "update_assignment", "remove_server"} =>
          j[2] \in Groups /\ j[3] \in Servers
    /\ j[1] \in {"create_server", "update_server", "delete_server"} => j[2] \in Servers
    /\ j[1] = "create_key" =>
          j[2] \in Keys /\ j[3] \in Groups /\ j[4] \in ApiKeys /\ j[5] \in BOOLEAN
    /\ j[1] \in {"update_key", "delete_key", "change_endpoints", "assign", "cancel", "change_bonus"} =>
          j[2] \in Keys
    /\ j[1] = "regenerate_key" => j[2] \in Keys /\ j[3] \in ApiKeys
    /\ j[1] \in {"assign_key_server", "remove_key_server"} => j[2] \in Keys /\ j[3] \in Servers
    /\ j[1] \in {"allow_model", "disallow_model"} => j[2] \in Groups /\ j[3] \in Models
    /\ j[1] \in {"allow_key_model", "disallow_key_model"} =>
          j[2] \in Groups /\ j[3] \in Keys /\ j[4] \in Models
    /\ j[1] \in {"create_model", "update_model", "delete_model"} => j[2] \in Models
    /\ j[1] \in {"block_agent", "unblock_agent"} => j[2] \in Groups /\ j[3] \in Agents
    /\ j[1] = "put_settings" => j[2] \subseteq Settings

\* The API key a handler generates.
Generated(j) ==
    CASE j[1] \in {"create_group", "regenerate_group_key", "regenerate_key"} -> {j[3]}
      [] j[1] = "create_key" -> {j[4]}
      [] OTHER -> {}

Creates == {"create_group", "create_server", "create_key"}

\* What a plan generates is new: a random API key, the random UUID of a row.
IsNew(p) ==
    \A j \in p.jobs :
        /\ \A a \in Generated(j) : Unused(a, Db0)
        /\ j[1] = "create_group" => Db0.group[j[2]] = None
        /\ j[1] = "create_server" => Db0.server[j[2]] = None
        /\ j[1] = "create_key" => Db0.key[j[2]] = None
        /\ \A i \in p.jobs \ {j} :
              /\ Generated(i) \cap Generated(j) = {}
              /\ i[1] = j[1] /\ j[1] \in Creates => i[2] # j[2]

ASSUME PlansAssumption ==
    /\ Db0 \in DbType /\ Referential(Db0) /\ UniqueApis(Db0)
    /\ \A p \in Plans : p.failures \in Nat /\ IsNew(p)
    /\ \A j \in Jobs : Given(j)

VARIABLES
    plan,         \* the plan of this behaviour
    db,           \* the tables
    cached,       \* the entries of Redis, None for missing
    waiting,      \* jobs nobody has asked for yet
    todo,         \* what each handler still has to run
    fill,         \* what a request is assembling, None for nothing
    excused,      \* history: the entries left stale by a failure, a known race or a
                  \* handler that does not invalidate, or invalidates another group
    failures      \* how many commands and queries have failed

vars == <<plan, db, cached, waiting, todo, fill, excused, failures>>

Entries == ConfigEntries \cup ListEntries \cup SettingEntries

\* What a handler may still have to run: a DEL, the SELECTs of an invalidation,
\* and writes, with what they need of what the handler has read.
Tasks ==
    ({"del"} \X Entries) \cup ({"master", "subs", "chain"} \X Groups) \cup ({"users"} \X Servers)
    \cup ({"group_api", "key_api", "drop_key", "link", "unlink"} \X ApiKeys)
    \cup ({"insert_key", "subscribe", "sync"} \X Versions)
    \cup ({"upsert"} \X [Settings -> Versions])
    \cup {<<kind>> : kind \in {"holders", "erase", "drop_server", "allow", "cascade", "allow_key",
                              "drop_model", "endpoints", "cancelled", "bonus"}}

TypeOK ==
    /\ plan \in Plans
    /\ db \in DbType /\ Referential(db)
    /\ DOMAIN cached = Entries
    /\ waiting \subseteq Jobs
    /\ todo \in [Jobs -> Seq(Tasks)]
    /\ fill # None => fill.entry \in Entries
    /\ excused \subseteq Entries
    /\ failures \in 0..plan.failures

Init ==
    /\ plan \in Plans
    /\ db = Db0
    /\ cached = [e \in Entries |-> None]
    /\ waiting = plan.jobs
    /\ todo = [j \in Jobs |-> <<>>]
    /\ fill = None
    /\ excused = {}
    /\ failures = 0

Fails ==
    /\ failures < plan.failures
    /\ failures' = failures + 1

-----------------------------------------------------------------------------
(* Requests.                                                               *)

readVars == <<plan, db, waiting, todo>>

At(step) == fill # None /\ fill.at = step

Goes(step, got) == fill' = [fill EXCEPT !.at = step, !.got = got]

\* GET: a miss, or a command that fails.
Miss(e) ==
    /\ fill = None
    /\ e \in plan.wanted
    /\ InReach(e, db)
    /\ \/ cached[e] = None /\ UNCHANGED failures
       \/ cached[e] # None /\ Fails
    /\ fill' = [entry |-> e, at |-> IF e[1] = "config" THEN "group" ELSE "row", got |-> None]
    /\ UNCHANGED <<readVars, cached, excused>>

\* What a request takes for the answer when the query fails: a setting's
\* default, an empty list.
Default(e) == IF e \in SettingEntries THEN 0 ELSE {}

\* The one query behind a setting or a list.
ReadRow ==
    /\ At("row")
    /\ \/ Goes("store", Fresh(fill.entry, db)) /\ UNCHANGED failures
       \/ Goes("store", Default(fill.entry)) /\ Fails
    /\ UNCHANGED <<readVars, cached, excused>>

\* resolve_group_config: a master key's group.
FindGroup ==
    /\ At("group")
    /\ LET found == GroupsWith(fill.entry[2], db)
       IN  \/ \E g \in found : Goes(Parts[1], [Blank(g, None) EXCEPT !.row = db.group[g]])
           \/ found = {} /\ Goes("key", None)
    /\ UNCHANGED <<readVars, cached, excused, failures>>

\* A sub-key's row: nothing, a disabled key, or the group to look for.
FindKey ==
    /\ At("key")
    /\ LET found == KeysWith(fill.entry[2], db)
       IN  \/ found = {} /\ fill' = None
           \/ \E k \in found : Goes(IF db.key[k].on THEN "owner" ELSE "store",
                                    Blank(db.key[k].group, k))
    /\ UNCHANGED <<readVars, cached, excused, failures>>

FindOwner ==
    /\ At("owner")
    /\ LET row == db.group[fill.got.group]
       IN  IF row = None THEN fill' = None ELSE Goes(Parts[1], [fill.got EXCEPT !.row = row])
    /\ UNCHANGED <<readVars, cached, excused, failures>>

\* The remaining queries, one after the other.  When the one for the server
\* that counts tokens fails, there is none.
ReadPart ==
    \E i \in 1..Len(Parts) :
        /\ At(Parts[i])
        /\ LET after == IF i < Len(Parts) THEN Parts[i + 1] ELSE "store"
           IN  \/ Goes(after, WithPart(fill.got, Parts[i], db)) /\ UNCHANGED failures
               \/ Parts[i] = "ct" /\ Goes(after, fill.got) /\ Fails
        /\ UNCHANGED <<readVars, cached, excused>>

\* Another query of resolve_group_config fails: no configuration.
LoseConfig ==
    /\ fill # None
    /\ fill.at \notin {"row", "ct", "store"}
    /\ Fails
    /\ fill' = None
    /\ UNCHANGED <<readVars, cached, excused>>

\* SET, with an expiry except for a setting.
Store ==
    LET e == fill.entry
    IN  /\ At("store")
        /\ \/ /\ cached' = [cached EXCEPT ![e] = fill.got]
              /\ excused' = IF fill.got = Fresh(e, db) THEN excused \ {e} ELSE excused \cup {e}
              /\ UNCHANGED failures
           \/ Fails /\ UNCHANGED <<cached, excused>>
        /\ fill' = None
        /\ UNCHANGED readVars

Drop(e) == cached' = [cached EXCEPT ![e] = None] /\ excused' = excused \ {e}

\* A configuration is kept for 60 seconds, a list for 300, a setting for ever.
Expire(e) ==
    /\ e \notin SettingEntries
    /\ cached[e] # None
    /\ Drop(e)
    /\ UNCHANGED <<readVars, fill, failures>>

-----------------------------------------------------------------------------
(* Handlers: what they leave to be done.                                   *)

Del(e) == <<"del", e>>

\* invalidate_group_all_keys: the master key, then the sub-keys.
Invalidate(g) == <<<<"master", g>>, <<"subs", g>>>>

InvalidateAll(gs) ==
    LET s == SetToSeq(gs)
    IN  [i \in 1 .. 2 * Len(s) |-> <<IF i % 2 = 1 THEN "master" ELSE "subs", s[(i + 1) \div 2]>>]

Dels(es) == SetToSeq({Del(e) : e \in es})

MasterEntry(g, d) == IF d.group[g] = None THEN {} ELSE {<<"config", d.group[g].api>>}
SubEntries(g, d)  == {<<"config", d.key[k].api>> : k \in KeysOf(g, d)}
Holders(d)        == {k \in Keys : d.subs[k] # None /\ d.subs[k].active}

\* The entries a task deletes, or leads to the deletion of.
Targets(t, d) ==
    CASE t[1] = "del"     -> {t[2]}
      [] t[1] = "master"  -> MasterEntry(t[2], d)
      [] t[1] = "subs"    -> SubEntries(t[2], d)
      [] t[1] = "users"   -> UNION {MasterEntry(g, d) \cup SubEntries(g, d) : g \in UsersOf(t[2], d)}
      [] t[1] = "holders" -> {"subs"} \X Holders(d)
      [] OTHER            -> {}

\* What a SELECT of an invalidation adds to the list.
Found(t, d) == IF t[1] = "users" THEN InvalidateAll(UsersOf(t[2], d)) ELSE Dels(Targets(t, d))

Pending(j) == UNION {Targets(todo[j][i], db) : i \in 1..Len(todo[j])}

Selects == {"master", "subs", "users", "holders"}

Doing(j, kind) == todo[j] # <<>> /\ Head(todo[j])[1] = kind

\* A failed query of an invalidation finds nothing.
Select(j) ==
    /\ \E kind \in Selects : Doing(j, kind)
    /\ \/ todo' = [todo EXCEPT ![j] = Found(Head(@), db) \o Tail(@)] /\ UNCHANGED failures
          /\ UNCHANGED excused
       \/ todo' = [todo EXCEPT ![j] = Tail(@)] /\ Fails
          /\ excused' = excused \cup Targets(Head(todo[j]), db)
    /\ UNCHANGED <<plan, db, cached, waiting, fill>>

\* The result of a DEL is ignored.
RunDel(j) ==
    /\ Doing(j, "del")
    /\ \/ Drop(Head(todo[j])[2]) /\ UNCHANGED failures
       \/ Fails /\ excused' = excused \cup {Head(todo[j])[2]} /\ UNCHANGED cached
    /\ todo' = [todo EXCEPT ![j] = Tail(@)]
    /\ UNCHANGED <<plan, db, waiting, fill>>

\* A statement fails and the handler answers 500, or the admin hangs up.
Abort(j) ==
    /\ todo[j] # <<>>
    /\ Fails
    /\ todo' = [todo EXCEPT ![j] = <<>>]
    /\ excused' = excused \cup Pending(j)
    /\ UNCHANGED <<plan, db, cached, waiting, fill>>

\* The entries that a write makes stale.
Outdates(d) == {e \in Entries : cached[e] # None /\ Fresh(e, d) # Fresh(e, db)}

\* A statement that is not the first: it is refused, or the list goes on.
\* raced: what the handler read at its start is no longer so.
Then(j, refused, d, raced) ==
    /\ IF refused THEN /\ todo' = [todo EXCEPT ![j] = <<>>]
                       /\ excused' = excused \cup Pending(j)
                       /\ UNCHANGED db
       ELSE /\ todo' = [todo EXCEPT ![j] = Tail(@)]
            /\ db' = d
            /\ excused' = IF raced THEN excused \cup Outdates(d) ELSE excused
    /\ UNCHANGED <<plan, cached, waiting, fill, failures>>

\* The first statement of a handler: 404 or 400, or it goes on.
First(j, kind, ok, d, tasks) ==
    /\ j \in waiting /\ j[1] = kind
    /\ waiting' = waiting \ {j}
    /\ IF ok THEN db' = d /\ todo' = [todo EXCEPT ![j] = tasks] ELSE UNCHANGED <<db, todo>>
    /\ UNCHANGED <<plan, cached, fill, failures>>

Asked(j, kind, ok, d, tasks) == First(j, kind, ok, d, tasks) /\ UNCHANGED excused

-----------------------------------------------------------------------------
(* groups.rs                                                               *)

CreateGroup(j) ==
    LET row == [api |-> j[3], on |-> TRUE, ct |-> None]
    IN  Asked(j, "create_group", TRUE, [db EXCEPT !.group[j[2]] = row], <<>>)

UpdateGroup(j) ==
    LET g == j[2]
    IN  Asked(j, "update_group", db.group[g] # None /\ (j[3] = None \/ db.server[j[3]] # None),
              [db EXCEPT !.group[g].on = ~@, !.group[g].ct = j[3]], Invalidate(g))

\* bulk_activate and bulk_deactivate.
BulkActivate(j) ==
    LET found == {g \in j[2] : db.group[g] # None}
        row(g) == IF g \in found THEN [db.group[g] EXCEPT !.on = j[3]] ELSE db.group[g]
    IN  Asked(j, "bulk_activate", TRUE, [db EXCEPT !.group = [g \in Groups |-> row(g)]],
              InvalidateAll(found))

\* delete_group and bulk_delete: a SELECT, the invalidations, the DELETE.
DeleteGroups(j) ==
    LET found == {g \in j[2] : db.group[g] # None}
    IN  Asked(j, "delete_groups", found # {}, db, InvalidateAll(found) \o <<<<"erase">>>>)

\* What a request cached since the invalidation stays.
Erase(j) == Doing(j, "erase") /\ Then(j, FALSE, WithoutGroups(j[2], db), TRUE)

\* regenerate_key of a group: SELECT, UPDATE, and the old key's entry too.
RegenerateGroupKey(j) ==
    LET g == j[2]
    IN  /\ j[1] = "regenerate_group_key"
        /\ Asked(j, j[1], db.group[g] # None, db,
                 <<<<"group_api", db.group[g].api>>, Del(<<"config", db.group[g].api>>)>>
                    \o Invalidate(g))

SetGroupApi(j) ==
    LET g == j[2]
    IN  /\ Doing(j, "group_api")
        /\ Then(j, db.group[g] = None, [db EXCEPT !.group[g].api = j[3]],
                db.group[g] # None /\ db.group[g].api # Head(todo[j])[2])

\* bulk_assign_server: one INSERT ... DO UPDATE per group, then the invalidations.
BulkAssign(j) ==
    Asked(j, "bulk_assign", TRUE, db,
          SetToSeq({<<"chain", g>> : g \in j[2]}) \o InvalidateAll(j[2]))

Chain(j) ==
    LET g == Head(todo[j])[2]
        s == j[3]
    IN  /\ Doing(j, "chain")
        /\ Then(j, db.group[g] = None \/ db.server[s] = None,
                [db EXCEPT !.chain[<<g, s>>] = [on |-> TRUE, row |-> 0]], FALSE)

-----------------------------------------------------------------------------
(* group_servers.rs, servers.rs                                            *)

AssignServer(j) ==
    LET g == j[2]
        s == j[3]
    IN  Asked(j, "assign_server",
              db.group[g] # None /\ db.server[s] # None /\ db.chain[<<g, s>>] = None,
              [db EXCEPT !.chain[<<g, s>>] = [on |-> TRUE, row |-> 0]], Invalidate(g))

\* update_assignment and reorder_priorities.
UpdateAssignment(j) ==
    LET g == j[2]
        s == j[3]
    IN  Asked(j, "update_assignment", db.chain[<<g, s>>] # None,
              [db EXCEPT !.chain[<<g, s>>] = [on |-> ~@.on, row |-> Other(@.row)]], Invalidate(g))

RemoveServer(j) ==
    Asked(j, "remove_server", db.chain[<<j[2], j[3]>>] # None,
          [db EXCEPT !.chain[<<j[2], j[3]>>] = None], Invalidate(j[2]))

CreateServer(j) == Asked(j, "create_server", TRUE, [db EXCEPT !.server[j[2]] = 0], <<>>)

\* update_server: the UPDATEs are one transaction.
UpdateServer(j) ==
    Asked(j, "update_server", db.server[j[2]] # None,
          [db EXCEPT !.server[j[2]] = Other(@)], <<<<"users", j[2]>>>>)

\* delete_server: refused while a group's chain has the server.
DeleteServer(j) ==
    Asked(j, "delete_server", \A g \in Groups : db.chain[<<g, j[2]>>] = None, db, <<<<"drop_server">>>>)

\* RESTRICT of group_servers and group_key_servers.  Nothing is invalidated.
DropServer(j) ==
    LET s == j[2]
    IN  /\ Doing(j, "drop_server")
        /\ Then(j, \/ \E g \in Groups : db.chain[<<g, s>>] # None
                   \/ \E k \in Keys : <<k, s>> \in db.keyServers,
                WithoutServer(s, db), TRUE)

-----------------------------------------------------------------------------
(* group_keys.rs, group_key_servers.rs                                     *)

\* create_key, and bulk_create_keys, which also subscribes the key to a plan.
CreateKey(j) ==
    Asked(j, "create_key", db.group[j[3]] # None, db, <<<<"insert_key", db.limit>>>>)

InsertKey(j) ==
    LET k    == j[2]
        subs == IF j[5] THEN [active |-> TRUE, limit |-> Head(todo[j])[2], row |-> 0] ELSE None
    IN  /\ Doing(j, "insert_key")
        /\ Then(j, db.group[j[3]] = None,
                [db EXCEPT !.key[k] = [group |-> j[3], api |-> j[4], on |-> TRUE], !.subs[k] = subs],
                FALSE)

UpdateKey(j) ==
    LET k == j[2]
    IN  /\ j[1] = "update_key"
        /\ Asked(j, j[1], db.key[k] # None, [db EXCEPT !.key[k].on = ~@],
                 <<Del(<<"config", db.key[k].api>>)>>)

\* The other handlers of a key read its row first, and delete the entry of the
\* API key they have read at the end.
OfKey(j, kind, ok, task) ==
    LET k == j[2]
    IN  /\ j[1] = kind
        /\ Asked(j, kind, db.key[k] # None /\ ok, db,
                 <<<<task, db.key[k].api>>, Del(<<"config", db.key[k].api>>)>>)

HasOther(j) == db.key[j[2]] # None /\ db.key[j[2]].api # Head(todo[j])[2]

RegenerateKey(j) == OfKey(j, "regenerate_key", TRUE, "key_api")

SetKeyApi(j) ==
    /\ Doing(j, "key_api")
    /\ Then(j, db.key[j[2]] = None, [db EXCEPT !.key[j[2]].api = j[3]], HasOther(j))

DeleteKey(j) == OfKey(j, "delete_key", TRUE, "drop_key")

DropKey(j) == Doing(j, "drop_key") /\ Then(j, FALSE, WithoutKeys({j[2]}, db), HasOther(j))

\* The servers must be in the chain of the key's group.
AssignKeyServer(j) ==
    OfKey(j, "assign_key_server",
          db.key[j[2]] # None /\ db.chain[<<db.key[j[2]].group, j[3]>>] # None, "link")

Link(j) ==
    /\ Doing(j, "link")
    /\ Then(j, db.key[j[2]] = None \/ db.server[j[3]] = None,
            [db EXCEPT !.keyServers = @ \cup {<<j[2], j[3]>>}], HasOther(j))

RemoveKeyServer(j) == OfKey(j, "remove_key_server", TRUE, "unlink")

Unlink(j) ==
    /\ Doing(j, "unlink")
    /\ Then(j, <<j[2], j[3]>> \notin db.keyServers,
            [db EXCEPT !.keyServers = @ \ {<<j[2], j[3]>>}], HasOther(j))

-----------------------------------------------------------------------------
(* group_allowed_models.rs, group_key_allowed_models.rs, models.rs,        *)
(* group_user_agents.rs                                                    *)

\* A model given by name is created first.
AllowModel(j) ==
    Asked(j, "allow_model", TRUE,
          [db EXCEPT !.model[j[3]] = IF @ = None THEN 0 ELSE @],
          <<<<"allow">>>> \o Invalidate(j[2]))

Allow(j) ==
    /\ Doing(j, "allow")
    /\ Then(j, \/ db.group[j[2]] = None
               \/ db.model[j[3]] = None
               \/ <<j[2], j[3]>> \in db.allowed,
            [db EXCEPT !.allowed = @ \cup {<<j[2], j[3]>>}], FALSE)

DisallowModel(j) ==
    Asked(j, "disallow_model", <<j[2], j[3]>> \in db.allowed,
          [db EXCEPT !.allowed = @ \ {<<j[2], j[3]>>}],
          <<<<"cascade">>>> \o Invalidate(j[2]))

\* The group's sub-keys lose the model too, in a statement of its own.
Cascade(j) ==
    /\ Doing(j, "cascade")
    /\ Then(j, FALSE, [db EXCEPT !.keyAllowed = @ \ (KeysOf(j[2], db) \X {j[3]})], FALSE)

\* The sub-key need not be one of the group of the path, whose entries are deleted.
OfOther(j) == db.key[j[3]] # None /\ db.key[j[3]].group # j[2]

\* The model must be one of the group's.
AllowKeyModel(j) ==
    Asked(j, "allow_key_model", <<j[2], j[4]>> \in db.allowed, db,
          <<<<"allow_key">>>> \o Invalidate(j[2]))

AllowKey(j) ==
    /\ Doing(j, "allow_key")
    /\ Then(j, db.key[j[3]] = None \/ db.model[j[4]] = None \/ <<j[3], j[4]>> \in db.keyAllowed,
            [db EXCEPT !.keyAllowed = @ \cup {<<j[3], j[4]>>}], OfOther(j))

DisallowKeyModel(j) ==
    LET p == <<j[3], j[4]>>
        d == [db EXCEPT !.keyAllowed = @ \ {p}]
    IN  /\ First(j, "disallow_key_model", p \in db.keyAllowed, d, Invalidate(j[2]))
        /\ excused' = IF p \in db.keyAllowed /\ OfOther(j) THEN excused \cup Outdates(d) ELSE excused

CreateModel(j) ==
    Asked(j, "create_model", db.model[j[2]] = None, [db EXCEPT !.model[j[2]] = 0], <<>>)

\* A model may be renamed.  Nothing is invalidated.
UpdateModel(j) ==
    LET d == [db EXCEPT !.model[j[2]] = Other(@)]
    IN  /\ First(j, "update_model", db.model[j[2]] # None, d, <<>>)
        /\ excused' = IF db.model[j[2]] # None THEN excused \cup Outdates(d) ELSE excused

DeleteModel(j) ==
    Asked(j, "delete_model", \A g \in Groups : <<g, j[2]>> \notin db.allowed, db,
          <<<<"drop_model">>>>)

\* RESTRICT of group_allowed_models and group_key_allowed_models.
DropModel(j) ==
    /\ Doing(j, "drop_model")
    /\ Then(j, \/ \E g \in Groups : <<g, j[2]>> \in db.allowed
               \/ \E k \in Keys : <<k, j[2]>> \in db.keyAllowed,
            [db EXCEPT !.model[j[2]] = None], FALSE)

BlockAgent(j) ==
    Asked(j, "block_agent", db.group[j[2]] # None,
          [db EXCEPT !.blocked = @ \cup {<<j[2], j[3]>>}], Invalidate(j[2]))

UnblockAgent(j) ==
    Asked(j, "unblock_agent", TRUE,
          [db EXCEPT !.blocked = @ \ {<<j[2], j[3]>>}], Invalidate(j[2]))

-----------------------------------------------------------------------------
(* settings.rs, public/user_endpoints.rs                                   *)

\* put_settings: the row is read, the given fields replaced, the row written.
PutSettings(j) ==
    LET merged == [n \in Settings |-> IF n \in j[2] THEN Other(db.setting[n]) ELSE db.setting[n]]
    IN  Asked(j, "put_settings", TRUE, db,
              <<<<"upsert", merged>>>> \o Dels({"setting"} \X j[2]))

\* Fields that were not given go back to what they were when the row was read.
Upsert(j) ==
    /\ Doing(j, "upsert")
    /\ LET row == Head(todo[j])[2]
       IN  Then(j, FALSE, [db EXCEPT !.setting = row],
                \E n \in Settings \ j[2] : row[n] # db.setting[n])

\* create, patch and delete of an endpoint: the key must be active.
ChangeEndpoints(j) ==
    Asked(j, "change_endpoints", \E k \in {j[2]} : db.key[k] # None /\ db.key[k].on, db,
          <<<<"endpoints">>, Del(<<"endpoints", j[2]>>)>>)

WriteEndpoints(j) ==
    /\ Doing(j, "endpoints")
    /\ Then(j, db.key[j[2]] = None, [db EXCEPT !.endpoints[j[2]] = Other(@)], FALSE)

-----------------------------------------------------------------------------
(* key_subscriptions.rs, subscription_plans.rs                             *)

\* assign_subscription: the plan's limits are copied into the row.
Assign(j) ==
    Asked(j, "assign", TRUE, db, <<<<"subscribe", db.limit>>, Del(<<"subs", j[2]>>)>>)

Subscribe(j) ==
    /\ Doing(j, "subscribe")
    /\ Then(j, db.key[j[2]] = None,
            [db EXCEPT !.subs[j[2]] = [active |-> TRUE, limit |-> Head(todo[j])[2], row |-> 0]],
            FALSE)

\* cancel_subscription checks the status it has read, not the one it replaces.
Cancel(j) ==
    Asked(j, "cancel", \E s \in {db.subs[j[2]]} : s # None /\ s.active, db,
          <<<<"cancelled">>, Del(<<"subs", j[2]>>)>>)

SetCancelled(j) ==
    /\ Doing(j, "cancelled")
    /\ Then(j, db.subs[j[2]] = None, [db EXCEPT !.subs[j[2]].active = FALSE], FALSE)

\* reorder_subscriptions and the four updates of a bonus subscription.
ChangeBonus(j) ==
    Asked(j, "change_bonus", db.subs[j[2]] # None, db,
          <<<<"bonus">>, Del(<<"subs", j[2]>>)>>)

SetBonus(j) ==
    /\ Doing(j, "bonus")
    /\ Then(j, db.subs[j[2]] = None, [db EXCEPT !.subs[j[2]].row = Other(@)], FALSE)

\* update_plan: the limits it has written go to the active subscriptions.
UpdatePlan(j) ==
    Asked(j, "update_plan", TRUE, [db EXCEPT !.limit = Other(@)],
          <<<<"sync", Other(db.limit)>>, <<"holders">>>>)

\* sync_rpm and sync_tpm.
SyncPlan(j) == Asked(j, "sync_plan", TRUE, db, <<<<"sync", db.limit>>, <<"holders">>>>)

Sync(j) ==
    /\ Doing(j, "sync")
    /\ LET held(k) == db.subs[k] # None /\ db.subs[k].active
           row(k)  == IF held(k) THEN [db.subs[k] EXCEPT !.limit = Head(todo[j])[2]] ELSE db.subs[k]
       IN  Then(j, FALSE, [db EXCEPT !.subs = [k \in Keys |-> row(k)]], FALSE)

-----------------------------------------------------------------------------
Read == FindGroup \/ FindKey \/ FindOwner \/ ReadRow \/ ReadPart \/ LoseConfig \/ Store

Handle(j) ==
    \/ CreateGroup(j) \/ UpdateGroup(j) \/ BulkActivate(j) \/ DeleteGroups(j)
    \/ RegenerateGroupKey(j) \/ BulkAssign(j)
    \/ AssignServer(j) \/ UpdateAssignment(j) \/ RemoveServer(j)
    \/ CreateServer(j) \/ UpdateServer(j) \/ DeleteServer(j)
    \/ CreateKey(j) \/ UpdateKey(j) \/ RegenerateKey(j) \/ DeleteKey(j)
    \/ AssignKeyServer(j) \/ RemoveKeyServer(j)
    \/ AllowModel(j) \/ DisallowModel(j) \/ AllowKeyModel(j) \/ DisallowKeyModel(j)
    \/ CreateModel(j) \/ UpdateModel(j) \/ DeleteModel(j)
    \/ BlockAgent(j) \/ UnblockAgent(j) \/ PutSettings(j) \/ ChangeEndpoints(j)
    \/ Assign(j) \/ Cancel(j) \/ ChangeBonus(j) \/ UpdatePlan(j) \/ SyncPlan(j)

Continue(j) ==
    \/ Select(j) \/ RunDel(j) \/ Abort(j)
    \/ Erase(j) \/ SetGroupApi(j) \/ Chain(j) \/ DropServer(j) \/ InsertKey(j)
    \/ SetKeyApi(j) \/ DropKey(j) \/ Link(j) \/ Unlink(j)
    \/ Allow(j) \/ Cascade(j) \/ AllowKey(j) \/ DropModel(j)
    \/ Upsert(j) \/ WriteEndpoints(j)
    \/ Subscribe(j) \/ SetCancelled(j) \/ SetBonus(j) \/ Sync(j)

Next ==
    \/ \E e \in Entries : Miss(e) \/ Expire(e)
    \/ Read
    \/ \E j \in Jobs : Handle(j) \/ Continue(j)

Spec == Init /\ [][Next]_vars

-----------------------------------------------------------------------------
(* Properties.                                                             *)

\* Every write is followed by the deletion of every entry it makes stale: an
\* entry that differs from what its rows now say is about to be deleted, or it
\* is stale for a cause that is known (a failed command or query, a fill that
\* was under way, a row read before a concurrent change, a write that
\* invalidates nothing).
StaleIsDeleted ==
    \A e \in Entries :
        cached[e] \notin {None, Fresh(e, db)} /\ InReach(e, db) =>
            e \in excused \/ \E j \in Jobs : e \in Pending(j)
=============================================================================
