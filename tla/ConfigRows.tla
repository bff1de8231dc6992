---------------------------- MODULE ConfigRows ----------------------------
(***************************************************************************)
(* The rows behind the cached configuration, and what a request makes of   *)
(* them: resolve_group_config (proxy.rs) assembles a key's configuration   *)
(* from eight queries, the other caches hold the result of one.            *)
(*                                                                         *)
(* db is one record of tables.  Columns that only travel into a            *)
(* configuration are one version number per row.                           *)
(***************************************************************************)
EXTENDS Naturals, Sequences, FiniteSets

CONSTANTS
    None,
    Groups,
    Keys,        \* rows of group_keys
    Servers,
    Models,
    Agents,      \* user agents
    ApiKeys,     \* what a request may present
    Settings     \* the settings proxies read through Redis

Versions == 0..1

(***************************************************************************)
(* A key has at most one subscription, of the one plan, whose limits are   *)
(* db.limit.                                                               *)
(***************************************************************************)

\* The other value of a column.
Other(v) == 1 - v

GroupRows  == [api: ApiKeys, on: BOOLEAN, ct: Servers \cup {None}]
KeyRows    == [group: Groups, api: ApiKeys, on: BOOLEAN]
AssignRows == [on: BOOLEAN, row: Versions]
SubRows    == [active: BOOLEAN, limit: Versions, row: Versions]

\* What a request stores for an API key.
Configs ==
    [group: Groups, key: Keys \cup {None}, row: GroupRows \cup {None},
     servers: {<<>>} \cup UNION {[S -> Versions \X Versions] : S \in SUBSET Servers},
     ct: (Servers \X Versions) \cup {None},
     allowed: SUBSET (Models \X Versions), keyAllowed: SUBSET (Models \X Versions),
     blocked: SUBSET Agents]

ASSUME RowsAssumption ==
    /\ None \notin Versions \cup GroupRows \cup KeyRows \cup AssignRows \cup SubRows
    /\ None \notin Keys \cup Servers
    /\ None \notin Configs
    /\ \A S \in {Groups, Keys, Settings} : IsFiniteSet(S)

DbType ==
    [group:      [Groups -> GroupRows \cup {None}],
     key:        [Keys -> KeyRows \cup {None}],
     server:     [Servers -> Versions \cup {None}],
     chain:      [Groups \X Servers -> AssignRows \cup {None}],
     keyServers: SUBSET (Keys \X Servers),
     model:      [Models -> Versions \cup {None}],
     allowed:    SUBSET (Groups \X Models),
     keyAllowed: SUBSET (Keys \X Models),
     blocked:    SUBSET (Groups \X Agents),
     setting:    [Settings -> Versions],
     endpoints:  [Keys -> Versions],
     limit:      Versions,
     subs:       [Keys -> SubRows \cup {None}]]

\* The foreign keys of the tables.
Referential(d) ==
    /\ \A g \in Groups : d.group[g] # None /\ d.group[g].ct # None => d.server[d.group[g].ct] # None
    /\ \A k \in Keys : d.key[k] # None => d.group[d.key[k].group] # None
    /\ \A p \in Groups \X Servers :
          d.chain[p] # None => d.group[p[1]] # None /\ d.server[p[2]] # None
    /\ \A p \in d.keyServers : d.key[p[1]] # None /\ d.server[p[2]] # None
    /\ \A p \in d.allowed : d.group[p[1]] # None /\ d.model[p[2]] # None
    /\ \A p \in d.keyAllowed : d.key[p[1]] # None /\ d.model[p[2]] # None
    /\ \A p \in d.blocked : d.group[p[1]] # None
    /\ \A k \in Keys : d.subs[k] # None => d.key[k] # None

\* UNIQUE of groups.api_key and of group_keys.api_key.  One generator makes both,
\* of 24 random characters each.
UniqueApis(d) ==
    /\ \A g, h \in Groups :
          d.group[g] # None /\ d.group[h] # None /\ d.group[g].api = d.group[h].api => g = h
    /\ \A k, l \in Keys :
          d.key[k] # None /\ d.key[l] # None /\ d.key[k].api = d.key[l].api => k = l
    /\ \A g \in Groups, k \in Keys :
          d.group[g] # None /\ d.key[k] # None => d.group[g].api # d.key[k].api

-----------------------------------------------------------------------------
(* The parts of a configuration, each from its own query.                  *)

\* SELECT ... FROM groups WHERE api_key = $1, and the same of group_keys.
GroupsWith(api, d) == {g \in Groups : d.group[g] # None /\ d.group[g].api = api}
KeysWith(api, d)   == {k \in Keys : d.key[k] # None /\ d.key[k].api = api}

\* An API key that no row has.
Unused(api, d) == GroupsWith(api, d) = {} /\ KeysWith(api, d) = {}

\* group_servers JOIN servers WHERE is_enabled.
ServersOf(g, d) ==
    [s \in {t \in Servers : d.chain[<<g, t>>] # None /\ d.chain[<<g, t>>].on /\ d.server[t] # None}
       |-> <<d.chain[<<g, s>>].row, d.server[s]>>]

\* The servers assigned to a key; without an assignment all of the group's.
Filter(servers, k, d) ==
    LET mine == {s \in Servers : <<k, s>> \in d.keyServers}
    IN  IF k = None \/ mine = {} THEN servers
        ELSE [s \in mine \cap DOMAIN servers |-> servers[s]]

CountTokens(s, d) ==
    IF s = None THEN None ELSE IF d.server[s] = None THEN None ELSE <<s, d.server[s]>>

AllowedOf(g, d) == {<<m, d.model[m]>> : m \in {n \in Models : <<g, n>> \in d.allowed}}

KeyAllowedOf(k, d) == {<<m, d.model[m]>> : m \in {n \in Models : <<k, n>> \in d.keyAllowed}}

BlockedOf(g, d) == {a \in Agents : <<g, a>> \in d.blocked}

\* A configuration before its first query, and of a disabled sub-key.
Blank(g, k) ==
    [group |-> g, key |-> k, row |-> None, servers |-> <<>>, ct |-> None,
     allowed |-> {}, keyAllowed |-> {}, blocked |-> {}]

\* The queries that follow the lookup of group and key, in their order.
Parts == <<"servers", "keyServers", "ct", "allowed", "keyAllowed", "blocked">>

\* c with one more part read.
WithPart(c, part, d) ==
    CASE part = "servers"    -> [c EXCEPT !.servers = ServersOf(c.group, d)]
      [] part = "keyServers" -> [c EXCEPT !.servers = Filter(@, c.key, d)]
      [] part = "ct"         -> [c EXCEPT !.ct = CountTokens(c.row.ct, d)]
      [] part = "allowed"    -> [c EXCEPT !.allowed = AllowedOf(c.group, d)]
      [] part = "keyAllowed" -> [c EXCEPT !.keyAllowed = KeyAllowedOf(c.key, d)]
      [] part = "blocked"    -> [c EXCEPT !.blocked = BlockedOf(c.group, d)]

\* All of it from one state of the tables.
Whole(g, k, d) ==
    [group |-> g, key |-> k, row |-> d.group[g],
     servers |-> Filter(ServersOf(g, d), k, d), ct |-> CountTokens(d.group[g].ct, d),
     allowed |-> AllowedOf(g, d), keyAllowed |-> KeyAllowedOf(k, d),
     blocked |-> BlockedOf(g, d)]

ConfigOf(api, d) ==
    IF GroupsWith(api, d) # {} THEN Whole(CHOOSE g \in GroupsWith(api, d) : TRUE, None, d)
    ELSE IF KeysWith(api, d) = {} THEN None
    ELSE LET k == CHOOSE k \in KeysWith(api, d) : TRUE
         IN  IF d.key[k].on THEN Whole(d.key[k].group, k, d) ELSE Blank(d.key[k].group, k)

-----------------------------------------------------------------------------
(* The caches: one entry per API key, setting, and key's list of endpoints *)
(* and of subscriptions.                                                   *)

ConfigEntries  == {"config"} \X ApiKeys
ListEntries    == {"endpoints", "subs"} \X Keys
SettingEntries == {"setting"} \X Settings

\* What a fill that met no write in between would store.
Fresh(e, d) ==
    CASE e[1] = "config"    -> ConfigOf(e[2], d)
      [] e[1] = "setting"   -> d.setting[e[2]]
      [] e[1] = "endpoints" -> {d.endpoints[e[2]]}
      [] e[1] = "subs"      -> {d.subs[e[2]]} \ {None}

\* No request comes to the lists of a key that is gone.
InReach(e, d) == e \in ListEntries => d.key[e[2]] # None

\* The sub-keys of a group.
KeysOf(g, d)  == {k \in Keys : d.key[k] # None /\ d.key[k].group = g}

\* Fault: the UNION with the groups whose count-tokens server it is forgotten.
UsersOfChain(s, d) == {g \in Groups : d.group[g] # None /\ d.chain[<<g, s>>] # None}

\* The groups a server serves, in their chains or to count tokens.
UsersOf(s, d) == {g \in Groups : d.group[g] # None /\ (d.chain[<<g, s>>] # None \/ d.group[g].ct = s)}

-----------------------------------------------------------------------------
(* Writes that reach several tables: ON DELETE CASCADE and SET NULL.       *)

WithoutKeys(ks, d) ==
    [d EXCEPT !.key  = [k \in Keys |-> IF k \in ks THEN None ELSE d.key[k]],
              !.subs = [k \in Keys |-> IF k \in ks THEN None ELSE d.subs[k]],
              !.keyServers = @ \ (ks \X Servers),
              !.keyAllowed = @ \ (ks \X Models)]

\* Fault: sub-keys survive their group.
WithoutGroupsAlone(gs, d) ==
    [d EXCEPT
        !.group = [g \in Groups |-> IF g \in gs THEN None ELSE d.group[g]],
        !.chain = [p \in Groups \X Servers |-> IF p[1] \in gs THEN None ELSE d.chain[p]],
        !.allowed = @ \ (gs \X Models),
        !.blocked = @ \ (gs \X Agents)]

WithoutGroups(gs, d) ==
    [WithoutKeys(UNION {KeysOf(g, d) : g \in gs}, d) EXCEPT
        !.group = [g \in Groups |-> IF g \in gs THEN None ELSE d.group[g]],
        !.chain = [p \in Groups \X Servers |-> IF p[1] \in gs THEN None ELSE d.chain[p]],
        !.allowed = @ \ (gs \X Models),
        !.blocked = @ \ (gs \X Agents)]

WithoutServer(s, d) ==
    LET refers(g) == d.group[g] # None /\ d.group[g].ct = s
    IN  [d EXCEPT !.server[s] = None,
                  !.group = [g \in Groups |-> IF refers(g) THEN [d.group[g] EXCEPT !.ct = None]
                                              ELSE d.group[g]]]
=============================================================================
