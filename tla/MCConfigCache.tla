--------------------------- MODULE MCConfigCache ---------------------------
(* A small instance of ConfigCache: two groups, one of them with a sub-key, *)
(* and plans of one or two handlers.                                        *)
EXTENDS ConfigCache, TLC

CONSTANTS g1, g2, g3, k1, k2, s1, s2, s3, s4, m1, m2, ua, A1, A2, K1, N1, N2

\* s1 serves both groups, s2 counts tokens for g1, s3 is not used, s4
\* is yet to come.
Start ==
    [group      |-> (g1 :> [api |-> A1, on |-> TRUE, ct |-> s2] @@ g2 :> [api |-> A2, on |-> TRUE, ct |-> None]
                      @@ g3 :> None),
     key        |-> (k1 :> [group |-> g1, api |-> K1, on |-> TRUE] @@ k2 :> None),
     server     |-> [s \in Servers |-> IF s = s4 THEN None ELSE 0],
     chain      |-> [p \in Groups \X Servers |-> IF p \in {<<g1, s1>>, <<g2, s1>>} THEN [on |-> TRUE, row |-> 0] ELSE None],
     keyServers |-> {},
     model      |-> (m1 :> 0 @@ m2 :> None),
     allowed    |-> {<<g1, m1>>},
     keyAllowed |-> {<<k1, m1>>},
     blocked    |-> {},
     setting    |-> [n \in Settings |-> 0],
     endpoints  |-> [k \in Keys |-> 0],
     limit      |-> 0,
     subs       |-> (k1 :> [active |-> TRUE, limit |-> 0, row |-> 0] @@ k2 :> None)]

OfGroup    == {<<"config", A1>>, <<"config", K1>>}
BothGroups == {<<"config", K1>>, <<"config", A2>>}
KeyApis    == {<<"config", K1>>, <<"config", N1>>}
GroupApis  == {<<"config", A1>>, <<"config", N1>>}
List       == {<<"subs", k1>>}

Plan(js, es, n) == [jobs |-> js, wanted |-> es, failures |-> n]

\* One handler and the requests it concerns, with one failure.
Single ==
    {Plan({j}, OfGroup, 1) : j \in
        {<<"update_group", g1, None>>, <<"remove_server", g1, s1>>, <<"assign_server", g1, s3>>,
         <<"update_assignment", g1, s1>>, <<"update_server", s2>>, <<"delete_server", s2>>,
         <<"allow_model", g1, m2>>, <<"disallow_model", g1, m1>>, <<"update_model", m1>>,
         <<"disallow_key_model", g1, k1, m1>>, <<"block_agent", g1, ua>>}}
    \cup {Plan({j}, BothGroups, 1) : j \in
        {<<"bulk_activate", {g1, g2}, FALSE>>, <<"delete_groups", {g1, g2}>>,
         <<"bulk_assign", {g1, g2}, s3>>, <<"update_server", s1>>}}
    \cup {Plan({j}, KeyApis, 1) : j \in
        {<<"create_key", k2, g1, N1, FALSE>>, <<"update_key", k1>>, <<"delete_key", k1>>,
         <<"regenerate_key", k1, N1>>, <<"assign_key_server", k1, s1>>}}
    \cup {Plan({<<"regenerate_group_key", g1, N1>>}, GroupApis, 1),
          Plan({<<"change_endpoints", k1>>}, {<<"endpoints", k1>>}, 1)}
    \cup {Plan({j}, List, 1) : j \in
        {<<"assign", k1>>, <<"cancel", k1>>, <<"change_bonus", k1>>, <<"update_plan">>}}
    \cup {Plan({<<"put_settings", {"timezone"}>>}, {<<"setting", "timezone">>}, 1)}

\* Two handlers at once.
Pairs ==
    {Plan(js, {<<"config", K1>>}, 0) : js \in
        {{<<"update_group", g1, s1>>, <<"delete_groups", {g1}>>},
         {<<"bulk_assign", {g1, g2}, s3>>, <<"delete_groups", {g2}>>},
         {<<"remove_server", g1, s1>>, <<"assign_key_server", k1, s1>>},
         {<<"remove_server", g1, s1>>, <<"update_server", s1>>},
         {<<"assign_server", g1, s3>>, <<"delete_server", s3>>},
         {<<"disallow_model", g1, m1>>, <<"delete_model", m1>>},
         {<<"allow_model", g1, m2>>, <<"allow_key_model", g1, k1, m2>>},
         {<<"disallow_model", g1, m1>>, <<"disallow_key_model", g1, k1, m1>>},
         {<<"disallow_key_model", g2, k1, m1>>},
         {<<"allow_model", g2, m2>>, <<"allow_key_model", g2, k1, m2>>},
         {<<"block_agent", g1, ua>>, <<"unblock_agent", g1, ua>>},
         {<<"update_group", g1, None>>, <<"delete_server", s2>>},
         {<<"create_model", m2>>, <<"delete_model", m2>>},
         {<<"create_server", s4>>, <<"assign_server", g1, s4>>},
         {<<"update_key", k1>>, <<"delete_groups", {g1}>>}}}
    \cup {Plan({<<"create_group", g3, N1>>, <<"block_agent", g3, ua>>}, {<<"config", N1>>}, 0),
          Plan({<<"assign_key_server", k1, s1>>, <<"remove_key_server", k1, s1>>}, {<<"config", K1>>}, 0),
          Plan({<<"regenerate_key", k1, N1>>, <<"assign_key_server", k1, s1>>}, KeyApis, 0),
          Plan({<<"regenerate_key", k1, N1>>, <<"delete_key", k1>>}, KeyApis, 0),
          Plan({<<"regenerate_key", k1, N1>>, <<"regenerate_key", k1, N2>>}, KeyApis, 0),
          Plan({<<"regenerate_group_key", g1, N1>>, <<"update_group", g1, None>>}, GroupApis, 0),
          Plan({<<"create_key", k2, g1, N1, TRUE>>, <<"update_plan">>}, {<<"subs", k1>>, <<"subs", k2>>}, 0),
          Plan({<<"assign", k1>>, <<"update_plan">>}, List, 0),
          Plan({<<"cancel", k1>>, <<"sync_plan">>}, List, 0),
          Plan({<<"change_endpoints", k1>>, <<"delete_key", k1>>}, {<<"endpoints", k1>>}, 0),
          Plan({<<"put_settings", {"timezone"}>>, <<"put_settings", {"blocked_paths"}>>},
               {<<"setting", "timezone">>, <<"setting", "blocked_paths">>}, 0)}

Small == Single \cup Pairs
=============================================================================
