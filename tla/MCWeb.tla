------------------------------- MODULE MCWeb -------------------------------
(* The instance of Web for TLC: the values of the constants that are not     *)
(* plain numbers or model values.                                            *)
EXTENDS Web

\* Two presets of different length, a shortest range between them and a tick
MCPresets == [h1 |-> 6, d7 |-> 8]

\* Series without data, with a late start, an early end and a peak that falls
MCLanes == [line  |-> {<<None>>, <<4>>, <<10>>},
            stack |-> {<<None, 4>>, <<9, None>>, <<4, 13>>}]

\* Equal and missing numbers, names that sort against them, both platforms; a
\* network with servers of one platform only
MCItems == <<[name |-> 2, type |-> "PC", players |-> None, trend |-> 1],
             [name |-> 1, type |-> "PE", players |-> 1, trend |-> None],
             [name |-> 3, type |-> "PC", players |-> 1, trend |-> -1]>>
MCNetwork == {1, 3}
MCElsewhere == {[field |-> "players", order |-> "asc"]}

MCNumbers == [llm_context_max |-> {2, 3}, llm_context_reserve |-> {1, 2}]
MCLists == {<<"a">>, <<"a", "">>}

MCBodies == {[host |-> 1, port |-> None], [host |-> 1, port |-> 2]}
MCRow(port, status) == [body |-> [host |-> 1, port |-> port], status |-> status]
MCStored == [servers     |-> <<MCRow(None, "active")>>,
             suggestions |-> <<MCRow(None, "pending")>>,
             users       |-> <<[body |-> {}, status |-> "user"]>>]
=============================================================================
