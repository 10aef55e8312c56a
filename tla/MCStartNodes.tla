---------------------------- MODULE MCStartNodes ----------------------------
(***************************************************************************)
(* Graphs of none, one and four vertices; files with no vertex, a vertex   *)
(* twice, and a vertex outside the graph; three percentages.               *)
(***************************************************************************)
EXTENDS StartNodes

MCGraphs ==
  {[node_count |-> 0, pairs |-> {}],
   [node_count |-> 1, pairs |-> {<<0, 0>>}],
   [node_count |-> 4, pairs |-> {<<0, 1>>, <<0, 2>>, <<1, 2>>, <<3, 0>>, <<3, 3>>}],
   [node_count |-> 4, pairs |-> {<<1, 1>>, <<1, 0>>, <<2, 0>>, <<2, 3>>}]}

MCStartFiles ==
  [path \in {"empty", "twice", "two", "outside"} |->
     CASE path = "empty" -> <<>> [] path = "twice" -> <<0, 0>>
       [] path = "two" -> <<1, 3>> [] OTHER -> <<0, 4>>]

MCCommandLines ==
  {o \in [is_multiple_source : BOOLEAN, use_start_nodes : BOOLEAN, random_percent : {0, 10, 60, 100},
          start_nodes_path : DOMAIN MCStartFiles \cup {NoPath}] :
     /\ o.use_start_nodes => o.random_percent = 0
     /\ ~o.use_start_nodes => o.start_nodes_path \in {NoPath, "two"}
     /\ ~o.is_multiple_source => o.random_percent # 60 /\ o.start_nodes_path \in {NoPath, "outside"}}

MCRands == {<<0, 0, 0, 0>>, <<7, 5, 3, 1>>, <<1, 2, 1, 4>>, <<3, 0, 5, 2>>}
=============================================================================
