----------------------------- MODULE MCGenerate -----------------------------
(***************************************************************************)
(* Generate for TLC.  Between the models a path is generated and no longer *)
(* is (entity), is generated by one and scaffold-once in the other         *)
(* (impl: a domain service's implementation has the path of an entity      *)
(* called the same), is rendered twice (an entity and an event of one      *)
(* name), or is no Go file (the OpenAPI document).                         *)
(***************************************************************************)
EXTENDS Generate, TLC

MCPaths == {"entity", "impl", "yaml"}
MCGoPaths == MCPaths \ {"yaml"}
MCTexts == {"v1", "v2", "scaffold", "user"}

Gen(p, text) ==
  [path |-> p, once |-> FALSE, valid |-> TRUE,
   content |-> [text |-> text, marked |-> p \in MCGoPaths]]
Scaffold(p) ==
  [path |-> p, once |-> TRUE, valid |-> TRUE,
   content |-> [text |-> "scaffold", marked |-> FALSE]]
Broken(f) == [f EXCEPT !.valid = FALSE]

MCFiles(m) ==
  CASE m = "m1" -> <<Gen("entity", "v1"), Gen("impl", "v1"), Gen("yaml", "v1")>>
    [] m = "m2" -> <<Gen("entity", "v1"), Gen("entity", "v2"), Scaffold("impl")>>
    [] m = "m3" -> <<Scaffold("impl"), Gen("impl", "v2")>>
    [] m = "m4" -> <<Gen("impl", "v2"), Broken(Gen("entity", "v2"))>>
    [] m = "m5" -> <<Gen("impl", "v1")>>
MCSkipPrune(m) == m = "m5"
=============================================================================
