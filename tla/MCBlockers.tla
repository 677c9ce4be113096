----------------------------- MODULE MCBlockers -----------------------------
(***************************************************************************)
(* Instances of Blockers for TLC: two process ids.                         *)
(***************************************************************************)
EXTENDS Blockers

CONSTANTS p1, p2, none

MCPids         == {p1, p2}
MCSurroundings == {{"rebuild"}, {"recover"}, {"slow", "recover"}, {"refuse"},
                   {"denied", "reuse"}, {"reuse", "rebuild"}}
=============================================================================
