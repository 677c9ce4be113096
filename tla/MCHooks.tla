------------------------------ MODULE MCHooks ------------------------------
(***************************************************************************)
(* An instance of HookThread for TLC: one handle for each kind, one for    *)
(* the hook that replaces it and one to spare, in every surroundings.      *)
(***************************************************************************)
EXTENDS HookThread

CONSTANTS h1, h2, h3, h4, none

MCHandles      == {h1, h2, h3, h4}
MCSurroundings == SUBSET Behaviours
=============================================================================
