----------------------------- MODULE MCFrontEnd -----------------------------
(***************************************************************************)
(* Instances of FrontEnd for TLC: one key for every branch of the menu and *)
(* of the questions.  Two records are queued, so that one can be read      *)
(* ahead of another.                                                       *)
(***************************************************************************)
EXTENDS FrontEnd

MCKeys == {"1", "3", "4", "r", "esc", "y"}
=============================================================================
