------------------------------ MODULE MCMouse ------------------------------
(***************************************************************************)
(* Instances of MouseRedirect for TLC: two buttons and two mice, so that a *)
(* button can be held twice.                                               *)
(***************************************************************************)
EXTENDS MouseRedirect

CONSTANTS left, right

MCButtons == {left, right}
MCMice    == {1, 2}

\* Everything the properties let happen, in sets that keep the state space
\* small: each behaviour meets a switch-off and a closing window.
MCSurroundings == {{"off"}, {"off", "race", "close"}, {"off", "contend", "close"},
                   {"both", "off"}, {"unheard", "off"}, {"late", "off"},
                   {"refuse", "off"}}
=============================================================================
