------------------------------- MODULE Clicks -------------------------------
(***************************************************************************)
(* What the mouse half of the redirect promises, with no hook, queue or    *)
(* device in sight.  The user presses and lets go of buttons; each press   *)
(* and each release is shown to the applications once, sooner or later.    *)
(* The redirect may hold a button for the user while a press of it is on   *)
(* its way, and let go of it while a release is.  It makes no press of its *)
(* own, and a release only when it is switched off: one for each button it *)
(* holds then.                                                             *)
(***************************************************************************)
EXTENDS Naturals

CONSTANT Buttons

VARIABLES
    hand,      \* buttons the user holds down
    on,        \* the redirect is on
    held,      \* buttons it holds for the user
    presses,   \* presses of each button the applications have yet to see
    releases,  \* releases of each button they have yet to see
    down       \* buttons they believe held down

redirect == <<on, held>>
way      == <<presses, releases>>
vars     == <<hand, redirect, way, down>>

Init ==
    /\ hand = {} /\ on = FALSE /\ held = {}
    /\ presses = [b \in Buttons |-> 0]
    /\ releases = [b \in Buttons |-> 0]
    /\ down = {}

Press(b) ==
    /\ b \notin hand /\ hand' = hand \cup {b}
    /\ presses' = [presses EXCEPT ![b] = @ + 1]
    /\ UNCHANGED <<redirect, releases, down>>

Release(b) ==
    /\ b \in hand /\ hand' = hand \ {b}
    /\ releases' = [releases EXCEPT ![b] = @ + 1]
    /\ UNCHANGED <<redirect, presses, down>>

Show(b) ==
    /\ presses[b] > 0
    /\ presses' = [presses EXCEPT ![b] = @ - 1]
    /\ down' = down \cup {b}
    /\ UNCHANGED <<hand, redirect, releases>>

Lift(b) ==
    /\ releases[b] > 0
    /\ releases' = [releases EXCEPT ![b] = @ - 1]
    /\ down' = down \ {b}
    /\ UNCHANGED <<hand, redirect, presses>>

\* A press on its way makes the redirect hold the button, a release let it go.
Hold(b) ==
    /\ on /\ presses[b] > 0 /\ b \notin held
    /\ held' = held \cup {b}
    /\ UNCHANGED <<hand, on, way, down>>

LetGo(b) ==
    /\ on /\ releases[b] > 0 /\ b \in held
    /\ held' = held \ {b}
    /\ UNCHANGED <<hand, on, way, down>>

Switch == on' = ~on /\ UNCHANGED <<hand, held, way, down>>

\* What a redirect that is switched off still holds is let go, all at once.
Cut ==
    /\ ~on
    /\ held' = {}
    /\ releases' = [b \in Buttons |-> releases[b] + IF b \in held THEN 1 ELSE 0]
    /\ UNCHANGED <<hand, on, presses, down>>

Next == \/ \E b \in Buttons : \/ Press(b) \/ Release(b) \/ Show(b) \/ Lift(b)
                              \/ Hold(b) \/ LetGo(b)
        \/ Switch \/ Cut

Fairness == \A b \in Buttons : WF_vars(Show(b)) /\ WF_vars(Lift(b))

Spec == Init /\ [][Next]_vars /\ Fairness
=============================================================================
