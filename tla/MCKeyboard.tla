----------------------------- MODULE MCKeyboard -----------------------------
(***************************************************************************)
(* Instances of KeyboardRedirect for TLC: two keys a and b, one modifier m.*)
(***************************************************************************)
EXTENDS KeyboardRedirect

CONSTANTS a, b, m

MCKeys == {a, b}
MCMods == {m}

\* Everything but what the properties exclude, in sets that keep the state
\* space small: each behaviour meets a switch-off and the window closing.
Everyday == {"off", "repeat", "elsewhere", "close"}
Raced    == {"off", "repeat", "race", "close"}
Noisy    == {"off", "repeat", "contend", "close"}
Slow     == {"off", "burst", "late", "close"}

MCSurroundings == {Everyday, Raced, Noisy, Slow}

\* Where a key that is let go has to come up: an ordinary session.
MCSession == {{"off", "repeat", "elsewhere"}}

\* One behaviour each, for the runs that show what the code does not keep.
MCRepeatRace == {{"off", "race", "repeat"}}
MCContend    == {{"contend"}}
MCLate       == {{"late"}}
MCPlain      == {{}}
=============================================================================
