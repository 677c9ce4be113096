----------------------------- MODULE MCDevices ------------------------------
(***************************************************************************)
(* Instances of VirtualDevices for TLC: two attempts at a plug.            *)
(***************************************************************************)
EXTENDS VirtualDevices

\* The machine as the program likes it, the window closing at any moment.
Good      == {"close", "leftover", "slow"}

\* What stands in the way of a plug.
Blocked   == {"close", "stale", "taken"}

\* Requests that are turned down, and ones that fail.
Refusing  == {"close", "refuse"}
Hanging   == {"fail", "hang", "stale", "taken"}

\* No window is closed: main returns, and perhaps another copy is waiting.
Orderly   == {"leftover", "fail", "recovery", "stale", "another"}

MCSurroundings == {Good, Blocked, Refusing, Hanging, Orderly}

\* One behaviour each, for the runs that show what the code does not keep.
MCClose   == {{"close"}}
MCAnother == {{"another"}}

\* The window is closed while main waits for a key in the menu, where the App
\* holds the driver as Shared does.
ClosedInMenu == closing => steps["main"] = <<"menu">>
=============================================================================
