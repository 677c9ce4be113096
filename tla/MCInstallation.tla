--------------------------- MODULE MCInstallation ---------------------------
(***************************************************************************)
(* Instances of Installation for TLC.                                      *)
(***************************************************************************)
EXTENDS Installation

\* A machine where all goes well, but for root devices and slow starts.
Smooth  == {"refuse", "idle"}

\* Requests fail and sessions are killed, with and without somebody who keeps
\* the driver open.
Broken  == {"fail", "kill"}
Busy    == {"held", "idle"}
Worst   == {"fail", "kill", "held", "refuse", "idle"}

\* An older build was here, or one that does not give its version.
Aged    == {"oldFlag", "held"}
Mute    == {"unread", "held"}

MCSurroundings == {Smooth, Broken, Busy, Worst, Aged, Mute}

\* One behaviour each, for the runs that show what the code does not keep.
MCFail == {{"fail"}}

\* The replacement alone: nobody asks for the driver to be removed, and it stops
\* with its binary.
ReplacesOnly == ~At("roots") /\ (running => file["bus"] /= "none")
=============================================================================
