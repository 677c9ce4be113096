---------------------------- MODULE Installation ----------------------------
(***************************************************************************)
(* The driver package over many sessions and restarts of the machine       *)
(* (app/mod.rs, app/actions.rs, driver/mod.rs, driver/install/mod.rs,      *)
(* driver/version.rs, driver/reboot.rs).  A session decides at the gate    *)
(* whether it may start at all, installs, replaces or re-binds the driver, *)
(* offers the menu, and may remove the driver again; it can fail or be     *)
(* killed between any two requests to Windows.  What outlives it is in     *)
(* Windows: the driver store, the binaries on disk, what a restart will do *)
(* to them, the root devices, and the note that a restart is owed.         *)
(*                                                                         *)
(* The steps of the program are translated from the code; what Windows     *)
(* does with a request is modelled from what the code asks and expects.    *)
(* The virtual devices are left to VirtualDevices.                         *)
(***************************************************************************)
EXTENDS Naturals, FiniteSets

CONSTANTS
    Surroundings   \* the sets of Behaviours a run looks at

(***************************************************************************)
(* What may stand in the way until it is Mended.                           *)
(*   fail     a request to Windows fails, with or without its effect: a    *)
(*            bad exit code, or more than INSTALLER_TIMEOUT                *)
(*   kill     the window is closed in the middle of a session              *)
(*   held     somebody keeps the driver open: changes wait for a restart   *)
(*   refuse   a root device will not be removed                            *)
(*   idle     the driver does not start within STARTUP_TIMEOUT             *)
(*   unread   the version of a binary cannot be read                       *)
(*   oldFlag  an older build has left its note behind, and not a volatile  *)
(*            one                                                          *)
(***************************************************************************)
Behaviours == {"fail", "kill", "held", "refuse", "idle", "unread", "oldFlag"}

ASSUME EnvAssumption == Surroundings \subseteq SUBSET Behaviours

Packages  == {"bus", "hid"}              \* BUS_PACKAGE, which brings the core, and HID_PACKAGE
Builds    == {"ours", "other"}           \* the build this program speaks to, and any other
Published == Packages \X Builds          \* an oemNN.inf
Requests  == {"menu", "remove"}          \* the command line, a headless redirect being a menu

Answers == {"none", "nothing", "refused", "kept", "failed", "restartRequired", "restarted",
            "removed", "quit", "killed"}

VARIABLES
    env,       \* the behaviours of this run, chosen once
    mended,    \* nothing stands in the way any more
    pc,        \* where the session is, or "off"
    request,   \* what it was started for
    todo,      \* the published names still to delete
    finished,  \* Finished, as add_packages and replace add it up
    said,      \* how the last session ended
    store,     \* the driver store: what is published
    file,      \* the binaries of each package under System32\drivers
    later,     \* what the restart will do to them
    roots,     \* how many root devices there are
    running,   \* service::driver_running
    flag,      \* RestartPending
    lasting,   \* its key outlives a restart, not being volatile
    owed,      \* the driver was removed and the machine has not restarted since
    answered   \* ... and a session has met a driver that still answers

session == <<request, todo, finished, said>>
windows == <<store, file, later, roots, running>>
note    == <<flag, lasting, owed, answered>>
vars    == <<env, mended, pc, session, windows, note>>

Faulty(b) == b \in env /\ ~mended

-----------------------------------------------------------------------------
\* driver_installed: the service goes with the binary, but not before a driver
\* that Windows keeps in memory has stopped.

Service == file["bus"] /= "none" \/ running

\* version::mismatch: it takes a readable version on both sides to differ.  A
\* binary that is not there or cannot be read is no mismatch.

Mismatch   == \E p \in Packages : file[p] = "other"
NoMismatch == ~Mismatch \/ Faulty("unread")

\* Both packages of one build, installed and bound.
Installed(b) == /\ store = Packages \X {b}
                /\ file = [p \in Packages |-> b]

Init ==
    /\ env \in Surroundings /\ mended = FALSE
    /\ pc = "off" /\ request = "menu" /\ todo = {} /\ finished = "Now" /\ said = "none"
    /\ \/ store = {} /\ file = [p \in Packages |-> "none"] /\ roots = 0
       \/ Installed("ours") /\ roots = 1
       \/ Installed("other") /\ roots \in {1, 2}
    /\ later = [p \in Packages |-> "same"]
    /\ running = (roots > 0)
    /\ flag = ("oldFlag" \in env) /\ lasting \in BOOLEAN /\ (flag => lasting)
    /\ owed = FALSE /\ answered = FALSE

Go(place)   == pc' = place /\ UNCHANGED <<request, said>>
End(answer) ==
    /\ pc' = "off" /\ said' = answer /\ todo' = {} /\ finished' = "Now"
    /\ UNCHANGED request

Kept == UNCHANGED <<todo, finished>>

\* stop_all: a kernel driver may or may not stop when it is asked to.
MayStop == running' \in {running, FALSE}

-----------------------------------------------------------------------------
\* Windows: what becomes of a package.

\* pnputil /delete-driver /uninstall /force, done at once: the binaries go with
\* the package if they are of it and nobody has them open.  A driver in memory
\* may go on answering (reboot.rs).
Deletes(x) ==
    /\ file[x[1]] = x[2] => later[x[1]] = "same"
    /\ store' = store \ {x}
    /\ file'  = IF file[x[1]] = x[2] THEN [file EXCEPT ![x[1]] = "none"] ELSE file
    /\ later' = IF later[x[1]] = x[2] THEN [later EXCEPT ![x[1]] = "none"] ELSE later
    /\ MayStop
    /\ UNCHANGED roots

\* ... or at the next start (3010), the driver answering until then.
DeletesLater(x) ==
    /\ file[x[1]] = x[2]
    /\ Faulty("held") \/ later[x[1]] /= "same"
    /\ store' = store \ {x}
    /\ later' = [later EXCEPT ![x[1]] = "none"]
    /\ UNCHANGED <<file, roots, running>>

\* A package is published, and its binaries copied if a device needs them.
Copies(p, needed) ==
    /\ later[p] = "same"
    /\ store' = store \cup {<<p, "ours">>}
    /\ file' = IF needed THEN [file EXCEPT ![p] = "ours"] ELSE file
    /\ UNCHANGED <<later, running>>

\* ... at the next start, for binaries that are open or about to change.
CopiesLater(p) ==
    /\ file[p] /= "none"
    /\ Faulty("held") \/ later[p] /= "same"
    /\ store' = store \cup {<<p, "ours">>}
    /\ later' = [later EXCEPT ![p] = "ours"]
    /\ UNCHANGED <<file, running>>

\* The bus matches a root device; the HID driver a device a session left behind.
Adds(p) ==
    /\ \E needed \in BOOLEAN : Copies(p, needed) /\ (p = "bus" => needed = (roots > 0))
    /\ UNCHANGED roots
AddsLater(p) == CopiesLater(p) /\ UNCHANGED roots

\* A re-bind is vetoed without a word while somebody has the bus open.
Vetoed == Faulty("held") /\ Service /\ UNCHANGED <<store, file, later, running>>

Untouched == UNCHANGED windows

-----------------------------------------------------------------------------
\* App::run up to the menu: the gate.

At(place) == pc = place

Launch(r) ==
    /\ At("off")
    /\ pc' = "gate" /\ request' = r
    /\ UNCHANGED <<env, mended, todo, finished, said, windows, note>>

NothingToRemove ==
    /\ At("gate") /\ request = "remove" /\ ~flag /\ ~Service
    /\ End("nothing")
    /\ UNCHANGED <<env, mended, windows, note>>

\* offer_restart_from_last_session.
OfferRestart ==
    /\ At("gate") /\ flag /\ ~running
    /\ End("refused")
    /\ UNCHANGED <<env, mended, windows, note>>

\* clear_restart_pending, which does not ask whether it worked.
ClearsNote == flag' = FALSE \/ (Faulty("fail") /\ UNCHANGED flag)

\* MUTANT: the note is cleared whether the driver answers or not.
MutantEnter ==
    /\ At("gate")
    /\ request = "remove" => flag \/ Service
    /\ ClearsNote /\ answered' = (answered \/ (owed /\ running))
    /\ \/ request = "menu" /\ Go("connect") /\ Kept
       \/ request = "remove" /\ Go("roots") /\ Kept
       \/ request = "remove" /\ End("kept")
    /\ UNCHANGED <<env, mended, windows, lasting, owed>>

\* A driver that answers clears the note; a removal has to be confirmed.
Enter ==
    /\ At("gate")
    /\ flag => running
    /\ request = "remove" => flag \/ Service
    /\ ClearsNote /\ answered' = (answered \/ (owed /\ running))
    /\ \/ request = "menu" /\ Go("connect") /\ Kept
       \/ request = "remove" /\ Go("roots") /\ Kept
       \/ request = "remove" /\ End("kept")
    /\ UNCHANGED <<env, mended, windows, lasting, owed>>

-----------------------------------------------------------------------------
\* Driver::connect.

\* MUTANT: only the copy Windows is using is looked up, not every published one.
MutantListed == {x \in store : file[x[1]] = x[2]}

\* our_published_names, from Windows' index of them or, where there is none, from
\* pnputil's listing; what is published here is named in both.
Listed == store

\* pnputil cannot be run, or is ended after INSTALLER_TIMEOUT.
ListingFails == Faulty("fail")

\* The driver is looked for once it has been asked to stop.
Connect ==
    /\ At("connect")
    /\ UNCHANGED <<env, mended, store, file, later, roots, note>>
    /\ \/ MayStop /\ ~Service' /\ Go("addBus") /\ Kept
       \/ MayStop /\ Service' /\ NoMismatch /\ Go("sanitize") /\ Kept
       \/ MayStop /\ Service' /\ Mismatch /\ Go("replace")
          /\ todo' = Listed /\ UNCHANGED finished
       \/ Faulty("fail") /\ End("failed") /\ UNCHANGED running

RemovesRoots == roots' \in (IF Faulty("refuse") THEN 0..roots ELSE {0})

\* sanitize_root_devices: more than one root device is one too many.
Sanitize ==
    /\ At("sanitize")
    /\ \/ roots > 1 /\ RemovesRoots
       \/ roots <= 1 /\ UNCHANGED roots
    /\ Go("rebind") /\ Kept
    /\ UNCHANGED <<env, mended, store, file, later, running, note>>

\* One published name after the other, those of the bus first.
Turn(x) == x[1] = "bus" \/ \A y \in todo : y[1] = "hid"

Delete(place) ==
    /\ At(place)
    /\ \E x \in todo :
          /\ Turn(x)
          /\ \/ Deletes(x) /\ Go(place) /\ todo' = todo \ {x} /\ UNCHANGED finished
             \/ DeletesLater(x) /\ Go(place) /\ todo' = todo \ {x}
                /\ finished' = IF place = "replace" THEN "AfterRestart" ELSE finished
             \/ Faulty("fail") /\ (Untouched \/ Deletes(x) \/ DeletesLater(x)) /\ End("failed")
    /\ UNCHANGED <<env, mended, note>>

Replaced ==
    /\ At("replace") /\ todo = {}
    /\ Go("addBus") /\ Kept
    /\ UNCHANGED <<env, mended, windows, note>>

Add(place, p, next) ==
    /\ At(place)
    /\ \/ Adds(p) /\ Go(next) /\ Kept
       \/ AddsLater(p) /\ Go(next) /\ finished' = "AfterRestart" /\ UNCHANGED todo
       \/ Faulty("fail") /\ (Untouched \/ Adds(p) \/ AddsLater(p)) /\ End("failed")
    /\ UNCHANGED <<env, mended, note>>

\* bind_root_device, which creates the root device if there is none.
WithRoot   == IF roots = 0 THEN 1 ELSE roots
Binds      == roots' = WithRoot /\ (Copies("bus", TRUE) \/ Vetoed)
BindsLater == roots' = WithRoot /\ CopiesLater("bus")
BindFails  == /\ Faulty("fail")
              /\ roots' \in {roots, WithRoot}
              /\ UNCHANGED <<store, file, later, running>>

\* MUTANT: what Windows said of the packages is overwritten by this answer.
MutantBind ==
    /\ At("bind")
    /\ \/ Binds /\ Go("await") /\ finished' = "Now" /\ UNCHANGED todo
       \/ BindsLater /\ Go("await") /\ finished' = "AfterRestart" /\ UNCHANGED todo
       \/ BindFails /\ End("failed")
    /\ UNCHANGED <<env, mended, note>>

Bind ==
    /\ At("bind")
    /\ \/ Binds /\ Go("await") /\ Kept
       \/ BindsLater /\ Go("await") /\ finished' = "AfterRestart" /\ UNCHANGED todo
       \/ BindFails /\ End("failed")
    /\ UNCHANGED <<env, mended, note>>

\* MUTANT: re-binding asks for a restart whenever Windows would like one.
MutantRebind ==
    /\ At("rebind")
    /\ \/ Binds /\ Go("open") /\ Kept
       \/ BindsLater /\ End("restartRequired")
       \/ BindFails /\ End("failed")
    /\ UNCHANGED <<env, mended, note>>

\* sanitize_root_devices does not ask when the binding takes effect.
Rebind ==
    /\ At("rebind")
    /\ \/ (Binds \/ BindsLater) /\ Go("open") /\ Kept
       \/ BindFails /\ End("failed")
    /\ UNCHANGED <<env, mended, note>>

\* wait_for_driver, start_all, and wait_for_driver again.
Await ==
    /\ At("await")
    /\ \/ running' = TRUE /\ Service /\ Go("check") /\ Kept
       \/ UNCHANGED running /\ (Faulty("idle") \/ ~Service) /\ End("failed")
    /\ UNCHANGED <<env, mended, store, file, later, roots, note>>

\* is_the_build_we_speak_to.
Check ==
    /\ At("check")
    /\ \/ finished = "AfterRestart" /\ Mismatch /\ End("restartRequired")
       \/ (finished = "Now" \/ NoMismatch) /\ Go("open")
          /\ finished' = "Now" /\ UNCHANGED todo
    /\ UNCHANGED <<env, mended, windows, note>>

\* start_all, clear_restart_pending, and the devices are opened and plugged in,
\* which Windows may refuse a machine that owes it a restart (PENDING_NOTES).
Open ==
    /\ At("open")
    /\ running' \in {running, Service} /\ ClearsNote
    /\ \/ Go("menu") /\ Kept
       \/ (Faulty("fail") \/ Faulty("idle") \/ owed) /\ End("failed")
    /\ UNCHANGED <<env, mended, store, file, later, roots, lasting, owed, answered>>

-----------------------------------------------------------------------------
\* From the menu, and the way out.

Quit ==
    /\ At("menu")
    /\ End("quit")
    /\ UNCHANGED <<env, mended, windows, note>>

AskRemoval ==
    /\ At("menu")
    /\ Go("roots") /\ Kept
    /\ UNCHANGED <<env, mended, windows, note>>

\* force_uninstall up to the loop of uninstall: the root devices go, the
\* services are asked to stop, which the driver need not heed, and there is
\* something to delete or there is not.
ForceUninstall ==
    /\ At("roots")
    /\ RemovesRoots
    /\ MayStop
    /\ \/ Listed /= {} /\ Go("uninstall") /\ todo' = Listed /\ UNCHANGED finished
       \/ (Listed = {} \/ ListingFails) /\ End("failed")
    /\ UNCHANGED <<env, mended, store, file, later, note>>

Uninstalled ==
    /\ At("uninstall") /\ todo = {}
    /\ Go("mark") /\ Kept
    /\ owed' = TRUE /\ answered' = FALSE
    /\ UNCHANGED <<env, mended, windows, flag, lasting>>

\* MUTANT: the key is written to and not made anew.
MutantMark ==
    /\ At("mark")
    /\ flag' = TRUE /\ UNCHANGED lasting
    /\ End("removed")
    /\ UNCHANGED <<env, mended, windows, owed, answered>>

\* mark_restart_pending: the key is deleted first, so that it is made anew and
\* volatile.  None of its answers is heard: a key that will not go is opened as
\* it is, and a value that cannot be written is not there.
Mark ==
    /\ At("mark")
    /\ \/ lasting' = FALSE /\ (flag' = TRUE \/ (Faulty("fail") /\ flag' = FALSE))
       \/ Faulty("fail") /\ UNCHANGED lasting /\ flag' \in {TRUE, flag}
    /\ End("removed")
    /\ UNCHANGED <<env, mended, windows, owed, answered>>

SessionStep ==
    \/ NothingToRemove \/ OfferRestart \/ Enter
    \/ Connect \/ Sanitize \/ Delete("replace") \/ Replaced
    \/ Add("addBus", "bus", "addHid") \/ Add("addHid", "hid", "bind")
    \/ Bind \/ Rebind \/ Await \/ Check \/ Open
    \/ ForceUninstall \/ Delete("uninstall") \/ Uninstalled \/ Mark

-----------------------------------------------------------------------------
\* The user and the machine.

Killed ==
    /\ Faulty("kill") /\ ~At("off")
    /\ End("killed")
    /\ UNCHANGED <<env, mended, windows, note>>

Restart ==
    /\ At("off")
    /\ file' = [p \in Packages |-> IF later[p] = "same" THEN file[p] ELSE later[p]]
    /\ later' = [p \in Packages |-> "same"]
    /\ running' = (file'["bus"] /= "none" /\ roots > 0)
    /\ flag' = (flag /\ lasting) /\ owed' = FALSE /\ answered' = FALSE
    /\ said' = IF said = "restartRequired" THEN "restarted" ELSE "none"
    /\ UNCHANGED <<env, mended, pc, request, todo, finished, store, roots, lasting>>

Mend ==
    /\ ~mended /\ env /= {}
    /\ mended' = TRUE
    /\ UNCHANGED <<env, pc, session, windows, note>>

User == Quit \/ AskRemoval \/ (\E r \in Requests : Launch(r))

Next == SessionStep \/ User \/ Killed \/ Restart \/ Mend

\* A session gets on with what it is doing.
Fairness == WF_vars(SessionStep)

Spec     == Init /\ [][Next]_vars
LiveSpec == Spec /\ Fairness

-----------------------------------------------------------------------------
Places == {"off", "gate", "connect", "sanitize", "replace", "addBus", "addHid", "bind",
           "rebind", "await", "check", "open", "menu", "roots", "uninstall", "mark"}

\* Every variable stays within its type, there is work left only for the loops
\* that delete, and only a restart that is owed can have been put off.
TypeOK ==
    /\ env \in SUBSET Behaviours /\ mended \in BOOLEAN
    /\ pc \in Places /\ request \in Requests /\ said \in Answers
    /\ todo \in SUBSET Published /\ (todo /= {} => pc \in {"replace", "uninstall"})
    /\ finished \in {"Now", "AfterRestart"}
    /\ store \in SUBSET Published
    /\ file \in [Packages -> Builds \cup {"none"}]
    /\ later \in [Packages -> {"same", "none", "ours"}]
    /\ roots \in 0..2
    /\ running \in BOOLEAN
    /\ flag \in BOOLEAN /\ lasting \in BOOLEAN
    /\ owed \in BOOLEAN /\ answered \in BOOLEAN /\ (answered => owed)

Without(bs) == env \cap bs = {}

\* version.rs: the build this program was written against is the one that runs.
\* As long as every version can be read, and whatever failed before and whatever
\* Windows puts off, the menu is reached only with our build of the bus and the
\* core on disk.  Only a driver that is held in memory while its binary is gone
\* escapes mismatch, which finds nothing to compare.
ReadySpeaksOurs ==
    Without({"unread"}) /\ At("menu") =>
        file["bus"] = "ours" \/ (file["bus"] = "none" /\ "held" \in env)

\* reboot.rs: the note says that the driver was removed and the machine has not
\* restarted since.  However many sessions come between, it never stands for a
\* restart that is not owed, and it is gone before the restart only if a session
\* has met a driver that answers since the removal, as Windows may let it.
NoteIsTheRemoval ==
    Without({"fail", "kill", "oldFlag"}) /\ At("off") => (flag <=> owed /\ ~answered)

\* actions.rs, REMOVAL_NOTES: after a removal that is said to be done, nothing
\* is published, no binary is left that the restart will not take, and no root
\* device, unless Windows would not let one go.
RemovedLeavesNothing ==
    said = "removed" /\ At("off") =>
        /\ store = {}
        /\ \A p \in Packages : file[p] = "none" \/ later[p] = "none"
        /\ Without({"refuse"}) => roots = 0

\* Error::RestartRequired: the answer is a restart.  Who has restarted is not
\* sent away a second time, as long as no session has failed half way.
NeverToldTwice ==
    [][Without({"fail", "kill"}) /\ said = "restarted" => said' /= "restartRequired"]_vars

\* Once nothing stands in the way and nobody asks for the driver to be removed, a
\* user who keeps starting the program and keeps restarting the machine gets to
\* the menu, whatever earlier sessions left.
\* Not so where an older build left a lasting key: its note, or the note of a
\* removal that could not delete the key, shuts the program out for good.
Recovers ==
    Without({"oldFlag"}) /\ (lasting => Without({"fail"}))
      /\ <>mended /\ <>[](request = "menu")
      /\ []<><<Launch("menu")>>_vars /\ []<><<Restart>>_vars
        => []<>At("menu")

\* Step::DriverReady promises: the driver is installed and up to date, which
\* takes both packages.
ReadyIsInstalled == At("menu") => Packages \X {"ours"} \subseteq store

=============================================================================
