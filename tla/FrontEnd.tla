------------------------------ MODULE FrontEnd ------------------------------
(***************************************************************************)
(* What the user talks to: the command line (app/cli.rs), the order of     *)
(* App::run (app/mod.rs), the menu and its questions (app/actions.rs,      *)
(* ui/prompt.rs), the screen and its memory of what it shows               *)
(* (ui/screen.rs), the console handler's answer (app/exit.rs) and the      *)
(* last word of main.rs.  The driver appears by the outcome of what is     *)
(* asked of it; VirtualDevices and Installation look inside.               *)
(*                                                                         *)
(* The console queues records.  The program takes one at a time, also the  *)
(* ones it has no use for, while the user goes on typing and moving the    *)
(* mouse over the window, whatever the program is doing.                   *)
(***************************************************************************)
EXTENDS Naturals, Sequences, SequencesExt

CONSTANTS
    Keys,       \* the keys the user types
    Tick,       \* TICK_MS, in steps of the clock
    MaxRecords  \* bound: records the console queues

MenuKeys == {"1", "2", "3", "4", "r", "q", "esc"}
Flags    == {"--mouse", "--keyboard", "--remove-driver", "--help", "--trackball"}
Devices  == {"mouse", "keyboard"}

ASSUME KeysAssumption == Keys \subseteq MenuKeys \cup {"y", "n", "other"}
ASSUME BoundAssumption == Tick \in Nat \ {0} /\ MaxRecords \in Nat \ {0}

VARIABLES
    args,       \* the flags on the command line
    request,    \* what cli::parse made of it
    pending,    \* the note of a removal: a restart is owed
    at,         \* where main is
    question,   \* what confirm() is asked for
    after,      \* where main goes after wait_for_any_key
    code,       \* the exit code
    on,         \* the redirects that are switched on
    was,        \* recreate_devices' memory of them
    input,      \* the records the console holds
    readable,   \* the console can be read
    left,       \* how far the deadline of next_key_down is
    message,    \* Screen.message
    shown,      \* Screen.shown: the frame the screen believes to be on the console
    console,    \* the frame that is on the console, or Text
    cleaner,    \* who has swapped ALREADY_CLEANED_UP
    event,      \* the console event being handled
    ended       \* the process is gone

session == <<args, request, pending, code>>
place   == <<at, question, after>>
screen  == <<message, shown, console>>
keys    == <<input, readable, left>>
leaving == <<cleaner, event, ended>>
vars    == <<session, place, on, was, keys, screen, leaving>>

\* No frame at all: lines of text on the console, nothing in the memory of it.
Text == [switches |-> {}, says |-> "lines"]

Init ==
    /\ args \in SUBSET Flags
    /\ pending \in BOOLEAN
    /\ request = "none" /\ code = "ok"
    /\ at = "parse" /\ question = "none" /\ after = "none"
    /\ on = {} /\ was = {}
    /\ input = <<>> /\ readable = TRUE /\ left = 0
    /\ message = "none" /\ shown = Text /\ console = Text
    /\ cleaner = "nobody" /\ event = "none" /\ ended = FALSE

-----------------------------------------------------------------------------
At(p)   == at = p /\ ~ended
Goes(p) == at' = p

\* Everything written outside Screen::draw goes through forget_what_is_shown.
\* MUTANT: only what is shown changes, not what is remembered of it.
MutantWrites == console' = Text /\ UNCHANGED <<message, shown>>

Writes == console' = Text /\ shown' = Text /\ UNCHANGED message

\* run() returns.
Return(with) == Goes("drop") /\ code' = with

Asks(q) == Goes("flush") /\ question' = q /\ Writes /\ UNCHANGED after

WaitsForAnyKey(then) == Goes("flushAny") /\ after' = then /\ Writes /\ UNCHANGED question

FlagOf == [d \in Devices |-> IF d = "mouse" THEN "--mouse" ELSE "--keyboard"]

-----------------------------------------------------------------------------
\* App::run up to the menu.

\* cli::parse: whatever does the least damage wins, an unknown flag is refused; the
\* order of the flags does not matter.
Asked(flag) == flag \in args
Request ==
    IF Asked("--trackball") THEN "refused"
    ELSE IF Asked("--help") THEN "help"
    ELSE IF Asked("--remove-driver") THEN "remove"
    ELSE IF Asked("--mouse") \/ Asked("--keyboard") THEN "redirect" ELSE "menu"

Parse ==
    /\ At("parse") /\ request' = Request
    /\ \/ Request = "refused" /\ Return("usage")
       \/ Request = "help" /\ Return("ok")
       \/ Request \notin {"refused", "help"} /\ Goes("claim") /\ UNCHANGED code
    /\ UNCHANGED <<args, pending, question, after, on, was, keys, screen, leaving>>

Claim ==
    /\ At("claim")
    /\ \/ Goes("gate") /\ UNCHANGED code
       \/ Return("running")
    /\ UNCHANGED <<args, request, pending, question, after, on, was, keys, screen, leaving>>

NothingToRemove ==
    /\ At("gate") /\ request = "remove" /\ ~pending
    /\ Return("ok")
    /\ UNCHANGED <<args, request, pending, question, after, on, was, keys, screen, leaving>>

\* A restart is owed, unless the driver is up and answering again.
OffersRestart ==
    /\ At("gate") /\ pending
    /\ Asks("restart")
    /\ UNCHANGED <<session, on, was, keys, leaving>>

Enter ==
    /\ At("gate") /\ pending' = FALSE
    /\ IF request = "remove" THEN Asks("removal")
                             ELSE Goes("start") /\ UNCHANGED <<question, after, screen>>
    /\ UNCHANGED <<args, request, code, on, was, keys, leaving>>

Start ==
    /\ At("start") /\ Writes
    /\ \/ Return("failed") /\ UNCHANGED on
       \/ /\ request = "menu" /\ Goes("menu") /\ UNCHANGED <<code, on>>
       \/ /\ request = "redirect" /\ Goes("parked") /\ UNCHANGED code
          /\ on' = {d \in Devices : Asked(FlagOf[d])}
    /\ UNCHANGED <<args, request, pending, question, after, was, keys, leaving>>

-----------------------------------------------------------------------------
\* The menu.

Frame == [switches |-> on, says |-> message]

\* Screen::draw leaves an unchanged frame alone.
Draw ==
    /\ At("menu") /\ Goes("wait") /\ left' = Tick
    /\ \/ shown = Frame /\ UNCHANGED screen
       \/ shown /= Frame /\ console' = Frame /\ shown' = Frame /\ UNCHANGED message
    /\ UNCHANGED <<session, question, after, on, was, input, readable, leaving>>

TimePasses ==
    /\ At("wait") /\ left > 0 /\ left' = left - 1
    /\ UNCHANGED <<session, place, on, was, input, readable, screen, leaving>>

\* The wait ran out.
TickEnds ==
    /\ At("wait") /\ left = 0 /\ Goes("menu")
    /\ UNCHANGED <<session, question, after, on, was, keys, screen, leaving>>

\* read_key_down: the record in front, and whether it is a key going down.
Reads(record) ==
    /\ readable /\ input /= <<>> /\ record = Head(input)
    /\ input' = Tail(input) /\ UNCHANGED readable
IsKey(record) == record.what \in Keys

\* MUTANT: every record we have no use for starts the wait again.
MutantIgnores ==
    /\ At("wait") /\ left > 0
    /\ \E record \in Range(input) : Reads(record) /\ ~IsKey(record)
    /\ left' = Tick
    /\ UNCHANGED <<session, place, on, was, screen, leaving>>

\* A mouse move, a resize or a key going up: wait out what is left.
Ignores ==
    /\ At("wait") /\ left > 0
    /\ \E record \in Range(input) : Reads(record) /\ ~IsKey(record)
    /\ UNCHANGED <<session, place, on, was, left, screen, leaving>>

Chooses(chosen) ==
    /\ At("wait")
    /\ \/ ~readable /\ "q" \in chosen /\ UNCHANGED keys
       \/ /\ left > 0 /\ UNCHANGED left
          /\ \E record \in Range(input) : Reads(record) /\ IsKey(record) /\ record.what \in chosen

Unknown ==
    /\ Chooses(Keys \ MenuKeys) /\ Goes("menu")
    /\ UNCHANGED <<session, question, after, on, was, screen, leaving>>

Says(what) == message' = what /\ UNCHANGED <<shown, console>>

Toggle(d) ==
    /\ Chooses({IF d = "mouse" THEN "1" ELSE "2"}) /\ Goes("menu")
    /\ on' = IF d \in on THEN on \ {d} ELSE on \cup {d}
    /\ Says("toggled")
    /\ UNCHANGED <<session, question, after, was, leaving>>

StopEverything ==
    /\ Chooses({"3"}) /\ Goes("menu")
    /\ on' = {} /\ Says(IF on = {} THEN "nothing" ELSE "stopped")
    /\ UNCHANGED <<session, question, after, was, leaving>>

Recreate ==
    /\ Chooses({"4"}) /\ Goes("recreating") /\ Writes
    /\ was' = on /\ on' = {}
    /\ UNCHANGED <<session, question, after, leaving>>

Recreated ==
    /\ At("recreating") /\ was' = {}
    /\ \/ /\ on' = was /\ Says("back") /\ input' = <<>> /\ Goes("menu")
          /\ UNCHANGED <<question, after>>
       \/ WaitsForAnyKey("failed") /\ UNCHANGED <<on, input>>
    /\ UNCHANGED <<session, readable, left, leaving>>

RecreateFailed ==
    /\ At("failed") /\ Says("failed") /\ input' = <<>> /\ Goes("menu")
    /\ UNCHANGED <<session, question, after, on, was, readable, left, leaving>>

RemoveDriver ==
    /\ Chooses({"r"}) /\ Asks("removal")
    /\ UNCHANGED <<session, on, was, leaving>>

Quit ==
    /\ Chooses({"q", "esc"}) /\ Return("ok") /\ on' = {} /\ Writes
    /\ UNCHANGED <<args, request, pending, question, after, was, leaving>>

-----------------------------------------------------------------------------
\* Questions.

\* MUTANT: what was typed before the question is left in the queue.
MutantFlush ==
    /\ \/ At("flush") /\ Goes("confirm")
       \/ At("flushAny") /\ Goes("any")
    /\ UNCHANGED <<session, question, after, on, was, keys, screen, leaving>>

\* confirm() and wait_for_any_key() both begin with flush_input.
Flush ==
    /\ \/ At("flush") /\ Goes("confirm")
       \/ At("flushAny") /\ Goes("any")
    /\ input' = <<>>
    /\ UNCHANGED <<session, question, after, on, was, readable, left, screen, leaving>>

\* What is still in the queue was typed for a question that is over.
Stale(records) == [i \in DOMAIN records |-> [records[i] EXCEPT !.fresh = FALSE]]

TakesAnswer(record) ==
    /\ readable /\ input /= <<>> /\ record = Head(input)
    /\ input' = Stale(Tail(input)) /\ UNCHANGED <<readable, left>>

\* Anything that is not yes means no, but only no and escape say so.
Confirm ==
    /\ At("confirm")
    /\ \/ \E record \in Range(input) :
             /\ TakesAnswer(record)
             /\ \/ record.what = "y" /\ Goes("yes")
                \/ record.what \in {"n", "esc"} /\ Goes("no")
       \/ ~readable /\ Goes("no") /\ UNCHANGED keys
    /\ UNCHANGED <<session, question, after, on, was, screen, leaving>>

AnyKey ==
    /\ At("any") /\ Goes(after)
    /\ \/ \E record \in Range(input) : TakesAnswer(record) /\ IsKey(record)
       \/ ~readable /\ UNCHANGED keys
    /\ UNCHANGED <<session, question, after, on, was, screen, leaving>>

NoAnswer ==
    /\ \E record \in Range(input) :
          /\ Reads(record)
          /\ \/ At("confirm") /\ record.what \notin {"y", "n", "esc"}
             \/ At("any") /\ ~IsKey(record)
    /\ UNCHANGED <<session, place, on, was, left, screen, leaving>>

\* Back to the menu, where there is one.
KeepsDriver ==
    /\ At("no") /\ question = "removal" /\ input' = <<>>
    /\ \/ request = "menu" /\ Goes("menu") /\ Says("kept") /\ UNCHANGED code
       \/ request = "remove" /\ Return("ok") /\ Writes
    /\ UNCHANGED <<args, request, pending, question, after, on, was, readable, left, leaving>>

Removes ==
    /\ At("yes") /\ question = "removal"
    /\ Goes("removing") /\ on' = {} /\ Writes
    /\ UNCHANGED <<session, question, after, was, keys, leaving>>

\* Removed; or still in use, or failed.
Removed ==
    /\ At("removing")
    /\ \/ pending' = TRUE /\ Asks("restart")
       \/ WaitsForAnyKey("drop") /\ UNCHANGED pending
    /\ UNCHANGED <<args, request, code, on, was, keys, leaving>>

RestartAnswered ==
    /\ at \in {"yes", "no"} /\ ~ended /\ question = "restart"
    /\ WaitsForAnyKey("drop") /\ code' = "restart"
    /\ UNCHANGED <<args, request, pending, on, was, keys, leaving>>

-----------------------------------------------------------------------------
\* The end: App::drop, main's last word, and the console handler.

Drop ==
    /\ At("drop") /\ on' = {}
    /\ cleaner' = IF cleaner = "nobody" THEN "main" ELSE cleaner
    /\ Goes("giveUp")
    /\ UNCHANGED <<session, question, after, was, keys, screen, event, ended>>

\* A window of our own is held open over an error, somebody else's is not.
GiveUp ==
    /\ At("giveUp")
    /\ \/ code \notin {"ok", "restart"} /\ WaitsForAnyKey("exit")
       \/ Goes("exit") /\ UNCHANGED <<question, after, screen>>
    /\ UNCHANGED <<session, on, was, keys, leaving>>

Exit ==
    /\ At("exit") /\ ended' = TRUE
    /\ UNCHANGED <<session, place, on, was, keys, screen, cleaner, event>>

\* The handler is there from watch_for_close on.
ConsoleEvent ==
    /\ ~ended /\ event = "none" /\ at \notin {"parse", "claim", "gate"}
    /\ event' \in {"close", "interrupt"}
    /\ UNCHANGED <<session, place, on, was, keys, screen, cleaner, ended>>

CleansUp ==
    /\ ~ended /\ event \in {"close", "interrupt"} /\ cleaner = "nobody"
    /\ cleaner' = "handler" /\ on' = {}
    /\ UNCHANGED <<session, place, was, keys, screen, event, ended>>

\* MUTANT: every event that was cleaned up after is reported as handled.
MutantHandled(e) == e \in {"close", "interrupt"}

\* Whether on_console_event says that it has handled the event.
Handled(e) == e = "close"

\* Windows ends the process after a close anyway, and after an interrupt unless
\* the handler has claimed it.
Answer ==
    /\ ~ended /\ event \in {"close", "interrupt"} /\ cleaner /= "nobody"
    /\ event' = "answered"
    /\ ended' = (event = "close" \/ ~Handled(event))
    /\ UNCHANGED <<session, place, on, was, keys, screen, cleaner>>

-----------------------------------------------------------------------------
\* The user.

Types(what) ==
    /\ ~ended /\ readable /\ Len(input) < MaxRecords
    /\ input' = Append(input, [what |-> what, fresh |-> at \in {"confirm", "any"}])
    /\ UNCHANGED <<session, place, on, was, readable, left, screen, leaving>>

ConsoleGoes ==
    /\ ~ended /\ readable' = FALSE /\ readable
    /\ UNCHANGED <<session, place, on, was, input, left, screen, leaving>>

Main ==
    \/ Parse \/ Claim \/ NothingToRemove \/ OffersRestart \/ Enter \/ Start
    \/ Draw \/ TickEnds \/ Ignores \/ Unknown \/ \E d \in Devices : Toggle(d)
    \/ StopEverything \/ Recreate \/ Recreated \/ RecreateFailed \/ RemoveDriver \/ Quit
    \/ Flush \/ Confirm \/ AnyKey \/ NoAnswer
    \/ KeepsDriver \/ Removes \/ Removed \/ RestartAnswered
    \/ Drop \/ GiveUp \/ Exit
Handler == CleansUp \/ Answer
User    == ConsoleGoes \/ ConsoleEvent \/ \E what \in Keys \cup {"mouse"} : Types(what)

Next == Main \/ Handler \/ TimePasses \/ User

\* The program's two threads run and time passes; the user has to do nothing.
Fairness == WF_vars(Main) /\ WF_vars(Handler) /\ WF_vars(TimePasses)

Spec     == Init /\ [][Next]_vars
LiveSpec == Spec /\ Fairness

-----------------------------------------------------------------------------
Record == [what : Keys \cup {"mouse"}, fresh : BOOLEAN]

\* Every variable stays within its type.
TypeOK ==
    /\ args \subseteq Flags /\ pending \in BOOLEAN
    /\ request \in {"none", "refused", "help", "remove", "redirect", "menu"}
    /\ at \in {"parse", "claim", "gate", "start", "parked", "menu", "wait", "recreating",
               "failed", "flush", "confirm", "yes", "no", "removing", "flushAny", "any",
               "drop", "giveUp", "exit"}
    /\ question \in {"none", "removal", "restart"} /\ after \in {"none", "failed", "drop", "exit"}
    /\ code \in {"ok", "restart", "failed", "running", "usage"}
    /\ on \subseteq Devices /\ was \subseteq Devices
    /\ input \in SeqOf(Record, MaxRecords) /\ readable \in BOOLEAN /\ left \in 0..Tick
    /\ cleaner \in {"nobody", "main", "handler"} /\ ended \in BOOLEAN
    /\ event \in {"none", "close", "interrupt", "answered"}

\* prompt.rs works the deadline out once, so that a mouse moving over the window
\* for ever cannot put the tick off, and with it the counters on the screen.
TickArrives == at = "wait" ~> at /= "wait" \/ ended

\* The removal, the restart and a failure on the screen are answered only by a key
\* typed while they are waited for, never by one typed ahead.
Asking          == at \in {"confirm", "any"}
AnswersAreFresh == [][Asking /\ at' /= at /\ readable => Head(input).fresh]_vars

\* The screen leaves an unchanged frame alone; while the menu waits, what it shows
\* are the switches as they are and the last message, whatever a question, a
\* re-creation or a failure has written over it in between.
ScreenIsTrue == at = "wait" /\ cleaner = "nobody" => console = Frame

\* exit.rs: the program never carries on with its devices unplugged and its driver
\* given away, whatever event it was and whatever main is waiting for.
NoLifeAfterCleanUp == cleaner = "handler" ~> ended
=============================================================================
