------------------------------ MODULE SyncLoop ------------------------------
(***************************************************************************)
(* Calls of SyncFromConfig (internal/pkg/sync/sync.go), one per round of   *)
(* the loop in main (cmd/dregsy/main.go): the main loop of a round, the    *)
(* goroutine that startTicking (task.go) launches per periodic task, the   *)
(* channels between them, and what reaches the loop from outside: OS       *)
(* signals, notifications of the config file watch, and a caller of        *)
(* Shutdown.                                                               *)
(*                                                                         *)
(* Time is discrete and relative: every clock is a countdown or a          *)
(* saturating age, so a behaviour may run forever in finitely many states. *)
(* The body of syncTask between its first and its last statement is the    *)
(* pair of steps BeginSync / FinishSync; module SyncTask opens it up.      *)
(***************************************************************************)
EXTENDS Integers, Sequences

CONSTANTS
    N,              \* number of tasks; conf.Tasks lists them in the order 1..N
    Interval,       \* Interval[t]: time between two ticks, 0 for a one-off task
    Selected,       \* the tasks whose name matches the task filter
    BackOff,        \* time to wait for after a config change before restarting
    Signals,        \* the signals that may reach the process
    Notes,          \* the kinds of file watch notification that may arrive
    MaxNotes,       \* bound on the number of file watch notifications
    HasClient       \* TRUE when some goroutine may call Shutdown

Tasks == 1 .. N
OneOffs == {t \in Selected : Interval[t] = 0}
Periodic == {t \in Selected : Interval[t] > 0}

ASSUME NAssumption == N \in Nat
ASSUME IntervalAssumption == Interval \in [Tasks -> Nat]
ASSUME SelectedAssumption == Selected \subseteq Tasks
ASSUME BackOffAssumption == BackOff \in Nat \ {0}
ASSUME SignalsAssumption == Signals \subseteq {"hup", "term"}
ASSUME NotesAssumption ==
    Notes \subseteq {"change", "noise", "error"} /\ MaxNotes \in Nat
ASSUME SwitchAssumption == HasClient \in BOOLEAN

None == "none"      \* the empty signal channel
Off == -1           \* a timer that is stopped, or whose value has been read
Never == -1         \* no config change has been seen so far

VARIABLES
    pc,         \* where the main goroutine is
    cur,        \* the task it syncs, or whose goroutine it waits for
    todo,       \* the tasks its current pass over conf.Tasks has yet to visit
    restart,    \* the local 'restart', returned to main
    err,        \* the local 'errs', returned to main as an error
    gpc,        \* gpc[t]: where the goroutine of task t is
    exit,       \* exit[t]: channel t.exit is closed
    running,    \* running[t]: the ticker of t has been started and not stopped
    tick,       \* tick[t]: a tick waits in t.ticker.C
    left,       \* left[t]: time until the next tick of t
    age,        \* age[t]: time since t.lastTick, capped at Interval[t]
    failed,     \* failed[t]: t.failed
    handler,    \* who gets a signal: "default", "stale" or "live"
    sigs,       \* content of channel sigs, of capacity 1
    timer,      \* what is left of tChange; 0: expired, Off: drained or stopped
    notes,      \* file watch notifications not yet received, in order
    noted,      \* number of notifications so far
    client,     \* where the caller of Shutdown is
    ticks,      \* channel s.ticks, of capacity 1, holds a value
    (* history, read by the properties only *)
    lastBad,    \* lastBad[t]: the last sync of t that was run had an error
    heard,      \* the signals that were sent once this round listened
    quiet       \* time since the last config change was seen, capped; Never
                \* if there was none, or none since the watch failed

mainVars == <<pc, cur, todo, restart, err>>
taskVars == <<gpc, exit, running, tick, left>>
syncVars == <<age, failed, lastBad>>
sigVars == <<handler, sigs, heard>>
watchVars == <<timer, notes, noted, quiet>>
clientVars == <<client, ticks>>
vars == <<mainVars, taskVars, syncVars, sigVars, watchVars, clientVars>>

Over == {"failed", "returned", "killed"}    \* this round is over
Ending == {"stop", "await"} \cup Over       \* the main loop has been left

-----------------------------------------------------------------------------
(* Helpers. A definition whose name ends in _ and a word is a mutant of the *)
(* definition that follows it: the bug the word is about, which the        *)
(* properties must be able to tell from the code.                          *)

\* The iterations over conf.Tasks go in the order of the list.
Foremost(t) == t \in todo /\ \A u \in todo : t <= u

\* tick(): a non-blocking send on s.ticks, so ticks never pile up.
SendTick == ticks' = TRUE

\* t.tooSoon()
TooSoon_WholeInterval(t) == Interval[t] > 0 /\ age[t] < Interval[t]
TooSoon_Unchecked(t) == FALSE
TooSoon(t) == Interval[t] > 0 /\ 2 * age[t] < Interval[t]

\* main is at the select of its loop.
Selecting_WhileStopping == pc \in {"loop", "await"}
Selecting == pc = "loop"

\* The head of syncTask, past the check with tooSoon.
BeginSync(t) ==
    /\ pc' = "sync"
    /\ cur' = t
    /\ failed' = [failed EXCEPT ![t] = FALSE]
    /\ UNCHANGED <<age, lastBad>>

\* The loop variable 'ticking' turns false; what follows is a pass over all
\* tasks that stops them.
LeaveLoop(r) ==
    /\ pc' = "stop"
    /\ todo' = Tasks
    /\ restart' = r
    /\ UNCHANGED <<cur, err>>

\* tChange is stopped, and a new timer set up.
ArmTimer_Once == timer' = IF timer = Off THEN BackOff ELSE timer
ArmTimer == timer' = BackOff

\* Nothing happens to tChange on an event that does not concern the config.
Dismiss_StopTimer == timer' = Off /\ UNCHANGED quiet
Dismiss == UNCHANGED <<timer, quiet>>

\* The final tick, which is to release the caller of Shutdown
FinalTick_Missing == UNCHANGED ticks
FinalTick == SendTick

\* The time until the next tick, when one unit has passed
NextTick_Unset(t) == left[t] - 1
NextTick_OneShot(t) == IF left[t] > 0 THEN left[t] - 1 ELSE 0
NextTick(t) == IF left[t] = 1 THEN Interval[t] ELSE left[t] - 1

\* What channel sigs holds when s has been sent to the process
Deliver_Unbuffered(s) ==
    IF handler = "live" /\ sigs = None /\ Selecting THEN s ELSE sigs
Deliver(s) == IF handler = "live" /\ sigs = None THEN s ELSE sigs

-----------------------------------------------------------------------------
(* The first round: run() has loaded the config, so all tasks are fresh.   *)
(* Signal handlers, on the other hand, belong to the process. In its first *)
(* round none is installed. In a later one the channel of an earlier round *)
(* is still registered, and nobody reads it.                               *)

Init ==
    /\ pc = "prepare"
    /\ cur = 0
    /\ todo = {}
    /\ restart = FALSE
    /\ err = FALSE
    /\ gpc = [t \in Tasks |-> "none"]
    /\ exit = [t \in Tasks |-> FALSE]
    /\ running = [t \in Tasks |-> FALSE]
    /\ tick = [t \in Tasks |-> FALSE]
    /\ left = Interval
    /\ age = Interval
    /\ failed = [t \in Tasks |-> FALSE]
    /\ handler = "default"
    /\ sigs = None
    /\ timer = Off
    /\ notes = <<>>
    /\ noted = 0
    /\ client = "idle"
    /\ ticks = FALSE
    /\ lastBad = [t \in Tasks |-> FALSE]
    /\ heard = {}
    /\ quiet = Never

\* The signal channel of a new round
NewSignals_Shared == UNCHANGED sigs
NewSignals == sigs' = None

\* The loop of main: run() once more, with a fresh config, a new Sync, and a
\* new watch. The error of the round that has ended is dropped.
NewRound ==
    /\ pc = "returned"
    /\ restart
    /\ pc' = "prepare"
    /\ cur' = 0
    /\ todo' = {}
    /\ restart' = FALSE
    /\ err' = FALSE
    /\ gpc' = [t \in Tasks |-> "none"]
    /\ exit' = [t \in Tasks |-> FALSE]
    /\ running' = [t \in Tasks |-> FALSE]
    /\ tick' = [t \in Tasks |-> FALSE]
    /\ left' = Interval
    /\ age' = Interval
    /\ failed' = [t \in Tasks |-> FALSE]
    /\ lastBad' = [t \in Tasks |-> FALSE]
    /\ handler' = "stale"
    /\ NewSignals
    /\ heard' = {}
    /\ timer' = Off
    /\ notes' = <<>>
    /\ noted' = 0
    /\ quiet' = Never
    /\ client' = "idle"
    /\ ticks' = FALSE

-----------------------------------------------------------------------------
(* The main goroutine before its loop.                                     *)

\* LoadConfig(), New(), relay.Prepare() and conf.watch() succeed, or one of them
\* does not and the process exits.
Prepare ==
    /\ pc = "prepare"
    /\ \/ pc' = "oneoff" /\ todo' = OneOffs /\ UNCHANGED err
       \/ pc' = "failed" /\ err' = TRUE /\ UNCHANGED todo
    /\ UNCHANGED <<cur, restart, taskVars, syncVars, sigVars, watchVars,
                   clientVars>>

\* The next one-off task is synced right in the main goroutine.
SyncOneOff(t) ==
    /\ pc = "oneoff"
    /\ Foremost(t)
    /\ ~TooSoon(t)
    /\ BeginSync(t)
    /\ todo' = todo \ {t}
    /\ UNCHANGED <<restart, err, taskVars, sigVars, watchVars, clientVars>>

\* startTicking() for each periodic task. It sets lastTick back by two
\* intervals, so that the first fire counts. The goroutines start with the
\* send of that fire.
StartTickers ==
    /\ gpc' = [t \in Tasks |-> IF t \in Periodic THEN "send" ELSE gpc[t]]
    /\ running' = [t \in Tasks |-> t \in Periodic]
    /\ left' = Interval
    /\ age' = [t \in Tasks |-> IF t \in Periodic THEN Interval[t] ELSE age[t]]

\* The second pass over the tasks, then signal.Notify(). With no periodic task
\* the main loop is not entered at all.
StartTicking ==
    /\ pc = "oneoff"
    /\ todo = {}
    /\ StartTickers
    /\ handler' = "live"
    /\ IF Periodic = {} THEN LeaveLoop(FALSE)
                        ELSE pc' = "loop" /\ UNCHANGED <<cur, todo, restart, err>>
    /\ UNCHANGED <<exit, tick, failed, lastBad, sigs, heard, watchVars,
                   clientVars>>

-----------------------------------------------------------------------------
(* The select of the main loop, one action per case. A ready case may be   *)
(* chosen whatever other cases are ready.                                  *)

\* case t := <-c. The goroutine of t, blocked in its send, is released.
ReceiveFire(t) ==
    /\ Selecting
    /\ gpc[t] = "send"
    /\ gpc' = [gpc EXCEPT ![t] = "select"]
    /\ IF TooSoon(t)
       THEN SendTick /\ UNCHANGED <<pc, cur, syncVars, client>>
       ELSE BeginSync(t) /\ UNCHANGED clientVars
    /\ UNCHANGED <<todo, restart, err, exit, running, tick, left, sigVars,
                   watchVars>>

\* The tail of syncTask. Module SyncTask says when a sync has errors.
FinishSync(bad) ==
    /\ pc = "sync"
    /\ failed' = [failed EXCEPT ![cur] = @ \/ bad]
    /\ age' = [age EXCEPT ![cur] = 0]
    /\ lastBad' = [lastBad EXCEPT ![cur] = bad]
    /\ IF cur \in Periodic
       THEN pc' = "loop" /\ SendTick /\ UNCHANGED client
       ELSE pc' = "oneoff" /\ UNCHANGED clientVars
    /\ UNCHANGED <<cur, todo, restart, err, taskVars, sigVars, watchVars>>

\* case sig := <-sigs
ReceiveSignal ==
    /\ Selecting
    /\ sigs # None
    /\ sigs' = None
    /\ LeaveLoop(sigs = "hup")
    /\ UNCHANGED <<taskVars, syncVars, handler, heard, watchVars,
                   clientVars>>

\* case evt, ok := <-watch.Events. A change stops tChange and sets up a new
\* timer; an event that isChanged() dismisses does nothing.
ReceiveEvent ==
    /\ Selecting
    /\ notes # <<>>
    /\ Head(notes) # "error"
    /\ notes' = Tail(notes)
    /\ IF Head(notes) = "change"
       THEN ArmTimer /\ quiet' = 0
       ELSE Dismiss
    /\ UNCHANGED <<mainVars, taskVars, syncVars, sigVars, noted, clientVars>>

\* case err, ok := <-watch.Errors
ReceiveError ==
    /\ Selecting
    /\ notes # <<>>
    /\ Head(notes) = "error"
    /\ notes' = Tail(notes)
    /\ timer' = Off
    /\ quiet' = Never
    /\ UNCHANGED <<mainVars, taskVars, syncVars, sigVars, noted, clientVars>>

\* case <-tChange.C
BackOffExpired ==
    /\ Selecting
    /\ timer = 0
    /\ timer' = Off
    /\ LeaveLoop(TRUE)
    /\ UNCHANGED <<taskVars, syncVars, sigVars, notes, noted, quiet,
                   clientVars>>

\* case <-s.shutdown, with the final tick
ReceiveShutdown ==
    /\ Selecting
    /\ client = "sending"
    /\ client' = "waiting"
    /\ FinalTick
    /\ LeaveLoop(restart)
    /\ UNCHANGED <<taskVars, syncVars, sigVars, watchVars>>

-----------------------------------------------------------------------------
(* The main goroutine after its loop.                                      *)

\* errs = errs || t.failed, at the end of an iteration of the last pass
CollectError_LastOnly(t) ==
    /\ err' = failed[t]
    /\ todo' = todo \ {t}
CollectError(t) ==
    /\ err' = (err \/ failed[t])
    /\ todo' = todo \ {t}

\* close(t.exit)
CloseExit_Forgotten(t) == UNCHANGED exit
CloseExit(t) == exit' = [exit EXCEPT ![t] = TRUE]

\* t.done has been closed.
Done_NotAwaited(t) == TRUE
Done(t) == gpc[t] = "exited"

\* t.stopTicking(). Stopping a ticker also drops a tick that nobody has
\* received yet. Without a ticker there is nothing to wait for.
StopTicking(t) ==
    /\ pc = "stop"
    /\ Foremost(t)
    /\ IF running[t]
       THEN /\ running' = [running EXCEPT ![t] = FALSE]
            /\ tick' = [tick EXCEPT ![t] = FALSE]
            /\ CloseExit(t)
            /\ pc' = "await"
            /\ cur' = t
            /\ UNCHANGED <<todo, err>>
       ELSE /\ CollectError(t)
            /\ UNCHANGED <<pc, cur, running, tick, exit>>
    /\ UNCHANGED <<restart, gpc, left, syncVars, sigVars, watchVars,
                   clientVars>>

\* <-t.done in stopTicking(): released when the goroutine closes t.done.
AwaitDone ==
    /\ pc = "await"
    /\ Done(cur)
    /\ CollectError(cur)
    /\ pc' = "stop"
    /\ UNCHANGED <<cur, restart, taskVars, syncVars, sigVars, watchVars,
                   clientVars>>

Return ==
    /\ pc = "stop"
    /\ todo = {}
    /\ pc' = "returned"
    /\ UNCHANGED <<cur, todo, restart, err, taskVars, syncVars, sigVars,
                   watchVars, clientVars>>

-----------------------------------------------------------------------------
(* The goroutine of task t: a send that blocks, in turn with a select.     *)

\* case <-t.ticker.C, and on to the send
TakeTick(t) ==
    /\ gpc[t] = "select"
    /\ tick[t]
    /\ tick' = [tick EXCEPT ![t] = FALSE]
    /\ gpc' = [gpc EXCEPT ![t] = "send"]
    /\ UNCHANGED <<mainVars, exit, running, left, syncVars, sigVars, watchVars,
                   clientVars>>

\* case <-t.exit, close(t.done)
TaskExit(t) ==
    /\ gpc[t] = "select"
    /\ exit[t]
    /\ gpc' = [gpc EXCEPT ![t] = "exited"]
    /\ UNCHANGED <<mainVars, exit, running, tick, left, syncVars, sigVars,
                   watchVars, clientVars>>

-----------------------------------------------------------------------------
(* The surroundings.                                                       *)

\* One unit of time passes. A ticker drops a tick when the previous one has
\* not been received.
Pass ==
    /\ pc \notin Over
    /\ age' = [t \in Tasks |-> IF age[t] < Interval[t] THEN age[t] + 1
                                                       ELSE age[t]]
    /\ tick' = [t \in Tasks |-> tick[t] \/ (running[t] /\ left[t] = 1)]
    /\ left' = [t \in Tasks |-> IF running[t] THEN NextTick(t) ELSE left[t]]
    /\ timer' = IF timer > 0 THEN timer - 1 ELSE timer
    /\ quiet' = IF quiet \in 0 .. BackOff - 1 THEN quiet + 1 ELSE quiet
    /\ UNCHANGED <<mainVars, gpc, exit, running, failed, lastBad, sigVars,
                   notes, noted, clientVars>>

\* A signal is sent to the process. Unhandled it kills the process, on a
\* stale channel it is lost, and a full channel drops it.
Signal(s) ==
    /\ pc \notin Over
    /\ pc' = IF handler = "default" THEN "killed" ELSE pc
    /\ heard' = IF handler = "live" THEN heard \cup {s} ELSE heard
    /\ sigs' = Deliver(s)
    /\ UNCHANGED <<cur, todo, restart, err, taskVars, syncVars, handler,
                   watchVars, clientVars>>

\* The file watcher has something to tell. It exists once conf.watch() is
\* done.
Notify(n) ==
    /\ pc \notin Over \cup {"prepare"}
    /\ noted < MaxNotes
    /\ noted' = noted + 1
    /\ notes' = Append(notes, n)
    /\ UNCHANGED <<mainVars, taskVars, syncVars, sigVars, timer, quiet,
                   clientVars>>

\* A caller of Shutdown() is about to send on s.shutdown ...
CallShutdown ==
    /\ HasClient
    /\ client = "idle"
    /\ pc \notin Over
    /\ client' = "sending"
    /\ UNCHANGED <<mainVars, taskVars, syncVars, sigVars, watchVars, ticks>>

\* ... and then waits for a tick. WaitForTick() may also be called alone.
WaitForTick ==
    /\ HasClient
    /\ client \in {"idle", "waiting"}
    /\ ticks
    /\ ticks' = FALSE
    /\ client' = IF client = "waiting" THEN "released" ELSE client
    /\ UNCHANGED <<mainVars, taskVars, syncVars, sigVars, watchVars>>

-----------------------------------------------------------------------------

\* Everything in a round but the passing of time and the end of a sync
Step ==
    \/ Prepare \/ StartTicking \/ Return \/ AwaitDone
    \/ \E t \in Tasks : \/ SyncOneOff(t) \/ ReceiveFire(t) \/ StopTicking(t)
                        \/ TakeTick(t) \/ TaskExit(t)
    \/ ReceiveSignal \/ ReceiveEvent \/ ReceiveError
    \/ BackOffExpired \/ ReceiveShutdown
    \/ \E s \in Signals : Signal(s)
    \/ \E n \in Notes : Notify(n)
    \/ CallShutdown \/ WaitForTick

Next == Step \/ Pass \/ NewRound \/ \E bad \in BOOLEAN : FinishSync(bad)

Spec == Init /\ [][Next]_vars

\* What main does on its own, outside of the select, and the goroutine of t
\* outside of its send
MainMoves ==
    \/ Prepare \/ StartTicking \/ AwaitDone \/ Return \/ NewRound
    \/ \E t \in Tasks : SyncOneOff(t) \/ StopTicking(t)
    \/ \E bad \in BOOLEAN : FinishSync(bad)

TaskMoves(t) == TakeTick(t) \/ TaskExit(t)

(***************************************************************************)
(* Fairness. The Go scheduler lets every goroutine that can run do so, and *)
(* time passes: weak fairness. Among the ready cases of a select Go picks  *)
(* one at random, so a case that is ready over and over is taken in the    *)
(* end: strong fairness. That a relay call returns is an assumption: the   *)
(* code sets no time limit. Nothing is assumed of signals, notifications   *)
(* and the call of Shutdown.                                               *)
(***************************************************************************)
Fairness ==
    /\ WF_vars(MainMoves)
    /\ \A t \in Tasks : SF_vars(ReceiveFire(t)) /\ WF_vars(TaskMoves(t))
    /\ SF_vars(ReceiveSignal) /\ SF_vars(ReceiveEvent \/ ReceiveError)
    /\ SF_vars(BackOffExpired)
    /\ WF_vars(Pass)

FairSpec == Spec /\ Fairness

-----------------------------------------------------------------------------
(* Properties.                                                             *)

TypeOK ==
    /\ pc \in {"prepare", "oneoff", "loop", "sync"} \cup Ending
    /\ cur \in 0 .. N
    /\ todo \subseteq Tasks
    /\ restart \in BOOLEAN
    /\ err \in BOOLEAN
    /\ gpc \in [Tasks -> {"none", "send", "select", "exited"}]
    /\ exit \in [Tasks -> BOOLEAN]
    /\ running \in [Tasks -> BOOLEAN]
    /\ tick \in [Tasks -> BOOLEAN]
    /\ left \in [Tasks -> Nat]
    /\ age \in [Tasks -> Nat]
    /\ failed \in [Tasks -> BOOLEAN]
    /\ handler \in {"default", "stale", "live"}
    /\ sigs \in Signals \cup {None}
    /\ timer \in Off .. BackOff
    /\ notes \in Seq(Notes)
    /\ noted \in 0 .. MaxNotes
    /\ client \in {"idle", "sending", "waiting", "released"}
    /\ ticks \in BOOLEAN
    /\ lastBad \in [Tasks -> BOOLEAN]
    /\ heard \subseteq Signals
    /\ quiet \in Never .. BackOff

\* When SyncFromConfig returns, no goroutine of its tasks is left behind and
\* no ticker runs on: main may restart, and starts all of them anew.
NoLeakOnReturn ==
    pc = "returned" => \A t \in Tasks : /\ gpc[t] \in {"none", "exited"}
                                       /\ ~running[t]

\* The error SyncFromConfig returns tells exactly whether some task had
\* errors in the last sync of it that was run. A fire that came too soon and
\* was skipped neither hides such an error nor makes one up.
ErrorReported ==
    pc = "returned" => (err <=> \E t \in Tasks : lastBad[t])

\* A restart that no signal asked for comes when the config has not been
\* seen to change for the back-off time: a file that is still being
\* rewritten is not loaded. An error of the watch calls such a restart off.
RestartDebounced ==
    [][restart' /\ ~restart /\ sigs' = sigs => quiet = BackOff]_vars

\* A round ends for a reason of its own: a signal that came while it listened,
\* a config change, a call of Shutdown, or nothing to do. What is left over
\* from earlier rounds, whose signal channels stay registered, does not end it.
EndHasCause ==
    pc \in {"stop", "await", "returned"} =>
        IF restart
        THEN "hup" \in heard \/ quiet = BackOff
        ELSE \/ "term" \in heard
             \/ client \in {"waiting", "released"}
             \/ Periodic = {}

\* The caller of Shutdown that has handed over its request finds the tick that
\* releases it: no other tick can have taken its place and been used up.
ShutdownReleases == client = "waiting" => ticks

\* Every periodic task is synced over and over until the loop is left, in
\* spite of the skipped fires, the dropped ticks and the other tasks.
KeepsSyncing ==
    \A t \in Periodic :
        pc = "loop" ~> (pc = "sync" /\ cur = t) \/ pc \in Ending

\* A signal that comes once the round listens for signals ends the loop, be
\* it in the middle of a sync.
SignalEndsLoop == heard # {} ~> pc \in Ending

\* A config change that has been seen leads to a restart, unless the watch
\* reports an error before the back-off time is over.
ChangeRestarts == quiet # Never ~> pc \in Ending \/ quiet = Never

\* Once the loop is left the round comes to its end.
StopCompletes == pc = "stop" ~> pc = "returned"

\* What can keep it from doing so, and a new round from starting if there is to
\* be one, is one thing only: a goroutine that is blocked in the send of a fire,
\* which nobody receives any more.
StopBlockedOnlyByFire ==
    pc = "stop" ~> \/ pc = "prepare"
                   \/ pc = "returned" /\ ~restart
                   \/ pc = "await" /\ gpc[cur] = "send"

-----------------------------------------------------------------------------
(* What the liveness properties rest on: nothing that is due gets lost.    *)

\* A signal that came once the round listens stays in the channel until the loop
\* is left. The channel holds one signal, and main does not receive during a
\* sync: others may be dropped, but never so that none is left.
SignalKept == heard # {} /\ pc \notin Ending => sigs # None

\* A config change that was seen, and not called off by an error of the watch,
\* has a timer that runs out when the back-off time since the last change is
\* over, whatever events have come in between.
ChangePending == quiet # Never /\ pc \notin Ending => timer = BackOff - quiet

\* While main is at its select, each periodic task has its next fire ahead: its
\* goroutine is there and not told to exit, and its ticker, which runs, ticks
\* within an interval, however long other tasks have been synced and however
\* many fires were skipped.
FiresAhead ==
    pc = "loop" => \A t \in Periodic : /\ gpc[t] \in {"send", "select"}
                                       /\ ~exit[t]
                                       /\ running[t]
                                       /\ left[t] \in 1 .. Interval[t]

\* stopTicking() waits for a goroutine that was there and has been told to exit.
\* If it is at its select, exiting is all it can do, for a tick that it had not
\* received is gone and none will follow.
AwaitsExit ==
    pc = "await" => /\ gpc[cur] \in {"send", "select", "exited"}
                    /\ exit[cur]
                    /\ ~tick[cur]
                    /\ ~running[cur]

\* If that goroutine is in the send of a fire instead, it stays there, and main
\* keeps waiting: neither a signal nor a call of Shutdown nor time changes that.
StuckForGood ==
    [][pc = "await" /\ gpc[cur] = "send" =>
          pc' = "await" /\ cur' = cur /\ gpc'[cur] = "send"]_vars

\* Nothing is lost that a round is to come to in the end: the signals it was sent,
\* the changes it has seen, the next sync of a task, the end of a goroutine.
NothingLost == SignalKept /\ ChangePending /\ FiresAhead /\ AwaitsExit

-----------------------------------------------------------------------------
(* The promise: module Round. A round that is in its first pass over the   *)
(* tasks is starting, and so it is while it syncs a one-off task.          *)

Starting == pc \in {"prepare", "oneoff"} \/ (pc = "sync" /\ cur \notin Periodic)

Phase ==
    IF Starting THEN "starting"
    ELSE IF pc \in {"loop", "sync"} THEN "serving"
    ELSE IF pc \in {"stop", "await"} THEN "ending"
    ELSE "over"

Active == IF pc = "sync" THEN cur ELSE 0

Due ==
    IF pc = "prepare" THEN OneOffs
    ELSE IF Starting THEN todo
    ELSE {}

Promise ==
    INSTANCE Round WITH
        NoTask <- 0, phase <- Phase, active <- Active, due <- Due,
        again <- restart

\* A round keeps the promise of module Round: tasks are synced one at a time,
\* the one-off tasks once and first, and none when the loop has been left.
KeepsPromise == Promise!Spec
=============================================================================
