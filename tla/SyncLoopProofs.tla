--------------------------- MODULE SyncLoopProofs ---------------------------
(***************************************************************************)
(* What holds of SyncLoop for any number of tasks, any intervals, and any  *)
(* signals, notifications and syncs that fail; and, at the end, of         *)
(* SyncTiming.                                                             *)
(***************************************************************************)
EXTENDS SyncTiming, TLAPS

USE DEF None, Off, Never, Selecting, ArmTimer, Dismiss, FinalTick, NextTick,
        Deliver, CloseExit, Done, StartTickers, NewSignals

LEMMA ConstantsAreTyped ==
    /\ N \in Nat
    /\ Tasks \subseteq 0 .. N
    /\ 0 \in 0 .. N
    /\ Interval \in [Tasks -> Nat]
    /\ Periodic \subseteq Tasks
    /\ OneOffs \subseteq Tasks
    /\ BackOff \in Nat \ {0}
    /\ \A t \in Periodic : Interval[t] > 0
<1>1. N \in Nat /\ Tasks \subseteq 0 .. N /\ 0 \in 0 .. N
      BY NAssumption DEF Tasks
<1>2. Interval \in [Tasks -> Nat] /\ BackOff \in Nat \ {0}
      BY IntervalAssumption, BackOffAssumption
<1>3. /\ Periodic \subseteq Tasks
      /\ OneOffs \subseteq Tasks
      /\ \A t \in Periodic : Interval[t] > 0
      BY SelectedAssumption DEF Periodic, OneOffs
<1> QED BY <1>1, <1>2, <1>3

-----------------------------------------------------------------------------
(* Type correctness. A countdown that runs must be positive, and a task    *)
(* that is being worked on must be one.                                    *)

TickerInv == \A t \in Tasks : running[t] => t \in Periodic /\ left[t] > 0
CurInv == pc \in {"sync", "await"} => cur \in Tasks
TypeInv == TypeOK /\ TickerInv /\ CurInv

LEMMA InitTypeInv == Init => TypeInv
<1> SUFFICES ASSUME Init PROVE TypeInv
    OBVIOUS
<1> USE ConstantsAreTyped
<1>1. TypeOK
  <2>1. /\ gpc \in [Tasks -> {"none", "send", "select", "exited"}]
        /\ exit \in [Tasks -> BOOLEAN]
        /\ running \in [Tasks -> BOOLEAN]
        /\ tick \in [Tasks -> BOOLEAN]
        /\ left \in [Tasks -> Nat]
        /\ age \in [Tasks -> Nat]
        /\ failed \in [Tasks -> BOOLEAN]
        /\ lastBad \in [Tasks -> BOOLEAN]
        BY DEF Init
  <2>2. notes \in Seq(Notes) /\ noted \in 0 .. MaxNotes
        BY NotesAssumption DEF Init
  <2>3. handler \in {"default", "stale", "live"}
        BY DEF Init
  <2>4. /\ pc \in {"prepare", "oneoff", "loop", "sync"} \cup Ending
        /\ cur \in 0 .. N
        /\ todo \subseteq Tasks
        /\ restart \in BOOLEAN
        /\ err \in BOOLEAN
        BY DEF Init
  <2>5. timer \in Off .. BackOff /\ quiet \in Never .. BackOff
        BY DEF Init
  <2>6. /\ sigs \in Signals \cup {None}
        /\ client \in {"idle", "sending", "waiting", "released"}
        /\ ticks \in BOOLEAN
        /\ heard \subseteq Signals
        BY DEF Init
  <2> QED BY <2>1, <2>2, <2>3, <2>4, <2>5, <2>6 DEF TypeOK
<1>2. TickerInv /\ CurInv
      BY DEF Init, TickerInv, CurInv
<1> QED BY <1>1, <1>2 DEF TypeInv

\* TypeInv by groups of variables, so that the proof about an action is about
\* those groups only which the action touches
MainOK ==
    /\ pc \in {"prepare", "oneoff", "loop", "sync"} \cup Ending
    /\ cur \in 0 .. N
    /\ todo \subseteq Tasks
    /\ restart \in BOOLEAN
    /\ err \in BOOLEAN
    /\ CurInv

TaskOK ==
    /\ gpc \in [Tasks -> {"none", "send", "select", "exited"}]
    /\ exit \in [Tasks -> BOOLEAN]
    /\ running \in [Tasks -> BOOLEAN]
    /\ tick \in [Tasks -> BOOLEAN]
    /\ left \in [Tasks -> Nat]
    /\ TickerInv

SyncOK ==
    /\ age \in [Tasks -> Nat]
    /\ failed \in [Tasks -> BOOLEAN]
    /\ lastBad \in [Tasks -> BOOLEAN]

SigOK ==
    /\ handler \in {"default", "stale", "live"}
    /\ sigs \in Signals \cup {None}
    /\ heard \subseteq Signals

WatchOK ==
    /\ timer \in Off .. BackOff
    /\ notes \in Seq(Notes)
    /\ noted \in 0 .. MaxNotes
    /\ quiet \in Never .. BackOff

ClientOK ==
    /\ client \in {"idle", "sending", "waiting", "released"}
    /\ ticks \in BOOLEAN

LEMMA TypeParts ==
    TypeInv <=> MainOK /\ TaskOK /\ SyncOK /\ SigOK /\ WatchOK /\ ClientOK
BY DEF TypeInv, TypeOK, MainOK, TaskOK, SyncOK, SigOK, WatchOK, ClientOK

LEMMA TypePartsNext ==
    TypeInv' <=> MainOK' /\ TaskOK' /\ SyncOK' /\ SigOK' /\ WatchOK' /\ ClientOK'
BY DEF TypeInv, TypeOK, MainOK, TaskOK, SyncOK, SigOK, WatchOK, ClientOK

\* A group that an action leaves alone keeps its types.
LEMMA PartsStay ==
    /\ MainOK /\ UNCHANGED mainVars => MainOK'
    /\ TaskOK /\ UNCHANGED taskVars => TaskOK'
    /\ SyncOK /\ UNCHANGED syncVars => SyncOK'
    /\ SigOK /\ UNCHANGED sigVars => SigOK'
    /\ WatchOK /\ UNCHANGED watchVars => WatchOK'
    /\ ClientOK /\ UNCHANGED clientVars => ClientOK'
<1>1. MainOK /\ UNCHANGED mainVars => MainOK'
  BY DEF MainOK, CurInv, mainVars
<1>2. TaskOK /\ UNCHANGED taskVars => TaskOK'
  BY DEF TaskOK, TickerInv, taskVars
<1>3. SyncOK /\ UNCHANGED syncVars => SyncOK'
  BY DEF SyncOK, syncVars
<1>4. SigOK /\ UNCHANGED sigVars => SigOK'
  BY DEF SigOK, sigVars
<1>5. WatchOK /\ UNCHANGED watchVars => WatchOK'
  BY DEF WatchOK, watchVars
<1>6. ClientOK /\ UNCHANGED clientVars => ClientOK'
  BY DEF ClientOK, clientVars
<1> QED BY <1>1, <1>2, <1>3, <1>4, <1>5, <1>6

LEMMA NextTypeInv == TypeInv /\ [Next]_vars => TypeInv'
<1> SUFFICES ASSUME TypeInv, [Next]_vars PROVE TypeInv'
    OBVIOUS
<1> USE ConstantsAreTyped
<1>0. MainOK /\ TaskOK /\ SyncOK /\ SigOK /\ WatchOK /\ ClientOK
  BY TypeParts
<1>1. CASE Prepare
  <2>1. MainOK'
    BY <1>0, <1>1 DEF Prepare, MainOK, CurInv, Ending, Over
  <2> QED BY <1>0, <1>1, <2>1, PartsStay, TypePartsNext DEF Prepare
<1>2. CASE StartTicking
  <2>1. MainOK'
    BY <1>0, <1>2 DEF StartTicking, LeaveLoop, MainOK, CurInv, Ending, Over
  <2>2. TaskOK'
    BY <1>0, <1>2 DEF StartTicking, TaskOK, TickerInv
  <2>3. SyncOK'
    BY <1>0, <1>2 DEF StartTicking, SyncOK
  <2>4. SigOK'
    BY <1>0, <1>2 DEF StartTicking, SigOK
  <2> QED BY <1>0, <1>2, <2>1, <2>2, <2>3, <2>4, PartsStay, TypePartsNext DEF StartTicking
<1>3. CASE Return
  <2>1. MainOK'
    BY <1>0, <1>3 DEF Return, MainOK, CurInv, Ending, Over
  <2> QED BY <1>0, <1>3, <2>1, PartsStay, TypePartsNext DEF Return
<1>4. CASE AwaitDone
  <2>1. MainOK'
    BY <1>0, <1>4 DEF AwaitDone, CollectError, MainOK, CurInv, Ending, Over
  <2> QED BY <1>0, <1>4, <2>1, PartsStay, TypePartsNext DEF AwaitDone
<1>5. ASSUME NEW t \in Tasks, SyncOneOff(t) PROVE TypeInv'
  <2>1. MainOK'
    BY <1>0, <1>5 DEF SyncOneOff, BeginSync, MainOK, CurInv, Ending, Over
  <2>2. SyncOK'
    BY <1>0, <1>5 DEF SyncOneOff, BeginSync, SyncOK
  <2> QED BY <1>0, <1>5, <2>1, <2>2, PartsStay, TypePartsNext DEF SyncOneOff
<1>6. ASSUME NEW t \in Tasks, ReceiveFire(t) PROVE TypeInv'
  <2>1. MainOK'
    BY <1>0, <1>6 DEF ReceiveFire, BeginSync, MainOK, CurInv, Ending, Over
  <2>2. TaskOK'
    BY <1>0, <1>6 DEF ReceiveFire, TaskOK, TickerInv
  <2>3. SyncOK'
    BY <1>0, <1>6 DEF ReceiveFire, BeginSync, syncVars, SyncOK
  <2>4. ClientOK'
    BY <1>0, <1>6 DEF ReceiveFire, SendTick, clientVars, ClientOK
  <2> QED BY <1>0, <1>6, <2>1, <2>2, <2>3, <2>4, PartsStay, TypePartsNext DEF ReceiveFire
<1>7. ASSUME NEW t \in Tasks, StopTicking(t) PROVE TypeInv'
  <2>1. MainOK'
    BY <1>0, <1>7 DEF StopTicking, CollectError, MainOK, CurInv, Ending, Over
  <2>2. TaskOK'
    BY <1>0, <1>7 DEF StopTicking, TaskOK, TickerInv
  <2> QED BY <1>0, <1>7, <2>1, <2>2, PartsStay, TypePartsNext DEF StopTicking
<1>8. ASSUME NEW t \in Tasks, TakeTick(t) PROVE TypeInv'
  <2>1. TaskOK'
    BY <1>0, <1>8 DEF TakeTick, TaskOK, TickerInv
  <2> QED BY <1>0, <1>8, <2>1, PartsStay, TypePartsNext DEF TakeTick
<1>9. ASSUME NEW t \in Tasks, TaskExit(t) PROVE TypeInv'
  <2>1. TaskOK'
    BY <1>0, <1>9 DEF TaskExit, TaskOK, TickerInv
  <2> QED BY <1>0, <1>9, <2>1, PartsStay, TypePartsNext DEF TaskExit
<1>10. CASE ReceiveSignal
  <2>1. MainOK'
    BY <1>0, <1>10 DEF ReceiveSignal, LeaveLoop, MainOK, CurInv, Ending, Over
  <2>2. SigOK'
    BY <1>0, <1>10 DEF ReceiveSignal, SigOK
  <2> QED BY <1>0, <1>10, <2>1, <2>2, PartsStay, TypePartsNext DEF ReceiveSignal
<1>11. CASE ReceiveEvent
  <2>1. WatchOK'
    BY <1>0, <1>11 DEF ReceiveEvent, WatchOK
  <2> QED BY <1>0, <1>11, <2>1, PartsStay, TypePartsNext DEF ReceiveEvent
<1>12. CASE ReceiveError
  <2>1. WatchOK'
    BY <1>0, <1>12 DEF ReceiveError, WatchOK
  <2> QED BY <1>0, <1>12, <2>1, PartsStay, TypePartsNext DEF ReceiveError
<1>13. CASE BackOffExpired
  <2>1. MainOK'
    BY <1>0, <1>13 DEF BackOffExpired, LeaveLoop, MainOK, CurInv, Ending, Over
  <2>2. WatchOK'
    BY <1>0, <1>13 DEF BackOffExpired, WatchOK
  <2> QED BY <1>0, <1>13, <2>1, <2>2, PartsStay, TypePartsNext DEF BackOffExpired
<1>14. CASE ReceiveShutdown
  <2>1. MainOK'
    BY <1>0, <1>14 DEF ReceiveShutdown, LeaveLoop, MainOK, CurInv, Ending, Over
  <2>2. ClientOK'
    BY <1>0, <1>14 DEF ReceiveShutdown, SendTick, ClientOK
  <2> QED BY <1>0, <1>14, <2>1, <2>2, PartsStay, TypePartsNext DEF ReceiveShutdown
<1>15. ASSUME NEW s \in Signals, Signal(s) PROVE TypeInv'
  <2>1. MainOK'
    BY <1>0, <1>15 DEF Signal, MainOK, CurInv, Ending, Over
  <2>2. SigOK'
    BY <1>0, <1>15 DEF Signal, SigOK
  <2> QED BY <1>0, <1>15, <2>1, <2>2, PartsStay, TypePartsNext DEF Signal
<1>16. ASSUME NEW n \in Notes, Notify(n) PROVE TypeInv'
  <2>1. WatchOK'
    BY <1>0, <1>16, NotesAssumption DEF Notify, WatchOK
  <2> QED BY <1>0, <1>16, <2>1, PartsStay, TypePartsNext DEF Notify
<1>17. CASE CallShutdown
  <2>1. ClientOK'
    BY <1>0, <1>17 DEF CallShutdown, ClientOK
  <2> QED BY <1>0, <1>17, <2>1, PartsStay, TypePartsNext DEF CallShutdown
<1>18. CASE WaitForTick
  <2>1. ClientOK'
    BY <1>0, <1>18 DEF WaitForTick, ClientOK
  <2> QED BY <1>0, <1>18, <2>1, PartsStay, TypePartsNext DEF WaitForTick
<1>19. CASE Pass
  <2>1. TaskOK'
    BY <1>0, <1>19 DEF Pass, TaskOK, TickerInv
  <2>2. SyncOK'
    BY <1>0, <1>19 DEF Pass, SyncOK
  <2>3. WatchOK'
    BY <1>0, <1>19 DEF Pass, WatchOK
  <2> QED BY <1>0, <1>19, <2>1, <2>2, <2>3, PartsStay, TypePartsNext DEF Pass
<1>20. ASSUME NEW bad \in BOOLEAN, FinishSync(bad) PROVE TypeInv'
  <2>1. MainOK'
    BY <1>0, <1>20 DEF FinishSync, MainOK, CurInv, Ending, Over
  <2>2. SyncOK'
    BY <1>0, <1>20 DEF FinishSync, MainOK, CurInv, SyncOK
  <2>3. ClientOK'
    BY <1>0, <1>20 DEF FinishSync, SendTick, clientVars, ClientOK
  <2> QED BY <1>0, <1>20, <2>1, <2>2, <2>3, PartsStay, TypePartsNext DEF FinishSync
<1>21. CASE NewRound
  <2>1. MainOK'
    BY <1>0, <1>21 DEF NewRound, MainOK, CurInv, Ending, Over
  <2>2. TaskOK'
    BY <1>0, <1>21 DEF NewRound, TaskOK, TickerInv
  <2>3. SyncOK'
    BY <1>0, <1>21 DEF NewRound, SyncOK
  <2>4. SigOK'
    BY <1>0, <1>21 DEF NewRound, SigOK
  <2>5. WatchOK'
    BY <1>0, <1>21, NotesAssumption DEF NewRound, WatchOK
  <2>6. ClientOK'
    BY <1>0, <1>21 DEF NewRound, ClientOK
  <2> QED BY <1>0, <1>21, <2>1, <2>2, <2>3, <2>4, <2>5, <2>6, PartsStay, TypePartsNext DEF NewRound
<1>22. CASE UNCHANGED vars
  BY <1>0, <1>22, PartsStay, TypePartsNext DEF vars
<1> QED
    BY <1>1, <1>2, <1>3, <1>4, <1>5, <1>6, <1>7, <1>8, <1>9, <1>10, <1>11,
       <1>12, <1>13, <1>14, <1>15, <1>16, <1>17, <1>18, <1>19, <1>20, <1>21,
       <1>22
    DEF Next, Step

LEMMA AlwaysTypeInv == Spec => []TypeInv
BY InitTypeInv, NextTypeInv, PTL DEF Spec

\* Every variable of a round always has its type: SyncLoop's goroutines never
\* leave the states their code has.
THEOREM TypeCorrect == Spec => []TypeOK
<1>1. TypeInv => TypeOK
  BY DEF TypeInv
<1> QED BY AlwaysTypeInv, <1>1, PTL

-----------------------------------------------------------------------------
(* No goroutine and no ticker outlives the round. A goroutine that can     *)
(* still move has a ticker that runs, or else main is waiting for just     *)
(* that goroutine; and main visits every task before it returns.           *)

LeakInv ==
    /\ \A t \in Tasks :
          gpc[t] \in {"send", "select"} =>
             running[t] \/ (pc = "await" /\ cur = t) \/ pc = "killed"
    /\ pc \in {"prepare", "oneoff"} => \A t \in Tasks : gpc[t] = "none"
    /\ pc = "sync" /\ cur \notin Periodic => \A t \in Tasks : gpc[t] = "none"
    /\ \A t \in Tasks : gpc[t] # "none" => t \in Periodic
    /\ pc \in {"stop", "await"} => \A t \in Tasks \ todo : ~running[t]
    /\ pc = "await" => ~running[cur]
    /\ pc = "returned" => \A t \in Tasks : ~running[t]

LEMMA InitLeakInv == Init => LeakInv
BY DEF Init, LeakInv

LEMMA NextLeakInv == TypeInv /\ LeakInv /\ [Next]_vars => LeakInv'
<1> SUFFICES ASSUME TypeInv, LeakInv, [Next]_vars PROVE LeakInv'
    OBVIOUS
<1>0. /\ gpc \in [Tasks -> {"none", "send", "select", "exited"}]
      /\ running \in [Tasks -> BOOLEAN]
      /\ Periodic \subseteq Tasks
      /\ pc \in {"sync", "await"} => cur \in Tasks
  BY ConstantsAreTyped DEF TypeInv, TypeOK, CurInv
<1> USE <1>0 DEF LeakInv, mainVars, taskVars, syncVars, sigVars, watchVars,
                 clientVars
<1>1. CASE Prepare
  BY <1>1 DEF Prepare
<1>2. CASE StartTicking
  BY <1>2 DEF StartTicking, LeaveLoop
<1>3. CASE Return
  BY <1>3 DEF Return
<1>4. CASE AwaitDone
  BY <1>4 DEF AwaitDone, CollectError
<1>5. ASSUME NEW t \in Tasks, SyncOneOff(t) PROVE LeakInv'
  BY <1>5 DEF SyncOneOff, BeginSync
<1>6. ASSUME NEW t \in Tasks, ReceiveFire(t) PROVE LeakInv'
  BY <1>6 DEF ReceiveFire, BeginSync
<1>7. ASSUME NEW t \in Tasks, StopTicking(t) PROVE LeakInv'
  BY <1>7 DEF StopTicking, CollectError
<1>8. ASSUME NEW t \in Tasks, TakeTick(t) PROVE LeakInv'
  BY <1>8 DEF TakeTick
<1>9. ASSUME NEW t \in Tasks, TaskExit(t) PROVE LeakInv'
  BY <1>9 DEF TaskExit
<1>10. CASE ReceiveSignal
  BY <1>10 DEF ReceiveSignal, LeaveLoop
<1>11. CASE ReceiveEvent
  BY <1>11 DEF ReceiveEvent
<1>12. CASE ReceiveError
  BY <1>12 DEF ReceiveError
<1>13. CASE BackOffExpired
  BY <1>13 DEF BackOffExpired, LeaveLoop
<1>14. CASE ReceiveShutdown
  BY <1>14 DEF ReceiveShutdown, LeaveLoop
<1>15. ASSUME NEW s \in Signals, Signal(s) PROVE LeakInv'
  <2>1. /\ pc' = pc \/ pc' = "killed"
        /\ UNCHANGED <<cur, todo, err, taskVars, syncVars>>
        BY <1>15 DEF Signal
  <2>2. CASE pc' = pc
        BY <2>1, <2>2
  <2>3. CASE pc' = "killed"
        BY <2>1, <2>3
  <2> QED BY <2>1, <2>2, <2>3
<1>16. ASSUME NEW n \in Notes, Notify(n) PROVE LeakInv'
  BY <1>16 DEF Notify
<1>17. CASE CallShutdown
  BY <1>17 DEF CallShutdown
<1>18. CASE WaitForTick
  BY <1>18 DEF WaitForTick
<1>19. CASE Pass
  BY <1>19 DEF Pass
<1>20. ASSUME NEW bad \in BOOLEAN, FinishSync(bad) PROVE LeakInv'
  BY <1>20 DEF FinishSync
<1>21. CASE NewRound
  BY <1>21 DEF NewRound
<1>22. CASE UNCHANGED vars
  BY <1>22 DEF vars
<1> QED
    BY <1>1, <1>2, <1>3, <1>4, <1>5, <1>6, <1>7, <1>8, <1>9, <1>10, <1>11,
       <1>12, <1>13, <1>14, <1>15, <1>16, <1>17, <1>18, <1>19, <1>20, <1>21,
       <1>22
    DEF Next, Step

\* When SyncFromConfig returns, all goroutines it started have exited and all
\* tickers are stopped, whatever it was that made the loop end.
THEOREM NoLeak == Spec => []NoLeakOnReturn
<1>1. TypeInv /\ LeakInv => NoLeakOnReturn
  BY DEF TypeInv, TypeOK, LeakInv, NoLeakOnReturn
<1> QED BY AlwaysTypeInv, InitLeakInv, NextLeakInv, <1>1, PTL DEF Spec

-----------------------------------------------------------------------------
(* The error that is reported. Outside of a sync, t.failed is what the last *)
(* sync of t came to; the last pass over the tasks sums it up.              *)

ErrorInv ==
    /\ \A t \in Tasks :
          (failed[t] <=> lastBad[t]) \/ (pc = "sync" /\ cur = t) \/ pc = "killed"
    /\ pc = "sync" => ~failed[cur]
    /\ pc \in {"prepare", "oneoff", "loop", "sync"} => ~err
    /\ pc = "await" => cur \in todo
    /\ pc \in {"stop", "await"} =>
          (err <=> \E t \in Tasks \ todo : lastBad[t])
    /\ pc = "returned" => (err <=> \E t \in Tasks : lastBad[t])

LEMMA InitErrorInv == Init => ErrorInv
BY DEF Init, ErrorInv

LEMMA NextErrorInv == TypeInv /\ ErrorInv /\ [Next]_vars => ErrorInv'
<1> SUFFICES ASSUME TypeInv, ErrorInv, [Next]_vars PROVE ErrorInv'
    OBVIOUS
<1> USE ConstantsAreTyped
<1> USE DEF TypeInv, TypeOK, CurInv, ErrorInv, Ending, Over, mainVars,
            taskVars, syncVars, sigVars, watchVars, clientVars
<1>1. CASE Prepare
  BY <1>1 DEF Prepare
<1>2. CASE StartTicking
  BY <1>2 DEF StartTicking, LeaveLoop
<1>3. CASE Return
  BY <1>3 DEF Return
<1>4. CASE AwaitDone
  BY <1>4 DEF AwaitDone, CollectError
<1>5. ASSUME NEW t \in Tasks, SyncOneOff(t) PROVE ErrorInv'
  BY <1>5 DEF SyncOneOff, BeginSync
<1>6. ASSUME NEW t \in Tasks, ReceiveFire(t) PROVE ErrorInv'
  BY <1>6 DEF ReceiveFire, BeginSync
<1>7. ASSUME NEW t \in Tasks, StopTicking(t) PROVE ErrorInv'
  BY <1>7 DEF StopTicking, CollectError, Foremost
<1>8. ASSUME NEW t \in Tasks, TakeTick(t) PROVE ErrorInv'
  BY <1>8 DEF TakeTick
<1>9. ASSUME NEW t \in Tasks, TaskExit(t) PROVE ErrorInv'
  BY <1>9 DEF TaskExit
<1>10. CASE ReceiveSignal
  BY <1>10 DEF ReceiveSignal, LeaveLoop
<1>11. CASE ReceiveEvent
  BY <1>11 DEF ReceiveEvent
<1>12. CASE ReceiveError
  BY <1>12 DEF ReceiveError
<1>13. CASE BackOffExpired
  BY <1>13 DEF BackOffExpired, LeaveLoop
<1>14. CASE ReceiveShutdown
  BY <1>14 DEF ReceiveShutdown, LeaveLoop
<1>15. ASSUME NEW s \in Signals, Signal(s) PROVE ErrorInv'
  <2>1. /\ pc' = pc \/ pc' = "killed"
        /\ UNCHANGED <<cur, todo, err, taskVars, syncVars>>
        BY <1>15 DEF Signal
  <2>2. CASE pc' = pc
        BY <2>1, <2>2
  <2>3. CASE pc' = "killed"
        BY <2>1, <2>3
  <2> QED BY <2>1, <2>2, <2>3
<1>16. ASSUME NEW n \in Notes, Notify(n) PROVE ErrorInv'
  BY <1>16 DEF Notify
<1>17. CASE CallShutdown
  BY <1>17 DEF CallShutdown
<1>18. CASE WaitForTick
  BY <1>18 DEF WaitForTick
<1>19. CASE Pass
  BY <1>19 DEF Pass
<1>20. ASSUME NEW bad \in BOOLEAN, FinishSync(bad) PROVE ErrorInv'
  BY <1>20 DEF FinishSync
<1>21. CASE NewRound
  BY <1>21 DEF NewRound
<1>22. CASE UNCHANGED vars
  BY <1>22 DEF vars
<1> QED
    BY <1>1, <1>2, <1>3, <1>4, <1>5, <1>6, <1>7, <1>8, <1>9, <1>10, <1>11,
       <1>12, <1>13, <1>14, <1>15, <1>16, <1>17, <1>18, <1>19, <1>20, <1>21,
       <1>22
    DEF Next, Step

\* SyncFromConfig reports an error if, and only if, some task had errors in
\* the last sync of it.
THEOREM ReportsErrors == Spec => []ErrorReported
<1>1. ErrorInv => ErrorReported
  BY DEF ErrorInv, ErrorReported
<1> QED BY AlwaysTypeInv, InitErrorInv, NextErrorInv, <1>1, PTL DEF Spec

-----------------------------------------------------------------------------
(* The back-off time. The countdown and the time since the last change add *)
(* up to it.                                                               *)

BackOffInv == timer # Off => quiet = BackOff - timer

LEMMA InitBackOffInv == Init => BackOffInv
BY DEF Init, BackOffInv

LEMMA NextBackOffInv == TypeInv /\ BackOffInv /\ [Next]_vars => BackOffInv'
<1> SUFFICES ASSUME TypeInv, BackOffInv, [Next]_vars PROVE BackOffInv'
    OBVIOUS
<1>0. /\ timer \in Off .. BackOff /\ quiet \in Never .. BackOff
      /\ BackOff \in Nat \ {0}
  BY ConstantsAreTyped DEF TypeInv, TypeOK
<1> USE <1>0 DEF BackOffInv, mainVars, taskVars, syncVars, sigVars, watchVars,
                 clientVars
<1>1. CASE Prepare
  BY <1>1 DEF Prepare
<1>2. CASE StartTicking
  BY <1>2 DEF StartTicking, LeaveLoop
<1>3. CASE Return
  BY <1>3 DEF Return
<1>4. CASE AwaitDone
  BY <1>4 DEF AwaitDone, CollectError
<1>5. ASSUME NEW t \in Tasks, SyncOneOff(t) PROVE BackOffInv'
  BY <1>5 DEF SyncOneOff, BeginSync
<1>6. ASSUME NEW t \in Tasks, ReceiveFire(t) PROVE BackOffInv'
  BY <1>6 DEF ReceiveFire, BeginSync
<1>7. ASSUME NEW t \in Tasks, StopTicking(t) PROVE BackOffInv'
  BY <1>7 DEF StopTicking, CollectError
<1>8. ASSUME NEW t \in Tasks, TakeTick(t) PROVE BackOffInv'
  BY <1>8 DEF TakeTick
<1>9. ASSUME NEW t \in Tasks, TaskExit(t) PROVE BackOffInv'
  BY <1>9 DEF TaskExit
<1>10. CASE ReceiveSignal
  BY <1>10 DEF ReceiveSignal, LeaveLoop
<1>11. CASE ReceiveEvent
  <2>1. \/ timer' = BackOff /\ quiet' = 0
        \/ UNCHANGED <<timer, quiet>>
        BY <1>11 DEF ReceiveEvent
  <2> QED BY <2>1
<1>12. CASE ReceiveError
  BY <1>12 DEF ReceiveError
<1>13. CASE BackOffExpired
  BY <1>13 DEF BackOffExpired, LeaveLoop
<1>14. CASE ReceiveShutdown
  BY <1>14 DEF ReceiveShutdown, LeaveLoop
<1>15. ASSUME NEW s \in Signals, Signal(s) PROVE BackOffInv'
  BY <1>15 DEF Signal
<1>16. ASSUME NEW n \in Notes, Notify(n) PROVE BackOffInv'
  BY <1>16 DEF Notify
<1>17. CASE CallShutdown
  BY <1>17 DEF CallShutdown
<1>18. CASE WaitForTick
  BY <1>18 DEF WaitForTick
<1>19. CASE Pass
  BY <1>19 DEF Pass
<1>20. ASSUME NEW bad \in BOOLEAN, FinishSync(bad) PROVE BackOffInv'
  BY <1>20 DEF FinishSync
<1>21. CASE NewRound
  BY <1>21 DEF NewRound
<1>22. CASE UNCHANGED vars
  BY <1>22 DEF vars
<1> QED
    BY <1>1, <1>2, <1>3, <1>4, <1>5, <1>6, <1>7, <1>8, <1>9, <1>10, <1>11,
       <1>12, <1>13, <1>14, <1>15, <1>16, <1>17, <1>18, <1>19, <1>20, <1>21,
       <1>22
    DEF Next, Step

\* Only a config file that has been quiet for the back-off time makes dregsy
\* restart without a signal.
THEOREM Debounced == Spec => RestartDebounced
<1> DEFINE Quiet == restart' /\ ~restart /\ sigs' = sigs => quiet = BackOff
<1>1. TypeInv /\ BackOffInv /\ [Next]_vars => [Quiet]_vars
  <2> SUFFICES ASSUME TypeInv, BackOffInv, Next, restart', ~restart, sigs' = sigs
               PROVE  quiet = BackOff
  BY DEF Quiet
  <2> USE ConstantsAreTyped
  <2> USE DEF TypeInv, TypeOK, BackOffInv, mainVars, taskVars, syncVars,
              sigVars, watchVars, clientVars
  <2>1. CASE BackOffExpired
        BY <2>1 DEF BackOffExpired
  <2>2. ~ReceiveSignal
        BY DEF ReceiveSignal
  <2>3. ~StartTicking /\ ~ReceiveShutdown
        BY DEF StartTicking, ReceiveShutdown, LeaveLoop
  <2>4. restart' = restart
        \/ BackOffExpired \/ ReceiveSignal \/ StartTicking \/ ReceiveShutdown
        BY DEF Next, Step, Prepare, Return, AwaitDone, SyncOneOff, ReceiveFire,
               StopTicking, TakeTick, TaskExit, ReceiveEvent, ReceiveError,
               Signal, Notify, CallShutdown, WaitForTick, Pass, FinishSync,
               NewRound
  <2> QED BY <2>1, <2>2, <2>3, <2>4
<1> QED BY AlwaysTypeInv, InitBackOffInv, NextBackOffInv, <1>1, PTL
        DEF Spec, RestartDebounced

-----------------------------------------------------------------------------
(* The end of a round. The signal in the channel is one that was sent while *)
(* this round listened, since the channel was new when it began; and an    *)
(* expired timer means a config that has been quiet for the back-off time. *)

EndInv ==
    /\ sigs # None => sigs \in heard
    /\ restart => pc \in Ending
    /\ EndHasCause
    /\ ShutdownReleases

LEMMA InitEndInv == Init => EndInv
BY DEF Init, EndInv, EndHasCause, ShutdownReleases

LEMMA NextEndInv == TypeInv /\ BackOffInv /\ EndInv /\ [Next]_vars => EndInv'
<1> SUFFICES ASSUME TypeInv, BackOffInv, EndInv, [Next]_vars PROVE EndInv'
    OBVIOUS
<1> USE ConstantsAreTyped
<1> USE DEF TypeInv, TypeOK, CurInv, BackOffInv, EndInv, EndHasCause,
            ShutdownReleases, Ending, Over, mainVars,
            taskVars, syncVars, sigVars, watchVars, clientVars
<1>1. CASE Prepare
  BY <1>1 DEF Prepare
<1>2. CASE StartTicking
  BY <1>2 DEF StartTicking, LeaveLoop
<1>3. CASE Return
  BY <1>3 DEF Return
<1>4. CASE AwaitDone
  BY <1>4 DEF AwaitDone, CollectError
<1>5. ASSUME NEW t \in Tasks, SyncOneOff(t) PROVE EndInv'
  BY <1>5 DEF SyncOneOff, BeginSync
<1>6. ASSUME NEW t \in Tasks, ReceiveFire(t) PROVE EndInv'
  BY <1>6 DEF ReceiveFire, BeginSync, SendTick
<1>7. ASSUME NEW t \in Tasks, StopTicking(t) PROVE EndInv'
  BY <1>7 DEF StopTicking, CollectError, Foremost
<1>8. ASSUME NEW t \in Tasks, TakeTick(t) PROVE EndInv'
  BY <1>8 DEF TakeTick
<1>9. ASSUME NEW t \in Tasks, TaskExit(t) PROVE EndInv'
  BY <1>9 DEF TaskExit
<1>10. CASE ReceiveSignal
  <2>1. sigs \in heard /\ sigs \in {"hup", "term"} /\ heard' = heard
        BY <1>10, SignalsAssumption DEF ReceiveSignal
  <2>2. /\ pc' = "stop" /\ (restart' <=> sigs = "hup") /\ sigs' = None
        /\ UNCHANGED <<client, ticks>>
        BY <1>10 DEF ReceiveSignal, LeaveLoop
  <2> QED BY <2>1, <2>2
<1>11. CASE ReceiveEvent
  BY <1>11 DEF ReceiveEvent
<1>12. CASE ReceiveError
  BY <1>12 DEF ReceiveError
<1>13. CASE BackOffExpired
  BY <1>13 DEF BackOffExpired, LeaveLoop
<1>14. CASE ReceiveShutdown
  BY <1>14 DEF ReceiveShutdown, LeaveLoop, SendTick
<1>15. ASSUME NEW s \in Signals, Signal(s) PROVE EndInv'
  BY <1>15 DEF Signal
<1>16. ASSUME NEW n \in Notes, Notify(n) PROVE EndInv'
  BY <1>16 DEF Notify
<1>17. CASE CallShutdown
  BY <1>17 DEF CallShutdown
<1>18. CASE WaitForTick
  BY <1>18 DEF WaitForTick, SendTick
<1>19. CASE Pass
  BY <1>19 DEF Pass
<1>20. ASSUME NEW bad \in BOOLEAN, FinishSync(bad) PROVE EndInv'
  BY <1>20 DEF FinishSync, SendTick
<1>21. CASE NewRound
  BY <1>21 DEF NewRound
<1>22. CASE UNCHANGED vars
  BY <1>22 DEF vars
<1> QED
    BY <1>1, <1>2, <1>3, <1>4, <1>5, <1>6, <1>7, <1>8, <1>9, <1>10, <1>11,
       <1>12, <1>13, <1>14, <1>15, <1>16, <1>17, <1>18, <1>19, <1>20, <1>21,
       <1>22
    DEF Next, Step

\* A round ends for a reason of its own, however many rounds there have been
\* before it, and whatever their channels still hold.
THEOREM EndsForACause == Spec => []EndHasCause
<1>1. EndInv => EndHasCause
  BY DEF EndInv
<1> QED BY AlwaysTypeInv, InitBackOffInv, NextBackOffInv, InitEndInv,
           NextEndInv, <1>1, PTL DEF Spec

\* The caller of Shutdown whose request was taken finds a tick to release it.
THEOREM ReleasesCaller == Spec => []ShutdownReleases
<1>1. EndInv => ShutdownReleases
  BY DEF EndInv
<1> QED BY AlwaysTypeInv, InitBackOffInv, NextBackOffInv, InitEndInv,
           NextEndInv, <1>1, PTL DEF Spec

-----------------------------------------------------------------------------
(* The refinement. While a round is starting, main's pass over the tasks is *)
(* the one-off tasks that are due; past that, it listens for signals.      *)

PromiseInv ==
    /\ Starting => restart = FALSE
    /\ pc # "prepare" /\ Starting => todo \subseteq OneOffs
    /\ pc \in {"loop", "sync", "stop", "await"} /\ ~Starting => handler = "live"

LEMMA InitPromiseInv == Init => PromiseInv
BY DEF Init, PromiseInv, Starting

LEMMA NextPromiseInv ==
    TypeInv /\ LeakInv /\ PromiseInv /\ [Next]_vars => PromiseInv'
<1> SUFFICES ASSUME TypeInv, LeakInv, PromiseInv, [Next]_vars PROVE PromiseInv'
    OBVIOUS
<1> USE ConstantsAreTyped
<1> USE DEF TypeInv, TypeOK, CurInv, PromiseInv, Starting, Ending, Over,
            mainVars, taskVars, syncVars, sigVars, watchVars, clientVars
<1>1. CASE Prepare
  BY <1>1 DEF Prepare
<1>2. CASE StartTicking
  BY <1>2 DEF StartTicking, LeaveLoop
<1>3. CASE Return
  BY <1>3 DEF Return
<1>4. CASE AwaitDone
  BY <1>4 DEF AwaitDone, CollectError
<1>5. ASSUME NEW t \in Tasks, SyncOneOff(t) PROVE PromiseInv'
  BY <1>5 DEF SyncOneOff, BeginSync, Foremost, OneOffs, Periodic
<1>6. ASSUME NEW t \in Tasks, ReceiveFire(t) PROVE PromiseInv'
  BY <1>6 DEF ReceiveFire, BeginSync, LeakInv
<1>7. ASSUME NEW t \in Tasks, StopTicking(t) PROVE PromiseInv'
  BY <1>7 DEF StopTicking, CollectError
<1>8. ASSUME NEW t \in Tasks, TakeTick(t) PROVE PromiseInv'
  BY <1>8 DEF TakeTick
<1>9. ASSUME NEW t \in Tasks, TaskExit(t) PROVE PromiseInv'
  BY <1>9 DEF TaskExit
<1>10. CASE ReceiveSignal
  BY <1>10 DEF ReceiveSignal, LeaveLoop
<1>11. CASE ReceiveEvent
  BY <1>11 DEF ReceiveEvent
<1>12. CASE ReceiveError
  BY <1>12 DEF ReceiveError
<1>13. CASE BackOffExpired
  BY <1>13 DEF BackOffExpired, LeaveLoop
<1>14. CASE ReceiveShutdown
  BY <1>14 DEF ReceiveShutdown, LeaveLoop
<1>15. ASSUME NEW s \in Signals, Signal(s) PROVE PromiseInv'
  BY <1>15 DEF Signal
<1>16. ASSUME NEW n \in Notes, Notify(n) PROVE PromiseInv'
  BY <1>16 DEF Notify
<1>17. CASE CallShutdown
  BY <1>17 DEF CallShutdown
<1>18. CASE WaitForTick
  BY <1>18 DEF WaitForTick
<1>19. CASE Pass
  BY <1>19 DEF Pass
<1>20. ASSUME NEW bad \in BOOLEAN, FinishSync(bad) PROVE PromiseInv'
  BY <1>20 DEF FinishSync
<1>21. CASE NewRound
  BY <1>21 DEF NewRound
<1>22. CASE UNCHANGED vars
  BY <1>22 DEF vars
<1> QED
    BY <1>1, <1>2, <1>3, <1>4, <1>5, <1>6, <1>7, <1>8, <1>9, <1>10, <1>11,
       <1>12, <1>13, <1>14, <1>15, <1>16, <1>17, <1>18, <1>19, <1>20, <1>21,
       <1>22
    DEF Next, Step

LEMMA InitRefines == Init => Promise!Init
BY DEF Init, Promise!Init, Phase, Active, Due, Starting

LEMMA NextRefines ==
    TypeInv /\ LeakInv /\ PromiseInv /\ [Next]_vars => [Promise!Next]_(Promise!round)
<1> SUFFICES ASSUME TypeInv, LeakInv, PromiseInv, [Next]_vars
             PROVE  [Promise!Next]_(Promise!round)
    OBVIOUS
<1> USE ConstantsAreTyped
<1> USE DEF TypeInv, TypeOK, CurInv, PromiseInv, Phase, Active, Due, Starting,
            Ending, Over, mainVars, taskVars, syncVars, sigVars, watchVars,
            clientVars
<1>1. CASE Prepare
  BY <1>1 DEF Prepare, Promise!Abort, Promise!Next, Promise!round
<1>2. CASE StartTicking
  <2>1. /\ pc = "oneoff" /\ todo = {}
        /\ pc' = IF Periodic = {} THEN "stop" ELSE "loop"
        /\ restart' = restart
        BY <1>2 DEF StartTicking, LeaveLoop
  <2>2. Phase = "starting" /\ Active = 0 /\ Due = {}
        BY <2>1
  <2>3. /\ Phase' = IF Periodic = {} THEN "ending" ELSE "serving"
        /\ Active' = 0 /\ Due' = {}
        BY <2>1
  <2> HIDE DEF Phase, Active, Due
  <2> QED BY <2>1, <2>2, <2>3 DEF Promise!Serve, Promise!Next
<1>3. CASE Return
  BY <1>3 DEF Return, Promise!End, Promise!Next, Promise!round
<1>4. CASE AwaitDone
  BY <1>4 DEF AwaitDone, CollectError, Promise!round
<1>5. ASSUME NEW t \in Tasks, SyncOneOff(t) PROVE [Promise!Next]_(Promise!round)
  BY <1>5 DEF SyncOneOff, BeginSync, Foremost, OneOffs, Periodic, Promise!SyncOnce,
                 Promise!Next, Promise!round
<1>6. ASSUME NEW t \in Tasks, ReceiveFire(t) PROVE [Promise!Next]_(Promise!round)
  BY <1>6 DEF ReceiveFire, BeginSync, LeakInv, Promise!SyncPeriodic, Promise!Next,
                 Promise!round
<1>7. ASSUME NEW t \in Tasks, StopTicking(t) PROVE [Promise!Next]_(Promise!round)
  BY <1>7 DEF StopTicking, CollectError, Promise!round
<1>8. ASSUME NEW t \in Tasks, TakeTick(t) PROVE [Promise!Next]_(Promise!round)
  BY <1>8 DEF TakeTick, Promise!round
<1>9. ASSUME NEW t \in Tasks, TaskExit(t) PROVE [Promise!Next]_(Promise!round)
  BY <1>9 DEF TaskExit, Promise!round
<1>10. CASE ReceiveSignal
  BY <1>10 DEF ReceiveSignal, LeaveLoop, Promise!Leave, Promise!Next, Promise!round
<1>11. CASE ReceiveEvent
  BY <1>11 DEF ReceiveEvent, Promise!round
<1>12. CASE ReceiveError
  BY <1>12 DEF ReceiveError, Promise!round
<1>13. CASE BackOffExpired
  BY <1>13 DEF BackOffExpired, LeaveLoop, Promise!Leave, Promise!Next, Promise!round
<1>14. CASE ReceiveShutdown
  BY <1>14 DEF ReceiveShutdown, LeaveLoop, Promise!Leave, Promise!Next, Promise!round
<1>15. ASSUME NEW s \in Signals, Signal(s) PROVE [Promise!Next]_(Promise!round)
  BY <1>15 DEF Signal, Promise!Abort, Promise!Next, Promise!round
<1>16. ASSUME NEW n \in Notes, Notify(n) PROVE [Promise!Next]_(Promise!round)
  BY <1>16 DEF Notify, Promise!round
<1>17. CASE CallShutdown
  BY <1>17 DEF CallShutdown, Promise!round
<1>18. CASE WaitForTick
  BY <1>18 DEF WaitForTick, Promise!round
<1>19. CASE Pass
  BY <1>19 DEF Pass, Promise!round
<1>20. ASSUME NEW bad \in BOOLEAN, FinishSync(bad) PROVE [Promise!Next]_(Promise!round)
  BY <1>20 DEF FinishSync, Promise!Synced, Promise!Next, Promise!round
<1>21. CASE NewRound
  BY <1>21 DEF NewRound, Promise!Restart, Promise!Next, Promise!round
<1>22. CASE UNCHANGED vars
  BY <1>22 DEF vars, Promise!round
<1> QED
    BY <1>1, <1>2, <1>3, <1>4, <1>5, <1>6, <1>7, <1>8, <1>9, <1>10, <1>11,
       <1>12, <1>13, <1>14, <1>15, <1>16, <1>17, <1>18, <1>19, <1>20, <1>21,
       <1>22
    DEF Next, Step

\* SyncFromConfig implements the promise of module Round: one sync at a time,
\* the one-off tasks first and once, and no sync when the loop has been left.
THEOREM Refinement == Spec => KeepsPromise
<1>1. Spec => [](TypeInv /\ LeakInv /\ PromiseInv)
  BY AlwaysTypeInv, InitLeakInv, NextLeakInv, InitPromiseInv,
         NextPromiseInv, PTL DEF Spec
<1> QED BY <1>1, InitRefines, NextRefines, PTL
        DEF Spec, KeepsPromise, Promise!Spec

-----------------------------------------------------------------------------
(* Nothing that is due is lost. A signal, a change of the config and the   *)
(* next fire of a task wait where the main loop will find them, and where  *)
(* main waits itself, for a goroutine, it is known what that can do.       *)

Serving == pc = "loop" \/ (pc = "sync" /\ cur \in Periodic)

\* While main serves its tasks, none of them has been told to stop.
ServeInv ==
    /\ \A t \in Tasks : exit[t] => pc \in Ending
    /\ Serving => \A t \in Periodic : running[t] /\ gpc[t] \in {"send", "select"}

LEMMA InitServeInv == Init => ServeInv
BY DEF Init, ServeInv, Serving

LEMMA NextServeInv ==
    TypeInv /\ LeakInv /\ PromiseInv /\ ServeInv /\ [Next]_vars => ServeInv'
<1> SUFFICES ASSUME TypeInv, LeakInv, PromiseInv, ServeInv, [Next]_vars
             PROVE  ServeInv'
    OBVIOUS
<1> USE ConstantsAreTyped
<1> USE DEF TypeInv, TypeOK, CurInv, LeakInv, ServeInv, Serving, Ending, Over,
            mainVars, taskVars, syncVars, sigVars, watchVars, clientVars
<1>1. CASE Prepare
  BY <1>1 DEF Prepare
<1>2. CASE StartTicking
  BY <1>2 DEF StartTicking, LeaveLoop, Starting
<1>3. CASE Return
  BY <1>3 DEF Return
<1>4. CASE AwaitDone
  BY <1>4 DEF AwaitDone, CollectError
<1>5. ASSUME NEW t \in Tasks, SyncOneOff(t) PROVE ServeInv'
  <2>1. t \in todo /\ pc = "oneoff" /\ pc' = "sync" /\ cur' = t
        BY <1>5 DEF SyncOneOff, BeginSync, Foremost
  <2>2. t \notin Periodic
        BY <2>1 DEF PromiseInv, Starting, OneOffs, Periodic
  <2> QED BY <1>5, <2>1, <2>2 DEF SyncOneOff
<1>6. ASSUME NEW t \in Tasks, ReceiveFire(t) PROVE ServeInv'
  BY <1>6 DEF ReceiveFire, BeginSync
<1>7. ASSUME NEW t \in Tasks, StopTicking(t) PROVE ServeInv'
  BY <1>7 DEF StopTicking, CollectError
<1>8. ASSUME NEW t \in Tasks, TakeTick(t) PROVE ServeInv'
  BY <1>8 DEF TakeTick
<1>9. ASSUME NEW t \in Tasks, TaskExit(t) PROVE ServeInv'
  BY <1>9 DEF TaskExit
<1>10. CASE ReceiveSignal
  BY <1>10 DEF ReceiveSignal, LeaveLoop
<1>11. CASE ReceiveEvent
  BY <1>11 DEF ReceiveEvent
<1>12. CASE ReceiveError
  BY <1>12 DEF ReceiveError
<1>13. CASE BackOffExpired
  BY <1>13 DEF BackOffExpired, LeaveLoop
<1>14. CASE ReceiveShutdown
  BY <1>14 DEF ReceiveShutdown, LeaveLoop
<1>15. ASSUME NEW s \in Signals, Signal(s) PROVE ServeInv'
  BY <1>15 DEF Signal
<1>16. ASSUME NEW n \in Notes, Notify(n) PROVE ServeInv'
  BY <1>16 DEF Notify
<1>17. CASE CallShutdown
  BY <1>17 DEF CallShutdown
<1>18. CASE WaitForTick
  BY <1>18 DEF WaitForTick
<1>19. CASE Pass
  BY <1>19 DEF Pass
<1>20. ASSUME NEW bad \in BOOLEAN, FinishSync(bad) PROVE ServeInv'
  BY <1>20 DEF FinishSync
<1>21. CASE NewRound
  BY <1>21 DEF NewRound
<1>22. CASE UNCHANGED vars
  BY <1>22 DEF vars
<1> QED
    BY <1>1, <1>2, <1>3, <1>4, <1>5, <1>6, <1>7, <1>8, <1>9, <1>10, <1>11,
       <1>12, <1>13, <1>14, <1>15, <1>16, <1>17, <1>18, <1>19, <1>20,
       <1>21, <1>22
    DEF Next, Step

\* The signal in the channel and the timer only go with the end of the loop.
PendingInv == SignalKept /\ ChangePending

LEMMA InitPendingInv == Init => PendingInv
BY DEF Init, PendingInv, SignalKept, ChangePending

LEMMA NextPendingInv ==
    TypeInv /\ BackOffInv /\ PendingInv /\ [Next]_vars => PendingInv'
<1> SUFFICES ASSUME TypeInv, BackOffInv, PendingInv, [Next]_vars
             PROVE  PendingInv'
    OBVIOUS
<1>0. /\ timer \in Off .. BackOff /\ quiet \in Never .. BackOff
      /\ BackOff \in Nat \ {0}
      /\ \A s \in Signals : s # None
  BY ConstantsAreTyped, SignalsAssumption DEF TypeInv, TypeOK
<1> USE <1>0 DEF BackOffInv, PendingInv, SignalKept, ChangePending, Ending, Over,
                 mainVars, taskVars, syncVars, sigVars, watchVars, clientVars
<1>1. CASE Prepare
  BY <1>1 DEF Prepare
<1>2. CASE StartTicking
  BY <1>2 DEF StartTicking, LeaveLoop
<1>3. CASE Return
  BY <1>3 DEF Return
<1>4. CASE AwaitDone
  BY <1>4 DEF AwaitDone, CollectError
<1>5. ASSUME NEW t \in Tasks, SyncOneOff(t) PROVE PendingInv'
  BY <1>5 DEF SyncOneOff, BeginSync
<1>6. ASSUME NEW t \in Tasks, ReceiveFire(t) PROVE PendingInv'
  BY <1>6 DEF ReceiveFire, BeginSync
<1>7. ASSUME NEW t \in Tasks, StopTicking(t) PROVE PendingInv'
  BY <1>7 DEF StopTicking, CollectError
<1>8. ASSUME NEW t \in Tasks, TakeTick(t) PROVE PendingInv'
  BY <1>8 DEF TakeTick
<1>9. ASSUME NEW t \in Tasks, TaskExit(t) PROVE PendingInv'
  BY <1>9 DEF TaskExit
<1>10. CASE ReceiveSignal
  BY <1>10 DEF ReceiveSignal, LeaveLoop
<1>11. CASE ReceiveEvent
  <2>1. \/ timer' = BackOff /\ quiet' = 0
        \/ UNCHANGED <<timer, quiet>>
        BY <1>11 DEF ReceiveEvent
  <2>2. UNCHANGED <<pc, sigs, heard>>
        BY <1>11 DEF ReceiveEvent
  <2> QED BY <2>1, <2>2
<1>12. CASE ReceiveError
  BY <1>12 DEF ReceiveError
<1>13. CASE BackOffExpired
  BY <1>13 DEF BackOffExpired, LeaveLoop
<1>14. CASE ReceiveShutdown
  BY <1>14 DEF ReceiveShutdown, LeaveLoop
<1>15. ASSUME NEW s \in Signals, Signal(s) PROVE PendingInv'
  BY <1>15 DEF Signal
<1>16. ASSUME NEW n \in Notes, Notify(n) PROVE PendingInv'
  BY <1>16 DEF Notify
<1>17. CASE CallShutdown
  BY <1>17 DEF CallShutdown
<1>18. CASE WaitForTick
  BY <1>18 DEF WaitForTick
<1>19. CASE Pass
  BY <1>19 DEF Pass
<1>20. ASSUME NEW bad \in BOOLEAN, FinishSync(bad) PROVE PendingInv'
  BY <1>20 DEF FinishSync
<1>21. CASE NewRound
  BY <1>21 DEF NewRound
<1>22. CASE UNCHANGED vars
  BY <1>22 DEF vars
<1> QED
    BY <1>1, <1>2, <1>3, <1>4, <1>5, <1>6, <1>7, <1>8, <1>9, <1>10, <1>11,
       <1>12, <1>13, <1>14, <1>15, <1>16, <1>17, <1>18, <1>19, <1>20, <1>21,
       <1>22
    DEF Next, Step

\* A goroutine whose ticker runs is at its send or at its select, and its next
\* tick is no further away than an interval. A goroutine that has been told to
\* exit has no ticker any more.
DueInv ==
    /\ \A t \in Tasks : left[t] <= Interval[t]
    /\ \A t \in Tasks : exit[t] => ~running[t] /\ ~tick[t]
    /\ \A t \in Tasks : running[t] => gpc[t] \in {"send", "select"}
    /\ AwaitsExit

LEMMA InitDueInv == Init => DueInv
<1>1. \A t \in Tasks : Interval[t] \in Nat
  BY ConstantsAreTyped
<1> QED BY <1>1 DEF Init, DueInv, AwaitsExit

LEMMA NextDueInv ==
    TypeInv /\ ServeInv /\ DueInv /\ [Next]_vars => DueInv'
<1> SUFFICES ASSUME TypeInv, ServeInv, DueInv, [Next]_vars PROVE DueInv'
    OBVIOUS
<1>0. /\ \A t \in Tasks : Interval[t] \in Nat /\ left[t] \in Nat
      /\ gpc \in [Tasks -> {"none", "send", "select", "exited"}]
      /\ exit \in [Tasks -> BOOLEAN] /\ running \in [Tasks -> BOOLEAN]
      /\ tick \in [Tasks -> BOOLEAN]
      /\ \A t \in Tasks : exit[t] => pc \in Ending
      /\ pc \in {"sync", "await"} => cur \in Tasks
  BY ConstantsAreTyped DEF TypeInv, TypeOK, CurInv, ServeInv
<1> USE <1>0 DEF DueInv, AwaitsExit, Ending, Over, mainVars, taskVars, syncVars,
                 sigVars, watchVars, clientVars
<1>1. CASE Prepare
  BY <1>1 DEF Prepare
<1>2. CASE StartTicking
  BY <1>2 DEF StartTicking, LeaveLoop
<1>3. CASE Return
  BY <1>3 DEF Return
<1>4. CASE AwaitDone
  BY <1>4 DEF AwaitDone, CollectError
<1>5. ASSUME NEW t \in Tasks, SyncOneOff(t) PROVE DueInv'
  BY <1>5 DEF SyncOneOff, BeginSync
<1>6. ASSUME NEW t \in Tasks, ReceiveFire(t) PROVE DueInv'
  BY <1>6 DEF ReceiveFire, BeginSync
<1>7. ASSUME NEW t \in Tasks, StopTicking(t) PROVE DueInv'
  BY <1>7 DEF StopTicking, CollectError
<1>8. ASSUME NEW t \in Tasks, TakeTick(t) PROVE DueInv'
  BY <1>8 DEF TakeTick
<1>9. ASSUME NEW t \in Tasks, TaskExit(t) PROVE DueInv'
  BY <1>9 DEF TaskExit
<1>10. CASE ReceiveSignal
  BY <1>10 DEF ReceiveSignal, LeaveLoop
<1>11. CASE ReceiveEvent
  BY <1>11 DEF ReceiveEvent
<1>12. CASE ReceiveError
  BY <1>12 DEF ReceiveError
<1>13. CASE BackOffExpired
  BY <1>13 DEF BackOffExpired, LeaveLoop
<1>14. CASE ReceiveShutdown
  BY <1>14 DEF ReceiveShutdown, LeaveLoop
<1>15. ASSUME NEW s \in Signals, Signal(s) PROVE DueInv'
  BY <1>15 DEF Signal
<1>16. ASSUME NEW n \in Notes, Notify(n) PROVE DueInv'
  BY <1>16 DEF Notify
<1>17. CASE CallShutdown
  BY <1>17 DEF CallShutdown
<1>18. CASE WaitForTick
  BY <1>18 DEF WaitForTick
<1>19. CASE Pass
  BY <1>19 DEF Pass
<1>20. ASSUME NEW bad \in BOOLEAN, FinishSync(bad) PROVE DueInv'
  BY <1>20 DEF FinishSync
<1>21. CASE NewRound
  BY <1>21 DEF NewRound
<1>22. CASE UNCHANGED vars
  BY <1>22 DEF vars
<1> QED
    BY <1>1, <1>2, <1>3, <1>4, <1>5, <1>6, <1>7, <1>8, <1>9, <1>10, <1>11,
       <1>12, <1>13, <1>14, <1>15, <1>16, <1>17, <1>18, <1>19, <1>20, <1>21,
       <1>22
    DEF Next, Step

LEMMA AlwaysPendingInv ==
    Spec => [](/\ TypeInv /\ LeakInv /\ BackOffInv /\ PromiseInv
               /\ ServeInv /\ PendingInv /\ DueInv)
BY InitTypeInv, NextTypeInv, InitLeakInv, NextLeakInv, InitBackOffInv,
   NextBackOffInv, InitPromiseInv, NextPromiseInv, InitServeInv, NextServeInv,
   InitPendingInv, NextPendingInv, InitDueInv, NextDueInv, PTL
DEF Spec

\* However many signals come while main is busy with a sync, and whichever of
\* them are dropped, one is there to end the loop.
THEOREM KeepsSignal == Spec => []SignalKept
<1>1. PendingInv => SignalKept
  BY DEF PendingInv
<1> QED BY AlwaysPendingInv, <1>1, PTL

\* However the events and errors of the watch follow each other, the timer of
\* the last change that counts keeps running until the loop is left.
THEOREM KeepsTimer == Spec => []ChangePending
<1>1. PendingInv => ChangePending
  BY DEF PendingInv
<1> QED BY AlwaysPendingInv, <1>1, PTL

\* Whatever the tasks and their intervals, no periodic task is ever left without
\* a goroutine that fires, or a ticker that makes it do so.
THEOREM KeepsFiring == Spec => []FiresAhead
<1>1. TypeInv /\ ServeInv /\ DueInv => FiresAhead
  <2> SUFFICES ASSUME TypeInv, ServeInv, DueInv, pc = "loop", NEW t \in Periodic
               PROVE  /\ gpc[t] \in {"send", "select"} /\ ~exit[t] /\ running[t]
                      /\ left[t] \in 1 .. Interval[t]
      BY DEF FiresAhead
  <2>1. t \in Tasks /\ Interval[t] \in Nat
        BY ConstantsAreTyped DEF Periodic
  <2>2. gpc[t] \in {"send", "select"} /\ running[t] /\ ~exit[t]
        BY <2>1 DEF ServeInv, Serving, Ending, Over
  <2>3. left[t] \in Nat /\ left[t] > 0 /\ left[t] <= Interval[t]
        BY <2>1, <2>2 DEF TypeInv, TypeOK, TickerInv, DueInv
  <2> QED BY <2>1, <2>2, <2>3
<1> QED BY AlwaysPendingInv, <1>1, PTL

\* A goroutine that main waits for in stopTicking() has exited, is about to, or
\* is in the send of a fire.
THEOREM StopIsHeard == Spec => []AwaitsExit
<1>1. DueInv => AwaitsExit
  BY DEF DueInv
<1> QED BY AlwaysPendingInv, <1>1, PTL

\* In the last of these cases the process hangs: no step of any goroutine, of the
\* surroundings or of time gets it out of there.
THEOREM HangsForGood == Spec => StuckForGood
<1> DEFINE Stays == pc = "await" /\ gpc[cur] = "send" =>
                       pc' = "await" /\ cur' = cur /\ gpc'[cur] = "send"
<1>1. TypeInv /\ PromiseInv /\ [Next]_vars => [Stays]_vars
  <2> SUFFICES ASSUME TypeInv, PromiseInv, Next, pc = "await", gpc[cur] = "send"
               PROVE  pc' = "await" /\ cur' = cur /\ gpc'[cur] = "send"
      BY DEF Stays
  <2>0. cur \in Tasks /\ gpc \in [Tasks -> {"none", "send", "select", "exited"}]
        BY DEF TypeInv, TypeOK, CurInv
  <2>1. handler = "live"
        BY DEF PromiseInv, Starting
  <2>2. ASSUME NEW t \in Tasks, TakeTick(t) \/ TaskExit(t)
        PROVE  gpc'[cur] = "send"
    <3>1. gpc[t] = "select" /\ \E g : gpc' = [gpc EXCEPT ![t] = g]
          BY <2>2 DEF TakeTick, TaskExit
    <3> QED BY <2>0, <3>1
  <2>3. /\ ~Prepare /\ ~StartTicking /\ ~Return /\ ~AwaitDone /\ ~NewRound
        /\ \A t \in Tasks : ~SyncOneOff(t) /\ ~ReceiveFire(t) /\ ~StopTicking(t)
        /\ \A bad \in BOOLEAN : ~FinishSync(bad)
        BY DEF Prepare, StartTicking, Return, AwaitDone, NewRound, SyncOneOff,
               ReceiveFire, StopTicking, FinishSync
  <2>4. ~ReceiveSignal /\ ~BackOffExpired /\ ~ReceiveShutdown
        /\ ~ReceiveEvent /\ ~ReceiveError
        BY DEF ReceiveSignal, BackOffExpired, ReceiveShutdown, ReceiveEvent,
               ReceiveError
  <2>5. /\ \A t \in Tasks : TakeTick(t) \/ TaskExit(t) => UNCHANGED <<pc, cur>>
        /\ \A s \in Signals : Signal(s) => UNCHANGED <<pc, cur, gpc>>
        /\ \A n \in Notes : Notify(n) => UNCHANGED <<pc, cur, gpc>>
        /\ CallShutdown \/ WaitForTick \/ Pass => UNCHANGED <<pc, cur, gpc>>
        BY <2>1 DEF TakeTick, TaskExit, Signal, Notify, CallShutdown, WaitForTick,
                    Pass, mainVars, taskVars
  <2> QED BY <2>2, <2>3, <2>4, <2>5 DEF Next, Step
<1> QED BY AlwaysPendingInv, <1>1, PTL DEF Spec, StuckForGood

\* For any tasks, intervals, signals and notifications, all of these together
THEOREM LosesNothing == Spec => []NothingLost
<1>1. SignalKept /\ ChangePending /\ FiresAhead /\ AwaitsExit => NothingLost
  BY DEF NothingLost
<1> QED BY <1>1, KeepsSignal, KeepsTimer, KeepsFiring, StopIsHeard, PTL

-----------------------------------------------------------------------------
(* Timing, in module SyncTiming. The wait of a task before its next sync is *)
(* bounded by what is left until its next fire. A fire that is skipped came *)
(* when less than half an interval had passed since the last sync, so that *)
(* what main can have been idle for is less than that, and the next fire   *)
(* is at most one interval away. Fires that are pending are received before *)
(* any more time passes.                                                   *)

\* A fire of t will be received as soon as main is back in its loop.
FirePending(t) == gpc[t] = "send" \/ tick[t]

ClockOf(t) ==
    /\ since[t] \in 0 .. Cap(t) /\ idle[t] \in 0 .. Cap(t)
    /\ age[t] <= Interval[t] /\ left[t] <= Interval[t]
    /\ age[t] <= since[t]
    /\ age[t] < Interval[t] => idle[t] <= age[t]

ClockInv ==
    /\ since \in [Tasks -> Nat] /\ idle \in [Tasks -> Nat]
    /\ \A t \in Tasks : ClockOf(t)
    /\ Starting =>
          \A t \in Periodic : since[t] >= Interval[t] /\ idle[t] = 0

WaitInv ==
    Serving => \A t \in Periodic :
        \/ pc = "sync" /\ cur = t
        \/ FirePending(t) /\ 2 * idle[t] <= 3 * Interval[t]
        \/ 2 * (idle[t] + left[t]) <= 3 * Interval[t]

\* A step that takes no time changes what the clocks are compared with in three
\* ways only: the tickers are started, a fire is received, or a tick becomes one.
LEMMA StepsOfServing ==
    ASSUME TypeInv, LeakInv, PromiseInv, ServeInv, Step
    PROVE  \/ StartTicking
           \/ \E t \in Tasks : ReceiveFire(t) \/ TakeTick(t)
           \/ /\ UNCHANGED <<age, left>>
              /\ Starting' => Starting
              /\ Serving' => UNCHANGED <<pc, cur, gpc, tick>>
<1> USE ConstantsAreTyped
<1> USE DEF TypeInv, TypeOK, CurInv, LeakInv, ServeInv, Serving, Starting,
            Ending, Over, mainVars, taskVars, syncVars, sigVars, watchVars,
            clientVars
<1> DEFINE Other == /\ UNCHANGED <<age, left>>
                    /\ Starting' => Starting
                    /\ Serving' => UNCHANGED <<pc, cur, gpc, tick>>
<1>1. ASSUME Prepare PROVE Other
  BY <1>1 DEF Prepare
<1>2. ASSUME Return PROVE Other
  BY <1>2 DEF Return
<1>3. ASSUME AwaitDone PROVE Other
  BY <1>3 DEF AwaitDone, CollectError
<1>4. ASSUME NEW t \in Tasks, SyncOneOff(t) PROVE Other
  <2>1. t \in todo /\ pc = "oneoff" /\ pc' = "sync" /\ cur' = t
        BY <1>4 DEF SyncOneOff, BeginSync, Foremost
  <2>2. t \notin Periodic
        BY <2>1 DEF PromiseInv, Starting, OneOffs, Periodic
  <2> QED BY <1>4, <2>1, <2>2 DEF SyncOneOff, BeginSync
<1>5. ASSUME NEW t \in Tasks, StopTicking(t) PROVE Other
  BY <1>5 DEF StopTicking, CollectError
<1>6. ASSUME NEW t \in Tasks, TaskExit(t) PROVE Other
  BY <1>6 DEF TaskExit
<1>7. ASSUME ReceiveSignal PROVE Other
  BY <1>7 DEF ReceiveSignal, LeaveLoop
<1>8. ASSUME ReceiveEvent PROVE Other
  BY <1>8 DEF ReceiveEvent
<1>9. ASSUME ReceiveError PROVE Other
  BY <1>9 DEF ReceiveError
<1>10. ASSUME BackOffExpired PROVE Other
  BY <1>10 DEF BackOffExpired, LeaveLoop
<1>11. ASSUME ReceiveShutdown PROVE Other
  BY <1>11 DEF ReceiveShutdown, LeaveLoop
<1>12. ASSUME NEW s \in Signals, Signal(s) PROVE Other
  BY <1>12 DEF Signal
<1>13. ASSUME NEW n \in Notes, Notify(n) PROVE Other
  BY <1>13 DEF Notify
<1>14. ASSUME CallShutdown PROVE Other
  BY <1>14 DEF CallShutdown
<1>15. ASSUME WaitForTick PROVE Other
  BY <1>15 DEF WaitForTick
<1> QED
    BY <1>1, <1>2, <1>3, <1>4, <1>5, <1>6, <1>7, <1>8, <1>9, <1>10, <1>11,
       <1>12, <1>13, <1>14, <1>15
    DEF Step

LEMMA TimingIsNext == [TimingNext]_timingVars => [Next]_vars
BY DEF TimingNext, timingVars, TimedPass, TimedOther, TimedNewRound,
       TimedFinish, Next

LEMMA ClocksAreTyped ==
    ASSUME NEW t \in Tasks
    PROVE  Interval[t] \in Nat /\ Cap(t) = 2 * Interval[t] /\ Cap(t) \in Nat
<1>1. Interval[t] \in Nat
  BY ConstantsAreTyped
<1> QED BY <1>1 DEF Cap

\* A task that has not been served for its interval, and was never waited for
LEMMA FreshClock ==
    ASSUME NEW t \in Tasks, NEW s, NEW i, NEW a, NEW l,
           s = Cap(t), i = 0, a = Interval[t], l = Interval[t]
    PROVE  /\ s \in 0 .. Cap(t) /\ i \in 0 .. Cap(t)
           /\ a <= Interval[t] /\ l <= Interval[t] /\ a <= s
           /\ a < Interval[t] => i <= a
           /\ s >= Interval[t]
BY ClocksAreTyped

LEMMA InitClockInv == TimingInit => ClockInv /\ WaitInv
<1> SUFFICES ASSUME TimingInit PROVE ClockInv /\ WaitInv
    OBVIOUS
<1>1. /\ pc = "prepare" /\ age = Interval /\ left = Interval
      /\ since = [t \in Tasks |-> Cap(t)] /\ idle = [t \in Tasks |-> 0]
  BY DEF TimingInit, Init
<1>2. since \in [Tasks -> Nat] /\ idle \in [Tasks -> Nat]
  BY <1>1, ClocksAreTyped
<1>3. ASSUME NEW t \in Tasks
      PROVE  ClockOf(t) /\ since[t] >= Interval[t] /\ idle[t] = 0
  <2>1. /\ since[t] = Cap(t) /\ idle[t] = 0
        /\ age[t] = Interval[t] /\ left[t] = Interval[t]
    BY <1>1
  <2> QED BY <2>1, FreshClock DEF ClockOf
<1>4. ClockInv
  BY <1>2, <1>3, ConstantsAreTyped DEF ClockInv
<1>5. WaitInv
  BY <1>1, ConstantsAreTyped DEF WaitInv, Serving
<1> QED BY <1>4, <1>5

LEMMA SkippedFire ==
    \A a, i, l, n \in Nat :
        2 * a < n /\ (a < n => i <= a) /\ l <= n => 2 * (i + l) <= 3 * n
OBVIOUS

LEMMA OneUnitLess ==
    \A i, j, l, n \in Nat :
        2 * (i + l) <= 3 * n /\ j <= i + 1 /\ l > 0
            => 2 * (j + (l - 1)) <= 3 * n
OBVIOUS

\* One unit of time, for one task
LEMMA ClocksAdvance ==
    ASSUME NEW t \in Tasks, ClockOf(t), age[t] \in Nat, left[t] \in Nat,
           age'[t] = IF age[t] < Interval[t] THEN age[t] + 1 ELSE age[t],
           left'[t] = IF running[t] THEN NextTick(t) ELSE left[t],
           since'[t] = IF since[t] < Cap(t) THEN since[t] + 1 ELSE since[t],
           idle'[t] = IF pc = "loop" /\ idle[t] < Cap(t) THEN idle[t] + 1
                                                        ELSE idle[t]
    PROVE  /\ ClockOf(t)'
           /\ since[t] >= Interval[t] => since'[t] >= Interval[t]
<1>1. Interval[t] \in Nat /\ Cap(t) = 2 * Interval[t]
  BY ClocksAreTyped
<1>2. left'[t] <= Interval[t]
  BY <1>1 DEF ClockOf
<1>3. since'[t] \in 0 .. Cap(t) /\ idle'[t] \in 0 .. Cap(t)
  BY <1>1 DEF ClockOf
<1>4. age'[t] <= Interval[t] /\ age'[t] <= since'[t]
  BY <1>1 DEF ClockOf
<1>5. age'[t] < Interval[t] => idle'[t] <= age'[t]
  BY <1>1 DEF ClockOf
<1>6. since[t] >= Interval[t] => since'[t] >= Interval[t]
  BY <1>1 DEF ClockOf
<1> QED BY <1>2, <1>3, <1>4, <1>5, <1>6 DEF ClockOf

LEMMA ClocksStay ==
    /\ ClockInv /\ UNCHANGED <<age, left, since, idle>> /\ (Starting' => Starting)
    => ClockInv'
BY DEF ClockInv, ClockOf

LEMMA NextClockInv ==
    ASSUME TypeInv, TypeInv', LeakInv, PromiseInv, ServeInv, ClockInv,
           [TimingNext]_timingVars
    PROVE  ClockInv'
<1>0. /\ age \in [Tasks -> Nat] /\ left \in [Tasks -> Nat]
      /\ pc = "sync" => cur \in Tasks
      /\ Periodic \subseteq Tasks
  BY ConstantsAreTyped DEF TypeInv, TypeOK, CurInv
<1>1. CASE TimedOther
  <2>1. UNCHANGED <<since, idle>>
        BY <1>1 DEF TimedOther
  <2>2. CASE StartTicking
    <3>1. /\ Starting /\ ~Starting'
          /\ left' = Interval
          /\ age' = [t \in Tasks |-> IF t \in Periodic THEN Interval[t] ELSE age[t]]
          BY <2>2 DEF StartTicking, LeaveLoop, Starting
    <3>2. ASSUME NEW t \in Tasks PROVE ClockOf(t)'
      <4>1. /\ ClockOf(t) /\ since'[t] = since[t] /\ idle'[t] = idle[t]
            /\ left'[t] = Interval[t] /\ Interval[t] \in Nat
        BY <2>1, <3>1, ClocksAreTyped DEF ClockInv
      <4>2. CASE t \in Periodic
        <5>1. age'[t] = Interval[t] /\ since[t] >= Interval[t]
          BY <3>1, <4>2 DEF ClockInv
        <5> QED BY <4>1, <5>1 DEF ClockOf
      <4>3. CASE t \notin Periodic
        <5>1. age'[t] = age[t]
          BY <3>1, <4>3
        <5> QED BY <4>1, <5>1 DEF ClockOf
      <4> QED BY <4>2, <4>3
    <3> QED BY <2>1, <3>1, <3>2 DEF ClockInv
  <2>3. ASSUME NEW t \in Tasks, ReceiveFire(t) \/ TakeTick(t) PROVE ClockInv'
    <3>1. UNCHANGED <<age, left>>
          BY <2>3 DEF ReceiveFire, TakeTick, BeginSync, syncVars
    <3>2. ~Starting'
      <4>1. CASE ReceiveFire(t)
        <5>1. t \in Periodic /\ pc = "loop"
          BY <4>1 DEF ReceiveFire, LeakInv
        <5>2. pc' = "loop" \/ (pc' = "sync" /\ cur' = t)
          BY <4>1, <5>1 DEF ReceiveFire, BeginSync
        <5> QED BY <5>1, <5>2 DEF Starting
      <4>2. CASE TakeTick(t)
        BY <4>2 DEF TakeTick, Starting, LeakInv, mainVars
      <4> QED BY <2>3, <4>1, <4>2
    <3> QED BY <2>1, <3>1, <3>2, ClocksStay
  <2>4. CASE UNCHANGED <<age, left>> /\ (Starting' => Starting)
        BY <2>1, <2>4, ClocksStay
  <2> QED BY <1>1, <2>2, <2>3, <2>4, StepsOfServing DEF TimedOther
<1>2. CASE TimedPass
  <2>1. /\ age' = [t \in Tasks |-> IF age[t] < Interval[t] THEN age[t] + 1 ELSE age[t]]
        /\ left' = [t \in Tasks |-> IF running[t] THEN NextTick(t) ELSE left[t]]
        /\ since' = Advance(since)
        /\ idle' = IF pc = "loop" THEN Advance(idle) ELSE idle
        /\ Starting' <=> Starting
        BY <1>2 DEF TimedPass, Pass, mainVars, Starting
  <2>2. ASSUME NEW t \in Tasks
        PROVE  /\ since'[t] = IF since[t] < Cap(t) THEN since[t] + 1 ELSE since[t]
               /\ idle'[t] = IF pc = "loop" /\ idle[t] < Cap(t) THEN idle[t] + 1
                                                                ELSE idle[t]
    BY <2>1 DEF Advance
  <2>3. ASSUME NEW t \in Tasks
        PROVE  ClockOf(t)' /\ (since[t] >= Interval[t] => since'[t] >= Interval[t])
    <3>1. ClockOf(t) /\ age[t] \in Nat /\ left[t] \in Nat
      BY <1>0 DEF ClockInv
    <3>2. /\ age'[t] = IF age[t] < Interval[t] THEN age[t] + 1 ELSE age[t]
          /\ left'[t] = IF running[t] THEN NextTick(t) ELSE left[t]
      BY <2>1
    <3> QED BY <2>2, <3>1, <3>2, ClocksAdvance
  <2>4. ASSUME Starting', NEW t \in Periodic
        PROVE  since'[t] >= Interval[t] /\ idle'[t] = 0
    <3>1. since[t] >= Interval[t] /\ idle[t] = 0 /\ t \in Tasks /\ pc # "loop"
      BY <1>0, <2>1, <2>4 DEF ClockInv, Starting
    <3> QED BY <2>2, <2>3, <3>1
  <2>5. since' \in [Tasks -> Nat] /\ idle' \in [Tasks -> Nat]
        BY <2>1 DEF Advance, ClockInv
  <2> QED BY <2>3, <2>4, <2>5 DEF ClockInv
<1>3. ASSUME NEW bad \in BOOLEAN, TimedFinish(bad) PROVE ClockInv'
  <2>1. /\ age' = [age EXCEPT ![cur] = 0] /\ left' = left
        /\ since' = [since EXCEPT ![cur] = 0]
        /\ idle' = [idle EXCEPT ![cur] = 0]
        /\ cur \in Tasks
        /\ Starting' => Starting /\ cur \notin Periodic
        BY <1>0, <1>3 DEF TimedFinish, FinishSync, taskVars, Starting
  <2>2. since' \in [Tasks -> Nat] /\ idle' \in [Tasks -> Nat]
        BY <2>1 DEF ClockInv
  <2>3. ASSUME NEW t \in Tasks PROVE ClockOf(t)'
    <3>0. ClockOf(t) /\ left'[t] = left[t]
      BY <2>1 DEF ClockInv
    <3>1. CASE t = cur
      <4>1. age'[t] = 0 /\ since'[t] = 0 /\ idle'[t] = 0
        BY <1>0, <2>1, <3>1 DEF ClockInv
      <4> QED BY <3>0, <4>1, ClocksAreTyped DEF ClockOf
    <3>2. CASE t # cur
      <4>1. age'[t] = age[t] /\ since'[t] = since[t] /\ idle'[t] = idle[t]
        BY <1>0, <2>1, <3>2 DEF ClockInv
      <4> QED BY <3>0, <4>1 DEF ClockOf
    <3> QED BY <3>1, <3>2
  <2>4. ASSUME Starting', NEW t \in Periodic
        PROVE  since'[t] >= Interval[t] /\ idle'[t] = 0
    <3>1. t # cur /\ t \in Tasks
      BY <1>0, <2>1, <2>4
    <3>2. since'[t] = since[t] /\ idle'[t] = idle[t]
      BY <2>1, <3>1 DEF ClockInv
    <3> QED BY <2>1, <2>4, <3>2 DEF ClockInv
  <2> QED BY <2>2, <2>3, <2>4 DEF ClockInv
<1>4. CASE TimedNewRound
  <2>1. /\ age' = Interval /\ left' = Interval
        /\ since' = [t \in Tasks |-> Cap(t)] /\ idle' = [t \in Tasks |-> 0]
        BY <1>4 DEF TimedNewRound, NewRound
  <2>2. since' \in [Tasks -> Nat] /\ idle' \in [Tasks -> Nat]
        BY <2>1, ClocksAreTyped
  <2>3. ASSUME NEW t \in Tasks
        PROVE  ClockOf(t)' /\ since'[t] >= Interval[t] /\ idle'[t] = 0
    <3>1. /\ age'[t] = Interval[t] /\ left'[t] = Interval[t]
          /\ since'[t] = Cap(t) /\ idle'[t] = 0
      BY <2>1
    <3> QED BY <3>1, FreshClock DEF ClockOf
  <2> QED BY <1>0, <2>2, <2>3 DEF ClockInv
<1>5. CASE UNCHANGED timingVars
  <2>1. UNCHANGED <<age, left, since, idle, pc, cur>>
    BY <1>5 DEF timingVars, vars, mainVars, taskVars, syncVars
  <2> QED BY <2>1, ClocksStay DEF Starting
<1> QED BY <1>1, <1>2, <1>3, <1>4, <1>5 DEF TimingNext

LEMMA NextWaitInv ==
    ASSUME TypeInv, TypeInv', LeakInv, PromiseInv, ServeInv, ClockInv, ClockInv',
           WaitInv, [TimingNext]_timingVars
    PROVE  WaitInv'
<1> SUFFICES ASSUME Serving', NEW t \in Periodic
             PROVE  \/ pc' = "sync" /\ cur' = t
                    \/ FirePending(t)' /\ 2 * idle'[t] <= 3 * Interval[t]
                    \/ 2 * (idle'[t] + left'[t]) <= 3 * Interval[t]
    BY DEF WaitInv
<1>0. /\ t \in Tasks /\ Interval[t] \in Nat
      /\ age \in [Tasks -> Nat] /\ left \in [Tasks -> Nat] /\ left' \in [Tasks -> Nat]
      /\ gpc \in [Tasks -> {"none", "send", "select", "exited"}]
      /\ tick \in [Tasks -> BOOLEAN] /\ running \in [Tasks -> BOOLEAN]
      /\ pc = "sync" => cur \in Tasks
      /\ running[t] => left[t] > 0
  BY ConstantsAreTyped DEF TypeInv, TypeOK, CurInv, TickerInv
<1>a. /\ age[t] \in Nat /\ left[t] \in Nat /\ left'[t] \in Nat
      /\ idle[t] \in Nat /\ idle'[t] \in Nat /\ Interval[t] \in Nat
      /\ left'[t] <= Interval[t] /\ left[t] <= Interval[t]
      /\ age[t] < Interval[t] => idle[t] <= age[t]
  BY <1>0 DEF ClockInv, ClockOf
<1>b. Serving => \/ pc = "sync" /\ cur = t
                 \/ FirePending(t) /\ 2 * idle[t] <= 3 * Interval[t]
                 \/ 2 * (idle[t] + left[t]) <= 3 * Interval[t]
  BY DEF WaitInv
<1>1. CASE TimedOther
  <2>1. UNCHANGED <<since, idle>>
        BY <1>1 DEF TimedOther
  <2>2. CASE StartTicking
    <3>1. idle[t] = 0
          BY <2>2 DEF StartTicking, ClockInv, Starting
    <3>2. idle'[t] = 0
          BY <2>1, <3>1
    <3> QED BY <1>a, <3>2
  <2>3. ASSUME NEW u \in Tasks, ReceiveFire(u)
        PROVE  \/ pc' = "sync" /\ cur' = t
               \/ FirePending(t)' /\ 2 * idle'[t] <= 3 * Interval[t]
               \/ 2 * (idle'[t] + left'[t]) <= 3 * Interval[t]
    <3>1. /\ pc = "loop" /\ Serving
          /\ gpc' = [gpc EXCEPT ![u] = "select"]
          /\ UNCHANGED <<tick, left>>
          BY <2>3 DEF ReceiveFire, Serving
    <3>2. CASE u # t
      BY <1>0, <1>b, <2>1, <3>1, <3>2 DEF FirePending
    <3>3. CASE u = t /\ TooSoon(t)
      <4>1. 2 * age[t] < Interval[t]
            BY <3>3 DEF TooSoon
      <4>2. 2 * (idle[t] + left[t]) <= 3 * Interval[t]
            BY <1>a, <4>1, SkippedFire
      <4> QED BY <2>1, <3>1, <4>2
    <3>4. CASE u = t /\ ~TooSoon(t)
      BY <2>3, <3>4 DEF ReceiveFire, BeginSync
    <3> QED BY <3>2, <3>3, <3>4
  <2>4. ASSUME NEW u \in Tasks, TakeTick(u)
        PROVE  \/ pc' = "sync" /\ cur' = t
               \/ FirePending(t)' /\ 2 * idle'[t] <= 3 * Interval[t]
               \/ 2 * (idle'[t] + left'[t]) <= 3 * Interval[t]
    <3>1. /\ UNCHANGED <<pc, cur, left>> /\ Serving
          /\ gpc' = [gpc EXCEPT ![u] = "send"]
          /\ tick' = [tick EXCEPT ![u] = FALSE]
          BY <2>4 DEF TakeTick, Serving, mainVars
    <3>2. FirePending(t) => FirePending(t)'
          BY <1>0, <3>1 DEF FirePending
    <3> QED BY <1>b, <2>1, <3>1, <3>2
  <2>5. CASE /\ UNCHANGED <<age, left>>
             /\ Serving' => UNCHANGED <<pc, cur, gpc, tick>>
    <3>1. UNCHANGED <<pc, cur, gpc, tick, left, idle>>
          BY <2>1, <2>5
    <3> QED BY <1>b, <3>1 DEF Serving, FirePending
  <2> QED BY <1>1, <2>2, <2>3, <2>4, <2>5, StepsOfServing DEF TimedOther
<1>2. CASE TimedPass
  <2>1. /\ UNCHANGED <<pc, cur, gpc>>
        /\ tick'[t] <=> tick[t] \/ (running[t] /\ left[t] = 1)
        /\ left'[t] = IF running[t] THEN NextTick(t) ELSE left[t]
        /\ idle'[t] = IF pc = "loop" /\ idle[t] < Cap(t) THEN idle[t] + 1
                                                         ELSE idle[t]
        /\ ~Ready
        BY <1>0, <1>2, <1>a DEF TimedPass, Pass, mainVars, Advance, ClockInv
  <2>2. Serving /\ running[t] /\ left[t] > 0 /\ gpc[t] \in {"send", "select"}
        BY <1>0, <2>1 DEF Serving, ServeInv
  <2>3. pc = "loop" => ~FirePending(t)
        BY <1>0, <2>1, <2>2 DEF Ready, FirePending
  <2>4. FirePending(t)' <=> FirePending(t) \/ left[t] = 1
        BY <2>1, <2>2 DEF FirePending
  <2>5. CASE pc = "sync" /\ cur = t
        BY <2>1, <2>5
  <2>6. CASE FirePending(t) /\ 2 * idle[t] <= 3 * Interval[t]
    <3>1. idle'[t] = idle[t]
          BY <2>1, <2>3, <2>6
    <3> QED BY <2>4, <2>6, <3>1
  <2>7. CASE 2 * (idle[t] + left[t]) <= 3 * Interval[t]
    <3>1. idle'[t] <= idle[t] + 1
          BY <1>a, <2>1
    <3>2. 2 * (idle'[t] + (left[t] - 1)) <= 3 * Interval[t]
          BY <1>a, <2>2, <2>7, <3>1, OneUnitLess
    <3>3. CASE left[t] = 1
      <4>1. 2 * idle'[t] <= 3 * Interval[t]
            BY <1>a, <3>2, <3>3
      <4> QED BY <2>4, <3>3, <4>1
    <3>4. CASE left[t] # 1
      <4>1. left'[t] = left[t] - 1
            BY <2>1, <2>2, <3>4
      <4> QED BY <3>2, <4>1
    <3> QED BY <3>3, <3>4
  <2> QED BY <1>b, <2>2, <2>5, <2>6, <2>7
<1>3. ASSUME NEW bad \in BOOLEAN, TimedFinish(bad)
      PROVE  \/ pc' = "sync" /\ cur' = t
             \/ FirePending(t)' /\ 2 * idle'[t] <= 3 * Interval[t]
             \/ 2 * (idle'[t] + left'[t]) <= 3 * Interval[t]
  <2>1. /\ idle' = [idle EXCEPT ![cur] = 0] /\ UNCHANGED <<cur, gpc, tick, left>>
        /\ Serving
        BY <1>3 DEF TimedFinish, FinishSync, taskVars, Serving
  <2>2. CASE cur = t
    <3>1. idle'[t] = 0
          BY <1>0, <2>1, <2>2 DEF ClockInv
    <3> QED BY <1>a, <3>1
  <2>3. CASE cur # t
    <3>1. idle'[t] = idle[t]
          BY <1>0, <2>1, <2>3 DEF ClockInv
    <3> QED BY <1>b, <2>1, <2>3, <3>1 DEF FirePending
  <2> QED BY <2>2, <2>3
<1>4. CASE TimedNewRound
  BY <1>4 DEF TimedNewRound, NewRound, Serving
<1>5. CASE UNCHANGED timingVars
  BY <1>b, <1>5 DEF timingVars, vars, mainVars, taskVars, FirePending, Serving
<1> QED BY <1>1, <1>2, <1>3, <1>4, <1>5 DEF TimingNext

LEMMA AlwaysTimingInv ==
    TimingSpec =>
        [](TypeInv /\ LeakInv /\ PromiseInv /\ ServeInv /\ ClockInv /\ WaitInv)
<1>1. TimingInit => Init
  BY DEF TimingInit
<1> QED
    BY <1>1, TimingIsNext, InitTypeInv, NextTypeInv, InitLeakInv, NextLeakInv,
       InitPromiseInv, NextPromiseInv, InitServeInv, NextServeInv,
       InitClockInv, NextClockInv, NextWaitInv, PTL
    DEF TimingSpec

\* The observer's clocks never exceed their caps, and what SyncLoop's variables
\* hold is not affected by its watching.
THEOREM TimingTypeCorrect == TimingSpec => []TimingTypeOK
<1>1. TypeInv /\ ClockInv => TimingTypeOK
  BY DEF TypeInv, ClockInv, ClockOf, TimingTypeOK
<1> QED BY AlwaysTimingInv, <1>1, PTL

\* Skipping a fire that came too soon after a sync delays the next one by less
\* than half an interval, of the time that syncLoop waits in its select, whatever
\* the intervals, and however long the syncs of other tasks take.
THEOREM GapIsBounded == TimingSpec => []GapBound
<1>1. TypeInv /\ ClockInv /\ WaitInv => GapBound
  <2> SUFFICES ASSUME TypeInv, ClockInv, WaitInv, pc = "loop", NEW t \in Periodic
               PROVE  2 * idle[t] <= 3 * Interval[t]
      BY DEF GapBound
  <2>1. \/ 2 * idle[t] <= 3 * Interval[t]
        \/ 2 * (idle[t] + left[t]) <= 3 * Interval[t]
        BY DEF WaitInv, Serving
  <2>2. idle[t] \in Nat /\ left[t] \in Nat /\ Interval[t] \in Nat
        BY ConstantsAreTyped DEF TypeInv, TypeOK, ClockInv
  <2> QED BY <2>1, <2>2
<1> QED BY AlwaysTimingInv, <1>1, PTL

\* A sync of a task starts at least half an interval after the last one of it
\* ended: the fires that a long sync leaves behind do not start another at once.
THEOREM SyncsKeepApart == TimingSpec => NoBurst
<1> DEFINE KeepsApart(t) ==
        pc = "loop" /\ pc' = "sync" /\ cur' = t => 2 * since[t] >= Interval[t]
<1>1. ASSUME TypeInv, LeakInv, PromiseInv, ServeInv, ClockInv, TimingNext,
             NEW t \in Periodic, pc = "loop", pc' = "sync", cur' = t
      PROVE  2 * since[t] >= Interval[t]
  <2>1. PICK u \in Tasks : ReceiveFire(u)
    <3>1. ~TimedNewRound /\ ~TimedPass /\ \A bad \in BOOLEAN : ~TimedFinish(bad)
          BY <1>1 DEF TimedNewRound, NewRound, TimedPass, Pass, mainVars,
                      TimedFinish, FinishSync
    <3>2. Step
          BY <1>1, <3>1 DEF TimingNext, TimedOther
    <3>3. ~StartTicking /\ \A u \in Tasks : ~TakeTick(u)
          BY <1>1 DEF StartTicking, TakeTick, mainVars
    <3>4. ~(Serving' => UNCHANGED <<pc, cur, gpc, tick>>)
          BY <1>1 DEF Serving
    <3> QED BY <1>1, <3>2, <3>3, <3>4, StepsOfServing
  <2>2. u = t /\ ~TooSoon(t)
        BY <1>1, <2>1 DEF ReceiveFire, BeginSync
  <2>3. /\ age[t] \in Nat /\ since[t] \in Nat /\ Interval[t] \in Nat
        /\ Interval[t] > 0 /\ age[t] <= since[t]
        BY <1>1, ConstantsAreTyped DEF TypeInv, TypeOK, ClockInv, ClockOf
  <2>4. 2 * age[t] >= Interval[t]
        BY <2>2, <2>3 DEF TooSoon
  <2> QED BY <2>3, <2>4
<1>2. /\ TypeInv /\ LeakInv /\ PromiseInv /\ ServeInv /\ ClockInv
      /\ [TimingNext]_timingVars
      => [\A t \in Periodic : KeepsApart(t)]_timingVars
  BY <1>1
<1> QED BY AlwaysTimingInv, <1>2, PTL DEF TimingSpec, NoBurst
=============================================================================
