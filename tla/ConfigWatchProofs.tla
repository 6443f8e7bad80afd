------------------------- MODULE ConfigWatchProofs -------------------------
(***************************************************************************)
(* What holds of ConfigWatch for any contents of the config file, and any  *)
(* number of edits and signals.                                            *)
(***************************************************************************)
EXTENDS ConfigWatch, TLAPS, SequenceTheorems, WellFoundedInduction

-----------------------------------------------------------------------------
(* Types.                                                                  *)

Events == {"write", "remove", "chmod", "other", "error"}

\* What is being watched at each stage, and when events may be waiting
Shape ==
    /\ pc \in {"load", "prepare", "watch"} => watched = "none"
    /\ pc = "digest" => watched # "none" /\ loaded.watch
    /\ watched = "none" => events = <<>>
    /\ armed => pc = "loop"

LEMMA SkopeoType ==
    ASSUME NEW c \in YAML, NEW was \in SkopeoConfig
    PROVE  SkopeoAfter(c, was) \in SkopeoConfig
<1>1. c.skopeo \in SkopeoConfig
      BY DEF YAML
<1>2. NewSkopeoRelay(c.skopeo, was) \in SkopeoConfig
      BY <1>1 DEF NewSkopeoRelay, SkopeoConfig
<1> QED BY <1>2 DEF SkopeoAfter

\* Reports are appended, if there is anything to report.
LEMMA ReportType ==
    ASSUME NEW S, NEW dir, NEW evts \in Seq(S), events \in Seq(S), Report(dir, evts)
    PROVE  events' \in Seq(S)
<1>1. events \o evts \in Seq(S)
      OBVIOUS
<1>2. events' = events \o evts \/ events' = events
      BY DEF Report
<1> QED BY <1>1, <1>2

\* An error is put behind a part of the events.
LEMMA ErrorType ==
    ASSUME NEW S, "error" \in S, events \in Seq(S), NEW n \in 0 .. Len(events)
    PROVE  Append(SubSeq(events, 1, n), "error") \in Seq(S)
<1>1. SubSeq(events, 1, n) \in Seq(S)
      OBVIOUS
<1> QED BY <1>1

LEMMA InitType == Init => TypeOK /\ Shape
<1> SUFFICES ASSUME Init PROVE TypeOK /\ Shape
    OBVIOUS
<1>1. SkopeoDefaults \in SkopeoConfig
      BY DEF SkopeoDefaults, SkopeoConfig
<1>2. file \in YAML \cup {Missing} /\ Missing \in YAML \cup {Missing}
      BY ContentsAssumption DEF Init
<1>3. events \in Seq({"write", "remove", "chmod", "other", "error"})
      BY DEF Init
<1>4. edits \in 0 .. MaxEdits /\ errors \in 0 .. MaxErrors /\ hups \in 0 .. MaxHups
      BY BoundsAssumption DEF Init
<1>5. TypeOK
      BY <1>1, <1>2, <1>3, <1>4 DEF Init, TypeOK, Working
<1>6. Shape
      BY DEF Init, Shape
<1> QED BY <1>5, <1>6

LEMMA TypeStep == TypeOK /\ Shape /\ [Next]_vars => TypeOK'
<1> SUFFICES ASSUME TypeOK, Shape, [Next]_vars PROVE TypeOK'
    OBVIOUS
<1> USE DEF TypeOK, Shape, Working, watchVars, inputVars, fileVars, historyVars
<1>1. CASE Load
  <2>1. CASE Loadable(file)
    <3>1. file \in YAML /\ file # Missing
          BY <2>1 DEF Loadable
    <3>2. skopeo' \in SkopeoConfig
          BY <1>1, <2>1, <3>1, SkopeoType DEF Load
    <3> QED BY <1>1, <2>1, <3>1, <3>2 DEF Load
  <2>2. CASE ~Loadable(file)
        BY <1>1, <2>2 DEF Load
  <2> QED BY <2>1, <2>2
<1>2. CASE Prepare
      BY <1>2 DEF Prepare
<1>3. CASE NoWatch
      BY <1>3 DEF NoWatch, EnterLoop
<1>4. CASE StartWatch
      BY <1>4 DEF StartWatch
<1>5. CASE ComputeSHA1
      BY <1>5 DEF ComputeSHA1, EnterLoop, Source
<1>6. CASE ReceiveEvent \/ ReceiveError
  <2>1. events' \in Seq(Events)
    <3>1. events \in Seq(Events) /\ events # <<>> /\ events' = Tail(events)
          BY <1>6 DEF ReceiveEvent, ReceiveError, Events
    <3> QED BY <3>1
  <2>2. armed' \in BOOLEAN
        BY <1>6 DEF ReceiveEvent, ReceiveError
  <2>3. UNCHANGED <<pc, loaded, skopeo, sha1, watched, file, oldFile, stale, edits,
                    errors, hups, touched, missed, lost>>
        BY <1>6 DEF ReceiveEvent, ReceiveError
  <2>4. events' \in Seq({"write", "remove", "chmod", "other", "error"})
        BY <2>1 DEF Events
  <2> QED BY <2>2, <2>3, <2>4
<1>7. CASE BackOffExpired \/ Hup
  <2>1. hups' \in 0 .. MaxHups
        BY <1>7, BoundsAssumption DEF BackOffExpired, Hup
  <2>2. /\ pc = "loop" /\ pc' = "stop" /\ armed' = FALSE
        /\ UNCHANGED <<loaded, skopeo, sha1, watched, events, file, oldFile, stale,
                       edits, errors, touched, missed, lost>>
        BY <1>7 DEF BackOffExpired, Hup, Restart
  <2> QED BY <2>1, <2>2
<1>8. CASE Remove \/ Touch \/ RemoveOld \/ (\E content \in Rewrites : Write(content))
  <2>1. events' \in Seq(Events)
    <3>1. /\ <<"write">> \in Seq(Events) /\ <<"remove">> \in Seq(Events)
          /\ <<"chmod", "remove", "write">> \in Seq(Events)
          /\ <<"remove", "remove">> \in Seq(Events)
          /\ \A evt \in {"chmod", "other"} : <<evt>> \in Seq(Events)
          BY DEF Events
    <3>2. PICK dir \in {"current", "old"}, evts \in Seq(Events) : Report(dir, evts)
          BY <1>8, <3>1, Zenon DEF Remove, Touch, RemoveOld, Write
    <3> QED BY <3>2, ReportType DEF Events
  <2>2. file' \in YAML \cup {Missing}
        BY <1>8, ContentsAssumption DEF Remove, Touch, RemoveOld, Write
  <2>3. edits' \in 0 .. MaxEdits
        BY <1>8, BoundsAssumption DEF Remove, Touch, RemoveOld, Write, Edit
  <2>4. touched' \in BOOLEAN /\ missed' \in BOOLEAN /\ lost' \in BOOLEAN
        BY <1>8 DEF Remove, Touch, RemoveOld, Write, NoteChange, Report
  <2> QED BY <1>8, <2>1, <2>2, <2>3, <2>4 DEF Remove, Touch, RemoveOld, Write, Events
<1>9. CASE \E content \in Rewrites : Relink(content)
      BY <1>9, ContentsAssumption, BoundsAssumption DEF Relink, Edit, NoteChange
<1>10. CASE StopTasks
  <2>1. <<>> \in Seq({"write", "remove", "chmod", "other", "error"})
        OBVIOUS
  <2>2. events' \in Seq({"write", "remove", "chmod", "other", "error"})
        BY <1>10, <2>1 DEF StopTasks
  <2>3. /\ pc' \in {"load", "hung"} /\ watched' \in {"none", "current", "old"}
        /\ UNCHANGED <<loaded, skopeo, sha1, armed, file, oldFile, stale, edits,
                       errors, hups, touched, missed, lost>>
        BY <1>10 DEF StopTasks
  <2> QED BY <2>2, <2>3
<1>11. CASE WatchError
  <2>1. events' \in Seq({"write", "remove", "chmod", "other", "error"})
    <3>1. PICK n \in 0 .. Len(events) : events' = Append(SubSeq(events, 1, n), "error")
          BY <1>11 DEF WatchError
    <3> QED BY <3>1, ErrorType
  <2>2. errors' \in 0 .. MaxErrors
        BY <1>11, BoundsAssumption DEF WatchError
  <2> QED BY <1>11, <2>1, <2>2 DEF WatchError
<1>12. CASE UNCHANGED vars
      BY <1>12 DEF vars
<1> QED BY <1>1, <1>2, <1>3, <1>4, <1>5, <1>6, <1>7, <1>8, <1>9, <1>10, <1>11, <1>12
        DEF Next, Process

LEMMA ShapeStep == TypeOK /\ Shape /\ [Next]_vars => Shape'
<1> SUFFICES ASSUME TypeOK, Shape, [Next]_vars PROVE Shape'
    OBVIOUS
<1> USE DEF TypeOK, Shape, Working, watchVars, inputVars, fileVars, historyVars
<1>1. CASE Load \/ Prepare \/ NoWatch \/ StartWatch \/ ComputeSHA1
      BY <1>1 DEF Load, Prepare, NoWatch, StartWatch, ComputeSHA1, EnterLoop
<1>2. CASE ReceiveEvent \/ ReceiveError \/ StopTasks
      BY <1>2 DEF ReceiveEvent, ReceiveError, StopTasks
<1>3. CASE BackOffExpired \/ Hup \/ WatchError
      BY <1>3 DEF BackOffExpired, Hup, Restart, WatchError
<1>4. CASE Remove \/ Touch \/ RemoveOld \/ (\E content \in Rewrites : Write(content))
  <2>1. watched = "none" => events' = events
        BY <1>4 DEF Remove, Touch, RemoveOld, Write, Report
  <2> QED BY <1>4, <2>1 DEF Remove, Touch, RemoveOld, Write
<1>5. CASE \E content \in Rewrites : Relink(content)
      BY <1>5 DEF Relink
<1>6. CASE UNCHANGED vars
      BY <1>6 DEF vars
<1> QED BY <1>1, <1>2, <1>3, <1>4, <1>5, <1>6 DEF Next, Process

\* For any contents of the file and whatever happens to it, all variables keep
\* their types (main.go:103, config.go:153).
THEOREM TypeCorrect == Spec => []TypeOK
<1>1. Init => TypeOK /\ Shape
      BY InitType
<1>2. TypeOK /\ Shape /\ [Next]_vars => (TypeOK /\ Shape)'
      BY TypeStep, ShapeStep
<1> QED BY <1>1, <1>2, PTL DEF Spec

-----------------------------------------------------------------------------
(* Restarts.                                                               *)

\* While nothing has happened to the file since the watch began, no event waits
\* that means a change, and the digest is that of the file.
Quiet ==
    ~touched /\ pc \in {"digest", "loop"} =>
        /\ watched \in {"none", "current"}
        /\ events \in Seq({"chmod", "other", "error"})
        /\ pc = "loop" /\ watched = "current" => sha1 = file
        /\ ~armed

LEMMA QuietStep == TypeOK /\ Shape /\ Quiet /\ [Next]_vars => Quiet'
<1> SUFFICES ASSUME TypeOK, Shape, Quiet, [Next]_vars,
                    ~touched', pc' \in {"digest", "loop"}
             PROVE  Quiet'
    BY DEF Quiet
<1> USE DEF TypeOK, Shape, Quiet, watchVars, inputVars, fileVars, historyVars
<1>1. CASE Load \/ Prepare \/ BackOffExpired \/ Hup \/ StopTasks
      BY <1>1 DEF Load, Prepare, BackOffExpired, Hup, Restart, StopTasks
<1>2. CASE NoWatch
      BY <1>2 DEF NoWatch
<1>3. CASE StartWatch
      BY <1>3 DEF StartWatch
<1>4. CASE ComputeSHA1
      BY <1>4 DEF ComputeSHA1, Source
<1>5. CASE ReceiveEvent
  <2>1. /\ pc = "loop" /\ ~touched /\ events # <<>> /\ Head(events) # "error"
        /\ events' = Tail(events)
        /\ UNCHANGED <<watched, sha1, file>>
        BY <1>5 DEF ReceiveEvent
  <2>2. /\ Head(events) \in {"chmod", "other"}
        /\ Tail(events) \in Seq({"chmod", "other", "error"})
        BY <2>1
  <2>3. watched = "current"
        BY <2>1
  <2>4. ~IsChanged(Head(events))
        BY <2>1, <2>2, <2>3 DEF IsChanged, Source
  <2>5. ~armed'
        BY <1>5, <2>1, <2>4 DEF ReceiveEvent
  <2> QED BY <2>1, <2>2, <2>3, <2>5
<1>6. CASE Touch
  <2>1. /\ ~touched /\ pc \in {"digest", "loop"}
        /\ UNCHANGED <<pc, watched, sha1, file, armed>>
        BY <1>6 DEF Touch
  <2>2. PICK evt \in {"chmod", "other"} : Report("current", <<evt>>)
        BY <1>6 DEF Touch
  <2>3. <<evt>> \in Seq({"chmod", "other", "error"})
        OBVIOUS
  <2>4. events' \in Seq({"chmod", "other", "error"})
    <3>1. events \in Seq({"chmod", "other", "error"})
          BY <2>1
    <3> QED BY <2>2, <2>3, <3>1, ReportType
  <2> QED BY <2>1, <2>4
<1>7. CASE RemoveOld
  <2>1. /\ ~touched /\ pc \in {"digest", "loop"}
        /\ UNCHANGED <<pc, watched, sha1, file, armed>>
        BY <1>7 DEF RemoveOld
  <2>2. events' = events
        BY <1>7, <2>1 DEF RemoveOld, Report
  <2> QED BY <2>1, <2>2
<1>8. CASE Remove \/ (\E content \in Rewrites : Write(content) \/ Relink(content))
      BY <1>8 DEF Remove, Write, Relink, NoteChange
<1>9. CASE ReceiveError
      BY <1>9 DEF ReceiveError
<1>10. CASE WatchError
  <2>1. /\ ~touched /\ pc \in {"digest", "loop"}
        /\ UNCHANGED <<pc, watched, sha1, file, armed>>
        BY <1>10 DEF WatchError
  <2>2. events' \in Seq({"chmod", "other", "error"})
    <3>1. PICK n \in 0 .. Len(events) : events' = Append(SubSeq(events, 1, n), "error")
          BY <1>10 DEF WatchError
    <3> QED BY <2>1, <3>1, ErrorType
  <2> QED BY <2>1, <2>2
<1>11. CASE UNCHANGED vars
      BY <1>11 DEF vars
<1> QED BY <1>1, <1>2, <1>3, <1>4, <1>5, <1>6, <1>7, <1>8, <1>9, <1>10, <1>11
        DEF Next, Process

\* No restart is armed unless the file was written to, removed or replaced, for
\* however long the process runs and whatever else happens (config.go:197).
THEOREM RestartsHaveReason == Spec => []RestartHasReason
<1>1. Init => TypeOK /\ Shape /\ Quiet
  <2>1. Init => Quiet
        BY DEF Init, Quiet
  <2> QED BY <2>1, InitType
<1>2. TypeOK /\ Shape /\ Quiet /\ [Next]_vars => (TypeOK /\ Shape /\ Quiet)'
      BY TypeStep, ShapeStep, QuietStep
<1>3. TypeOK /\ Shape /\ Quiet => RestartHasReason
      BY DEF TypeOK, Shape, Quiet, RestartHasReason
<1> QED BY <1>1, <1>2, <1>3, PTL DEF Spec

-----------------------------------------------------------------------------
(* Changes.                                                                *)

\* From the loading of the file on, whatever happens to it is missed, or else an
\* event of it waits or has been received, unless an error of the watch came after
\* it. While a directory is watched that the file is no longer in, its removal is
\* still to come, or has been reported.
NoticeInv ==
    /\ pc \in {"prepare", "watch"} => missed \/ file = loaded
    /\ pc \in {"digest", "loop"} =>
          /\ watched = "old" => stale \/ lost \/ Noticed
          /\ watched = "current" => missed \/ file = loaded \/ lost \/ Noticed

\* Noticed, without the abbreviation in it
LEMMA NoticedIs ==
    Noticed <=> \/ armed /\ \A j \in DOMAIN events : j > 0 => events[j] # "error"
                \/ \E i \in DOMAIN events :
                      /\ events[i] \in Telling
                      /\ \A j \in DOMAIN events : j > i => events[j] # "error"
BY DEF Noticed

\* A change that is reported is noticed, and no other report takes that away.
LEMMA ReportIsNoticed ==
    ASSUME TypeOK, NEW evts \in Seq(Events \ {"error"}), Report(watched, evts),
           armed' = armed, lost \/ Noticed \/ \E i \in DOMAIN evts : evts[i] \in Telling
    PROVE  lost' \/ Noticed'
<1>1. /\ events \in Seq(Events) /\ events' = events \o evts /\ Len(events) \in Nat
      /\ lost' = (lost /\ \A i \in DOMAIN evts : evts[i] \notin Telling)
      BY DEF TypeOK, Events, Report
<1>2. /\ \A i \in DOMAIN events : i \in DOMAIN events' /\ events'[i] = events[i]
      /\ \A i \in DOMAIN evts : /\ Len(events) + i \in DOMAIN events'
                                /\ events'[Len(events) + i] = evts[i]
      BY <1>1
<1>3. \A j \in DOMAIN events' :
         \/ j \in DOMAIN events /\ events'[j] = events[j]
         \/ j > Len(events) /\ events'[j] # "error"
      BY <1>1
<1>4. \A i \in DOMAIN events : i \in Nat /\ i <= Len(events)
      BY <1>1
<1>5. CASE armed /\ \A j \in DOMAIN events : j > 0 => events[j] # "error"
      BY <1>3, <1>5 DEF Noticed
<1>6. ASSUME NEW i \in DOMAIN events, events[i] \in Telling,
             \A j \in DOMAIN events : j > i => events[j] # "error"
      PROVE  Noticed'
  <2>1. i \in DOMAIN events' /\ events'[i] \in Telling
        BY <1>2, <1>6
  <2>2. \A j \in DOMAIN events' : j > i => events'[j] # "error"
        BY <1>3, <1>6
  <2> QED BY <2>1, <2>2 DEF Noticed
<1>7. ASSUME NEW i \in DOMAIN evts, evts[i] \in Telling
      PROVE  Noticed'
  <2>1. Len(events) + i \in DOMAIN events' /\ events'[Len(events) + i] \in Telling
        BY <1>2, <1>7
  <2>2. \A j \in DOMAIN events' : j > Len(events) + i => events'[j] # "error"
    <3>1. i \in Nat
          OBVIOUS
    <3> QED BY <1>1, <1>3, <1>4, <3>1
  <2> QED BY <2>1, <2>2 DEF Noticed
<1>8. CASE lost /\ \A i \in DOMAIN evts : evts[i] \notin Telling
      BY <1>1, <1>8
<1> QED BY <1>5, <1>6, <1>7, <1>8, NoticedIs

\* No event that counts as a change is received in vain, if no error follows; and
\* what is noticed is not so by a change with an error after it.
LEMMA ReceivedIsNoticed ==
    ASSUME TypeOK, Noticed, ReceiveEvent \/ ReceiveError
    PROVE  Noticed'
<1>1. /\ events \in Seq(Events) /\ events # <<>> /\ events' = Tail(events)
      /\ 1 \in DOMAIN events /\ Head(events) = events[1]
      BY DEF TypeOK, Events, ReceiveEvent, ReceiveError
<1>2. \A j \in DOMAIN events' : j + 1 \in DOMAIN events /\ events'[j] = events[j + 1]
      BY <1>1
<1>3. \A j \in DOMAIN events' : j \in Nat \ {0}
      BY <1>1
<1>4. ASSUME armed' /\ \A j \in DOMAIN events : j > 1 => events[j] # "error"
      PROVE  Noticed'
  <2>1. \A j \in DOMAIN events' : events'[j] # "error"
        BY <1>2, <1>3, <1>4
  <2> QED BY <1>4, <2>1 DEF Noticed
<1>5. CASE armed /\ \A j \in DOMAIN events : j > 0 => events[j] # "error"
  <2>1. ReceiveEvent
        BY <1>1, <1>5 DEF ReceiveError
  <2>2. armed'
        BY <1>5, <2>1 DEF ReceiveEvent
  <2>3. \A j \in DOMAIN events : j > 1 => events[j] # "error"
    <3>1. \A j \in DOMAIN events : j > 1 => j > 0
          BY <1>1
    <3> QED BY <1>5, <3>1
  <2> QED BY <1>4, <2>2, <2>3
<1>6. ASSUME NEW i \in DOMAIN events, events[i] \in Telling,
             \A j \in DOMAIN events : j > i => events[j] # "error"
      PROVE  Noticed'
  <2>1. CASE i = 1
    <3>1. Head(events) \in Telling
          BY <1>1, <1>6, <2>1
    <3>2. ReceiveEvent
          BY <3>1 DEF Telling, ReceiveError
    <3>3. IsChanged(Head(events))
          BY <3>1 DEF IsChanged, Telling
    <3> QED BY <1>4, <1>6, <2>1, <3>2, <3>3 DEF ReceiveEvent
  <2>2. CASE i # 1
    <3>1. i \in Nat /\ i - 1 \in DOMAIN events' /\ events'[i - 1] = events[i]
          BY <1>1, <2>2
    <3>2. \A j \in DOMAIN events' : j > i - 1 => events'[j] # "error"
      <4>1. \A j \in DOMAIN events' : j > i - 1 => j + 1 > i
            BY <1>3, <3>1
      <4> QED BY <1>2, <1>6, <4>1
    <3> QED BY <1>6, <3>1, <3>2 DEF Noticed
  <2> QED BY <2>1, <2>2
<1> QED BY <1>5, <1>6, NoticedIs

LEMMA NoticeStep == TypeOK /\ Shape /\ NoticeInv /\ [Next]_vars => NoticeInv'
<1> SUFFICES ASSUME TypeOK, Shape, NoticeInv, [Next]_vars PROVE NoticeInv'
    OBVIOUS
<1> USE DEF NoticeInv, watchVars, inputVars, fileVars, historyVars
<1>0. Noticed /\ UNCHANGED <<armed, events>> => Noticed'
      BY DEF Noticed
<1>1. CASE Load
  <2>1. watched' = "none" /\ pc' \in {"prepare", "exited"} /\ loaded' = file /\ file' = file
        BY <1>1 DEF Load, Shape
  <2> QED BY <2>1
<1>2. CASE Prepare
      BY <1>2 DEF Prepare, Shape
<1>3. CASE NoWatch
  <2>1. watched' = "none" /\ pc' \in {"loop", "exited"}
        BY <1>3 DEF NoWatch, EnterLoop, Shape
  <2> QED BY <2>1
<1>4. CASE StartWatch
      BY <1>0, <1>4 DEF StartWatch, Shape
<1>5. CASE ComputeSHA1
  <2>1. /\ UNCHANGED <<armed, events, watched, stale, file, loaded, missed, lost>>
        /\ pc = "digest" /\ pc' \in {"loop", "exited"}
    <3>1. ~armed
          BY <1>5 DEF ComputeSHA1, Shape
    <3> QED BY <1>5, <3>1 DEF ComputeSHA1, EnterLoop, TypeOK
  <2> QED BY <1>0, <2>1
<1>6. CASE ReceiveEvent \/ ReceiveError
  <2>1. Noticed => Noticed'
        BY <1>6, ReceivedIsNoticed
  <2>2. UNCHANGED <<pc, watched, stale, file, loaded, missed, lost>>
        BY <1>6 DEF ReceiveEvent, ReceiveError
  <2> QED BY <2>1, <2>2
<1>7. CASE BackOffExpired \/ Hup
      BY <1>7 DEF BackOffExpired, Hup, Restart
<1>8. CASE Remove \/ (\E content \in Rewrites : Write(content))
  <2>1. UNCHANGED <<pc, loaded, watched, armed, stale>>
        /\ (pc \in {"prepare", "watch"} => missed') /\ (missed => missed')
        BY <1>8 DEF Remove, Write, NoteChange
  <2>2. CASE watched = "current"
    <3>1. PICK evts \in {<<"remove">>, <<"write">>, <<"chmod", "remove", "write">>} :
             Report("current", evts)
          BY <1>8 DEF Remove, Write
    <3>2. /\ evts \in Seq(Events \ {"error"})
          /\ \E i \in DOMAIN evts : evts[i] \in Telling
      <4>1. CASE evts = <<"remove">>
            BY <4>1 DEF Events, Telling
      <4>2. CASE evts = <<"write">>
            BY <4>2 DEF Events, Telling
      <4>3. CASE evts = <<"chmod", "remove", "write">>
        <5>1. /\ evts \in Seq(Events \ {"error"})
              /\ 2 \in DOMAIN evts /\ evts[2] = "remove"
              BY <4>3 DEF Events
        <5> QED BY <5>1 DEF Telling
      <4> QED BY <4>1, <4>2, <4>3
    <3>3. lost' \/ Noticed'
          BY <2>1, <2>2, <3>1, <3>2, ReportIsNoticed
    <3> QED BY <2>1, <2>2, <3>3
  <2>3. CASE watched # "current"
    <3>1. UNCHANGED <<events, lost>>
          BY <1>8, <2>3 DEF Remove, Write, Report
    <3> QED BY <1>0, <2>1, <2>3, <3>1
  <2> QED BY <2>2, <2>3
<1>9. CASE Touch
  <2>1. UNCHANGED <<pc, loaded, watched, armed, stale, file, missed>>
        BY <1>9 DEF Touch
  <2>2. PICK evt \in {"chmod", "other"} : Report("current", <<evt>>)
        BY <1>9 DEF Touch
  <2>3. <<evt>> \in Seq(Events \ {"error"})
        BY DEF Events
  <2>4. lost \/ Noticed => lost' \/ Noticed'
    <3>1. CASE watched = "current"
          BY <2>1, <2>2, <2>3, <3>1, ReportIsNoticed
    <3>2. CASE watched # "current"
          BY <1>0, <2>1, <2>2, <3>2 DEF Report
    <3> QED BY <3>1, <3>2
  <2> QED BY <2>1, <2>4
<1>10. CASE RemoveOld
  <2>1. UNCHANGED <<pc, loaded, watched, armed, file, missed>>
        BY <1>10 DEF RemoveOld
  <2>2. CASE watched = "old"
    <3>1. Report("old", <<"remove", "remove">>)
          BY <1>10 DEF RemoveOld
    <3>2. /\ <<"remove", "remove">> \in Seq(Events \ {"error"})
          /\ \E i \in DOMAIN <<"remove", "remove">> : <<"remove", "remove">>[i] \in Telling
      <4>1. /\ <<"remove", "remove">> \in Seq(Events \ {"error"})
            /\ 1 \in DOMAIN <<"remove", "remove">>
            /\ <<"remove", "remove">>[1] = "remove"
            BY DEF Events
      <4> QED BY <4>1 DEF Telling
    <3>3. lost' \/ Noticed'
          BY <2>1, <2>2, <3>1, <3>2, ReportIsNoticed
    <3> QED BY <2>1, <2>2, <3>3
  <2>3. CASE watched # "old"
    <3>1. UNCHANGED <<events, lost>>
          BY <1>10, <2>3 DEF RemoveOld, Report
    <3> QED BY <1>0, <2>1, <2>3, <3>1
  <2> QED BY <2>2, <2>3
<1>11. CASE \E content \in Rewrites : Relink(content)
  <2>1. /\ UNCHANGED <<pc, loaded, armed, events>> /\ stale'
        /\ watched' = IF watched = "current" THEN "old" ELSE watched
        /\ (pc \in {"prepare", "watch"} => missed')
        BY <1>11 DEF Relink, NoteChange
  <2> QED BY <2>1
<1>12. CASE StopTasks
      BY <1>12 DEF StopTasks
<1>13. CASE WatchError
  <2>1. /\ lost' /\ watched # "none"
        /\ UNCHANGED <<pc, loaded, watched, file, missed>>
        BY <1>13 DEF WatchError
  <2> QED BY <2>1
<1>14. CASE UNCHANGED vars
      BY <1>0, <1>14 DEF vars
<1> QED BY <1>1, <1>2, <1>3, <1>4, <1>5, <1>6, <1>7, <1>8, <1>9, <1>10, <1>11, <1>12,
           <1>13, <1>14
        DEF Next, Process

\* Whatever the file contains, and however it is changed, removed, replaced and
\* relinked, for as long as the process runs: it does not stay in its loop with a
\* config that is no longer in the file without anything that will make it restart,
\* but for a change between loading and watching (config.go:187), and for changes
\* after which the watch has had an error and has reported no other (sync.go:193).
THEOREM ChangesAreNoticed == Spec => []ChangeNoticed
<1>1. Init => TypeOK /\ Shape /\ NoticeInv
  <2>1. Init => NoticeInv
        BY DEF Init, NoticeInv
  <2> QED BY <2>1, InitType
<1>2. TypeOK /\ Shape /\ NoticeInv /\ [Next]_vars => (TypeOK /\ Shape /\ NoticeInv)'
      BY TypeStep, ShapeStep, NoticeStep
<1>3. TypeOK /\ Shape /\ NoticeInv => ChangeNoticed
  <2>1. ASSUME TypeOK, Shape, pc \in {"digest", "loop"}, loaded.watch
        PROVE  watched \in {"current", "old"}
        BY <2>1 DEF TypeOK, Shape
  <2> QED BY <2>1 DEF NoticeInv, ChangeNoticed
<1> QED BY <1>1, <1>2, <1>3, PTL DEF Spec

-----------------------------------------------------------------------------
(* Repository lists.                                                       *)

\* What has been loaded has passed all checks.
Checked == Working => Loadable(loaded)

LEMMA CheckedStep == TypeOK /\ Checked /\ [Next]_vars => Checked'
<1> SUFFICES ASSUME TypeOK, Checked, [Next]_vars PROVE Checked'
    OBVIOUS
<1> USE DEF Checked, Working
<1>1. CASE Load
      BY <1>1 DEF Load
<1>2. CASE \/ Prepare \/ NoWatch \/ StartWatch \/ ComputeSHA1
           \/ ReceiveEvent \/ ReceiveError \/ StopTasks
      BY <1>2 DEF Prepare, NoWatch, StartWatch, ComputeSHA1, ReceiveEvent, ReceiveError,
                  StopTasks, EnterLoop
<1>3. CASE BackOffExpired \/ Hup
      BY <1>3 DEF BackOffExpired, Hup, Restart
<1>4. CASE \/ Remove \/ Touch \/ RemoveOld \/ WatchError
           \/ \E content \in Rewrites : Write(content) \/ Relink(content)
      BY <1>4 DEF Remove, Touch, RemoveOld, WatchError, Write, Relink
<1>5. CASE UNCHANGED vars
      BY <1>5 DEF vars
<1> QED BY <1>1, <1>2, <1>3, <1>4, <1>5 DEF Next, Process

\* What may be missing is there at most once.
LEMMA OptionalIsUnique ==
    ASSUME NEW S, NEW o \in Optional(S), NEW x \in o, NEW y \in o
    PROVE  x = y /\ x \in S
BY DEF Optional

\* A location that has passed the checks gets some list source.
LEMMA SomeListSource ==
    ASSUME NEW c, NEW l \in ConfigLocation, ValidLocation(l)
    PROVE  ListSource(SettingOf(c, l))
               \in {"refused", "catalog", "ecr", "dockerhub", "index"}
<1> DEFINE s == SettingOf(c, l)
<1>1. s.type \in {"catalog", "dockerhub", "index", ""}
      BY DEF ConfigLocation, ValidLocation, SettingOf
<1> HIDE DEF s
<1>2. ListSource(s) \in {"refused", "catalog", "ecr", "dockerhub", "index"}
  <2>1. CASE Unsupported(s)
        BY <2>1 DEF ListSource
  <2>2. CASE ~Unsupported(s)
        BY <1>1, <2>2 DEF ListSource, Catalog
  <2> QED BY <2>1, <2>2
<1> QED BY <1>2 DEF s

LEMMA ValidConfigHasLists ==
    ASSUME NEW c \in YAML, Valid(c), NEW t \in Tasks(c), NEW m \in Mappings(t),
           IsRegexpFrom(m)
    PROVE  /\ RepoList(c, t) # {}
           /\ RepoList(c, t) \subseteq {"catalog", "ecr", "dockerhub", "index"}
<1>1. PICK i \in DOMAIN c.tasks : t \in c.tasks[i]
      BY DEF Tasks
<1>2. PICK v \in c.tasks[i] : ValidTask(c, v)
      BY DEF Valid
<1>3. c.tasks[i] \in Optional(Task)
  <2>1. c.tasks \in Seq(Optional(Task))
        BY DEF YAML
  <2> QED BY <1>1, <2>1
<1>4. t = v /\ t \in Task
      BY <1>1, <1>2, <1>3, OptionalIsUnique
<1>5. t.source \in Optional(ConfigLocation)
      BY <1>4 DEF Task
<1>6. PICK l \in t.source : ValidLocation(l)
      BY <1>2, <1>4 DEF ValidTask
<1>7. \A k \in t.source : k = l
      BY <1>5, OptionalIsUnique
<1>8. l \in ConfigLocation
      BY <1>5, OptionalIsUnique
<1>9. RepoList(c, t) = {ListSource(SettingOf(c, l))}
      BY <1>6, <1>7 DEF RepoList, HasRegexp
<1>10. "refused" \notin RepoList(c, t)
      BY <1>2, <1>4 DEF ValidTask
<1> QED BY <1>6, <1>8, <1>9, <1>10, SomeListSource

\* Whatever the file contains and whenever it changes: a config the process
\* works with has a repository list for each mapping that asks it (task.go:161).
THEOREM ListsAreThereAlways == Spec => []ListsAreThere
<1>1. Init => TypeOK /\ Shape /\ Checked
      BY InitType DEF Init, Checked, Working
<1>2. TypeOK /\ Shape /\ Checked /\ [Next]_vars => (TypeOK /\ Shape /\ Checked)'
      BY TypeStep, ShapeStep, CheckedStep
<1>3. TypeOK /\ Checked => ListsAreThere
  <2> SUFFICES ASSUME TypeOK, Checked, Working PROVE ListsAreThere
      BY DEF ListsAreThere
  <2>1. loaded \in YAML /\ Valid(loaded)
        BY DEF TypeOK, Checked, Loadable
  <2> QED BY <2>1, ValidConfigHasLists DEF ListsAreThere
<1> QED BY <1>1, <1>2, <1>3, PTL DEF Spec

-----------------------------------------------------------------------------
(* Credentials. That Sprintf leaves alone what has no percent sign in it   *)
(* takes an induction over its characters, which is done here by looking   *)
(* at the first one with which it would go wrong.                          *)

LEMMA HasLeast ==
    ASSUME NEW T \in SUBSET Nat, T # {}
    PROVE  \E m \in T : \A x \in T : m <= x
<1> DEFINE Less == OpToRel(<, Nat)
<1>1. PICK m \in T : \A x \in T : ~(<<x, m>> \in Less)
      BY NatLessThanWellFounded, WFMin
<1>2. \A x \in T : ~(x < m)
      BY <1>1 DEF OpToRel
<1> QED BY <1>2

\* What the first k characters of s are printed as, if there is no % among them
Plain(s, k) == [out |-> SubSeq(s, 1, k), verb |-> FALSE,
                broken |-> \E j \in 1 .. k : s[j] = "quote"]

LEMMA PlainStart ==
    ASSUME NEW s \in Seq(Characters)
    PROVE  Plain(s, 0) = [out |-> <<>>, verb |-> FALSE, broken |-> FALSE]
<1>1. SubSeq(s, 1, 0) = <<>>
      BY SubSeqEmpty
<1>2. (\E j \in 1 .. 0 : s[j] = "quote") = FALSE
      OBVIOUS
<1> QED BY <1>1, <1>2 DEF Plain

LEMMA PlainStep ==
    ASSUME NEW s \in Seq(Characters), ~Contains(s, "%"), NEW k \in 1 .. Len(s)
    PROVE  Plain(s, k) = Step(Plain(s, k - 1), s[k])
<1>1. s[k] # "%" /\ Len(s) \in Nat
      BY LenProperties DEF Contains
<1>2. SubSeq(s, 1, k) = Append(SubSeq(s, 1, k - 1), s[k])
      OBVIOUS
<1>3. (\E j \in 1 .. k : s[j] = "quote")
          = ((\E j \in 1 .. k - 1 : s[j] = "quote") \/ s[k] = "quote")
  <2>1. \A j : j \in 1 .. k <=> j \in 1 .. k - 1 \/ j = k
        BY <1>1
  <2> QED BY <2>1
<1> QED BY <1>1, <1>2, <1>3 DEF Plain, Step

\* Without a percent sign there is nothing to format.
LEMMA PrintedPlain ==
    ASSUME NEW s \in Seq(Characters), ~Contains(s, "%")
    PROVE  Printed(s) = [out |-> s, verb |-> FALSE, broken |-> Contains(s, "quote")]
<1> DEFINE D == 0 .. Len(s)
           start == [out |-> <<>>, verb |-> FALSE, broken |-> FALSE]
           F(f) == [k \in D |-> IF k = 0 THEN start ELSE Step(f[k - 1], s[k])]
           upTo == CHOOSE f : f = F(f)
           plain == [k \in D |-> Plain(s, k)]
<1>0. Len(s) \in Nat
      BY LenProperties
<1>1. Printed(s) = upTo[Len(s)]
      BY DEF Printed
<1>2. plain = F(plain)
  <2>1. ASSUME NEW k \in D
        PROVE  Plain(s, k) = IF k = 0 THEN start ELSE Step(plain[k - 1], s[k])
    <3>1. CASE k = 0
          BY <3>1, PlainStart
    <3>2. CASE k # 0
      <4>1. k \in 1 .. Len(s) /\ k - 1 \in D
            BY <1>0, <3>2
      <4>2. plain[k - 1] = Plain(s, k - 1)
            BY <4>1
      <4> HIDE DEF plain
      <4> QED BY <3>2, <4>1, <4>2, PlainStep
    <3> QED BY <3>1, <3>2
  <2> QED BY <2>1
<1>3. upTo = F(upTo)
      BY <1>2
<1> HIDE DEF upTo
<1>4. \A k \in D : upTo[k] = IF k = 0 THEN start ELSE Step(upTo[k - 1], s[k])
      BY <1>3
<1> DEFINE Wrong == {k \in D : upTo[k] # Plain(s, k)}
<1>5. Wrong = {}
  <2> SUFFICES ASSUME Wrong # {} PROVE FALSE
      OBVIOUS
  <2>1. PICK m \in Wrong : \A k \in Wrong : m <= k
    <3>1. Wrong \in SUBSET Nat
          OBVIOUS
    <3> HIDE DEF Wrong
    <3> QED BY <3>1, HasLeast
  <2>2. m # 0
        BY <1>4, PlainStart
  <2>3. m \in 1 .. Len(s) /\ m - 1 \in D /\ ~(m <= m - 1)
        BY <1>0, <2>2
  <2>4. upTo[m - 1] = Plain(s, m - 1)
        BY <2>1, <2>3
  <2>5. upTo[m] = Plain(s, m)
        BY <1>4, <2>2, <2>3, <2>4, PlainStep
  <2> QED BY <2>5
<1>6. upTo[Len(s)] = Plain(s, Len(s))
      BY <1>0, <1>5
<1>7. SubSeq(s, 1, Len(s)) = s
      BY SubSeqFull
<1> QED BY <1>1, <1>6, <1>7 DEF Plain, Contains

LEMMA PassedIsGiven ==
    ASSUME NEW a \in AuthValue, ~Has(a, "%")
    PROVE  /\ Passed(Decode(a)) \in {<<>>, Joined(a.user, a.pass)}
           /\ a.form = "json" /\ ~Empty(Decode(a)) /\ ~Has(a, "quote")
                 => Passed(Decode(a)) = Joined(a.user, a.pass)
<1>1. a.user \in Seq(Characters) /\ a.pass \in Seq(Characters)
      BY DEF AuthValue
<1>2. Decode(a).user = a.user /\ Decode(a).pass = a.pass
      BY DEF Decode
<1>3. /\ Printed(a.user).out = a.user /\ Printed(a.pass).out = a.pass
      /\ ~Printed(a.user).verb /\ ~Printed(a.pass).verb
      /\ Printed(a.user).broken <=> Contains(a.user, "quote")
      /\ Printed(a.pass).broken <=> Contains(a.pass, "quote")
      BY <1>1, PrintedPlain DEF Has
<1>4. a.form = "json" => Decode(a).auther # "BasicAuth"
      BY DEF Decode
<1> QED BY <1>2, <1>3, <1>4 DEF Passed, Parses, Has

\* Whatever the config says, however long user names and passwords are: the
\* relay works with the credentials in it or with none, and does work with them
\* if they are in JSON form, unless a percent sign or a quote is in them
\* (auther.go:39, auther.go:48).
THEOREM CredentialsReachRelay == Spec => []CredentialsReach
<1>1. TypeOK => CredentialsReach
  <2> SUFFICES ASSUME TypeOK, Working, NEW t \in Tasks(loaded),
                      NEW l \in t.source \cup t.target
               PROVE  LET a == l.auth
                          passed == Passed(Decode(a))
                          given == Joined(a.user, a.pass)
                      IN /\ passed \in {<<>>, given} \/ Has(a, "%")
                         /\ a.form = "json" /\ ~Empty(Decode(a))
                              /\ ~Has(a, "%") /\ ~Has(a, "quote") => passed = given
      BY DEF CredentialsReach
  <2>1. loaded \in YAML
        BY DEF TypeOK
  <2>2. PICK i \in DOMAIN loaded.tasks : t \in loaded.tasks[i]
        BY DEF Tasks
  <2>3. loaded.tasks[i] \in Optional(Task)
    <3>1. loaded.tasks \in Seq(Optional(Task))
          BY <2>1 DEF YAML
    <3> QED BY <2>2, <3>1
  <2>4. t \in Task
        BY <2>2, <2>3, OptionalIsUnique
  <2>5. t.source \in Optional(ConfigLocation) /\ t.target \in Optional(ConfigLocation)
        BY <2>4 DEF Task
  <2>6. l \in ConfigLocation
        BY <2>5, OptionalIsUnique
  <2>7. l.auth \in AuthValue
        BY <2>6 DEF ConfigLocation
  <2> QED BY <2>7, PassedIsGiven
<1> QED BY <1>1, TypeCorrect, PTL
=============================================================================
