---------------------------- MODULE ConfigWatch -----------------------------
(***************************************************************************)
(* The process from one config to the next: the loop of main               *)
(* (cmd/dregsy/main.go), LoadConfig, and the watch of the config file      *)
(* (internal/pkg/sync/config.go), against a file that is written to,       *)
(* replaced, removed, or mounted anew while all that goes on. Of the main  *)
(* loop of SyncFromConfig it has what the watch reports, errors included,  *)
(* the end of the back-off, and SIGHUP; the rest, the back-off time and    *)
(* the ways to wait in vain for a task included, is in module SyncLoop.    *)
(*                                                                         *)
(* The path of the config file may lead through a link, as it does with    *)
(* Kubernetes config maps: the link is set to a new directory, and the old *)
(* directory is removed some time later. The watch is on the directory     *)
(* that the link led to when it was set up.                                *)
(***************************************************************************)
EXTENDS Config

CONSTANTS
    Contents,   \* what the config file may contain
    Rewrites,   \* what it may be given while the process runs; a file with other
                \* content is left alone
    MaxEdits,   \* bound on what may happen to the file
    MaxErrors,  \* bound on the number of errors of the watch
    MaxHups     \* bound on the number of SIGHUPs

ASSUME ContentsAssumption == Contents \subseteq YAML /\ Rewrites \subseteq Contents
ASSUME BoundsAssumption == MaxEdits \in Nat /\ MaxErrors \in Nat /\ MaxHups \in Nat

\* There is no file.
Missing == [exists |-> FALSE]
ASSUME MissingAssumption == Missing \notin Contents

VARIABLES
    pc,         \* where the process is
    loaded,     \* the content the current round has loaded
    sha1,       \* c.sha1, as the content it is the digest of
    watched,    \* the directory being watched: none, the current or an old one
    events,     \* file events and errors that have not been received, in order
    armed,      \* tChange is running
    skopeo,     \* skopeoBinary and certsBaseDir of package skopeo
    (* the file system *)
    file,       \* the content of the file its path leads to, or Missing
    oldFile,    \* the same in the directory that the link led to before
    stale,      \* that directory is still there
    edits,      \* number of changes so far
    errors,     \* number of errors of the watch so far
    hups,       \* number of SIGHUPs so far
    (* history *)
    touched,    \* since the watch began, the file has been more than looked at
    missed,     \* the file was changed between loading and watching it
    lost        \* the watch has had an error since it last reported a change

fileVars == <<file, oldFile, stale, edits>>
watchVars == <<sha1, watched, events, armed>>
inputVars == <<fileVars, errors, hups>>
historyVars == <<touched, missed, lost>>
vars == <<pc, loaded, skopeo, watchVars, inputVars, historyVars>>

Init ==
    /\ pc = "load"
    /\ loaded = Missing
    /\ sha1 = Missing
    /\ watched = "none"
    /\ events = <<>>
    /\ armed = FALSE
    /\ skopeo = SkopeoDefaults
    /\ file \in Contents \cup {Missing}
    /\ oldFile = Missing
    /\ stale = FALSE
    /\ edits = 0
    /\ errors = 0
    /\ hups = 0
    /\ touched = FALSE
    /\ missed = FALSE
    /\ lost = FALSE

-----------------------------------------------------------------------------
(* The process. A definition whose name ends in _ and a word is a mutant   *)
(* of the definition that follows it: the bug the word is about, which the *)
(* properties must be able to tell from the code.                          *)

\* LoadConfig() and New() succeed.
Loadable(content) == content # Missing /\ Valid(content) /\ Supported(content)

\* run(): both exit on any error. What the relay keeps in variables of its
\* package stays there for as long as the process lives.
Load ==
    /\ pc = "load"
    /\ loaded' = file
    /\ IF Loadable(file)
       THEN pc' = "prepare" /\ skopeo' = SkopeoAfter(file, skopeo)
       ELSE pc' = "exited" /\ UNCHANGED skopeo
    /\ missed' = FALSE
    /\ UNCHANGED <<watchVars, inputVars, touched, lost>>

\* s.relay.Prepare(), which may take its time, and may fail
Prepare ==
    /\ pc = "prepare"
    /\ pc' \in {"watch", "exited"}
    /\ UNCHANGED <<loaded, skopeo, watchVars, inputVars, historyVars>>

\* The main loop is entered if any task ticks.
EnterLoop == pc' = IF Ticking(loaded) THEN "loop" ELSE "exited"

\* conf.watch(), when the file is not to be watched
NoWatch ==
    /\ pc = "watch"
    /\ ~loaded.watch
    /\ EnterLoop
    /\ UNCHANGED <<loaded, skopeo, watchVars, inputVars, historyVars>>

\* conf.watch() up to the watches on the file and its parent directory
StartWatch ==
    /\ pc = "watch"
    /\ loaded.watch
    /\ IF file = Missing
       THEN pc' = "exited" /\ UNCHANGED watched
       ELSE pc' = "digest" /\ watched' = "current"
    /\ touched' = FALSE
    /\ lost' = FALSE
    /\ UNCHANGED <<loaded, skopeo, sha1, events, armed, inputVars, missed>>

\* The file at the place that is being watched
Source == IF watched = "current" THEN file ELSE oldFile

\* conf.watch(), the rest: the digest of what is in the file by now
ComputeSHA1_Unchecked ==
    /\ pc = "digest"
    /\ sha1' = Source
    /\ EnterLoop
    /\ armed' = FALSE
    /\ UNCHANGED <<loaded, skopeo, watched, events, inputVars, historyVars>>
ComputeSHA1 ==
    /\ pc = "digest"
    /\ sha1' = Source
    /\ IF Source = Missing THEN pc' = "exited" ELSE EnterLoop
    /\ armed' = FALSE
    /\ UNCHANGED <<loaded, skopeo, watched, events, inputVars, historyVars>>

\* c.isChanged(evt)
IsChanged_Any(evt) == evt # "other"
IsChanged_WriteOnly(evt) == evt = "write"
IsChanged(evt) ==
    CASE evt = "chmod" -> Source # Missing /\ Source # sha1
      [] evt = "other" -> FALSE
      [] OTHER -> TRUE

ReceiveEvent ==
    /\ pc = "loop"
    /\ events # <<>> /\ Head(events) # "error"
    /\ events' = Tail(events)
    /\ armed' = (armed \/ IsChanged(Head(events)))
    /\ UNCHANGED <<pc, loaded, skopeo, sha1, watched, inputVars, historyVars>>

\* Whatever the error is, the timer is stopped, and not started again.
ReceiveError ==
    /\ pc = "loop"
    /\ events # <<>> /\ Head(events) = "error"
    /\ events' = Tail(events)
    /\ armed' = FALSE
    /\ UNCHANGED <<pc, loaded, skopeo, sha1, watched, inputVars, historyVars>>

\* The loop is left for a restart. Nobody waits for the timer any more.
Restart ==
    /\ pc' = "stop"
    /\ armed' = FALSE
    /\ UNCHANGED <<loaded, skopeo, sha1, watched, events>>

BackOffExpired ==
    /\ pc = "loop"
    /\ armed
    /\ Restart
    /\ UNCHANGED <<inputVars, historyVars>>

Hup ==
    /\ pc = "loop"
    /\ hups < MaxHups
    /\ hups' = hups + 1
    /\ Restart
    /\ UNCHANGED <<fileVars, errors, historyVars>>

\* t.stopTicking() for each task, and watch.Close(): events that have not been
\* received are lost. The wait for a task may never end (StuckForGood of SyncLoop).
StopTasks ==
    /\ pc = "stop"
    /\ \/ pc' = "hung" /\ UNCHANGED <<watched, events>>
       \/ pc' = "load" /\ watched' = "none" /\ events' = <<>>
    /\ UNCHANGED <<loaded, skopeo, sha1, armed, inputVars, historyVars>>

-----------------------------------------------------------------------------
(* The file.                                                               *)

Edit ==
    /\ file \in Rewrites \cup {Missing}
    /\ edits < MaxEdits
    /\ edits' = edits + 1

\* Events that mean a change, whatever is in the file
Telling == {"write", "remove"}

\* The history of an edit that changes the file
NoteChange ==
    /\ touched' = TRUE
    /\ missed' = (missed \/ pc \in {"prepare", "watch"})

\* What the watch reports of something that happens in a directory
Report(directory, evts) ==
    IF watched = directory
    THEN /\ events' = events \o evts
         /\ lost' = (lost /\ \A i \in DOMAIN evts : evts[i] \notin Telling)
    ELSE UNCHANGED <<events, lost>>

\* The watch has an error, such as a queue that is full: in that case the latest
\* events have not got into it.
WatchError ==
    /\ watched # "none"
    /\ errors < MaxErrors
    /\ errors' = errors + 1
    /\ \E n \in 0 .. Len(events) : events' = Append(SubSeq(events, 1, n), "error")
    /\ lost' = TRUE
    /\ UNCHANGED <<pc, loaded, skopeo, sha1, watched, armed, fileVars, hups, touched,
                   missed>>

\* The file is written to in place, or replaced by another: in that case the
\* end of the old one is reported first.
Write(content) ==
    /\ Edit
    /\ file' = content
    /\ \/ Report("current", <<"write">>)
       \/ file # Missing /\ Report("current", <<"chmod", "remove", "write">>)
    /\ NoteChange
    /\ UNCHANGED <<pc, loaded, skopeo, sha1, watched, armed, oldFile, stale,
                   errors, hups>>

Remove ==
    /\ Edit
    /\ file # Missing
    /\ file' = Missing
    /\ Report("current", <<"remove">>)
    /\ NoteChange
    /\ UNCHANGED <<pc, loaded, skopeo, sha1, watched, armed, oldFile, stale,
                   errors, hups>>

\* Its mode is changed, or something happens to another file.
Touch ==
    /\ Edit
    /\ \E evt \in {"chmod", "other"} : Report("current", <<evt>>)
    /\ UNCHANGED <<pc, loaded, skopeo, sha1, watched, armed, file, oldFile, stale,
                   errors, hups, touched, missed>>

\* The link is set to a new directory with another file. That is not reported.
Relink(content) ==
    /\ Edit
    /\ ~stale
    /\ oldFile' = file
    /\ stale' = TRUE
    /\ file' = content
    /\ watched' = IF watched = "current" THEN "old" ELSE watched
    /\ NoteChange
    /\ UNCHANGED <<pc, loaded, skopeo, sha1, events, armed, errors, hups, lost>>

\* The old directory is removed, with the file in it.
RemoveOld ==
    /\ stale
    /\ stale' = FALSE
    /\ oldFile' = Missing
    /\ Report("old", <<"remove", "remove">>)
    /\ UNCHANGED <<pc, loaded, skopeo, sha1, watched, armed, file, edits, errors, hups,
                   touched, missed>>

-----------------------------------------------------------------------------

Process ==
    \/ Load \/ Prepare \/ NoWatch \/ StartWatch \/ ComputeSHA1
    \/ ReceiveEvent \/ ReceiveError \/ BackOffExpired \/ StopTasks

Next ==
    \/ Process \/ Hup \/ Remove \/ Touch \/ RemoveOld \/ WatchError
    \/ \E content \in Rewrites : Write(content) \/ Relink(content)

Spec == Init /\ [][Next]_vars

\* The process goes on, and whoever sets a link to a new directory removes the
\* old one.
Fairness == WF_vars(Process) /\ SF_vars(BackOffExpired) /\ WF_vars(RemoveOld)

FairSpec == Spec /\ Fairness

-----------------------------------------------------------------------------
(* Properties.                                                             *)

\* The process is at work with a config.
Working == pc \in {"prepare", "watch", "digest", "loop", "stop"}

TypeOK ==
    /\ pc \in {"load", "prepare", "watch", "digest", "loop", "stop", "hung", "exited"}
    /\ loaded \in YAML \cup {Missing}
    /\ Working => loaded # Missing
    /\ sha1 \in YAML \cup {Missing}
    /\ watched \in {"none", "current", "old"}
    /\ pc = "loop" /\ loaded.watch => watched # "none" /\ sha1 # Missing
    /\ events \in Seq({"write", "remove", "chmod", "other", "error"})
    /\ armed \in BOOLEAN
    /\ skopeo \in SkopeoConfig
    /\ file \in YAML \cup {Missing} /\ oldFile \in YAML \cup {Missing}
    /\ stale \in BOOLEAN
    /\ edits \in 0 .. MaxEdits /\ errors \in 0 .. MaxErrors /\ hups \in 0 .. MaxHups
    /\ touched \in BOOLEAN /\ missed \in BOOLEAN /\ lost \in BOOLEAN

\* When the file has come to rest, the process works with what is in it, or it
\* has exited, whichever way the file was changed, and however often. But a change
\* between the loading of the file and the watch may be missed; an error of the
\* watch calls off the restart for the changes reported before it (sync.go:193),
\* until another one is reported; stopping the tasks may hang (task.go:144); and
\* the file may not be watched at all.
ConfigCatchesUp ==
    <>[](\/ pc \in {"exited", "hung"} \/ loaded = file \/ missed \/ lost
         \/ loaded # Missing /\ ~loaded.watch)

\* The timer runs, or there is an event to be received that will start it, and no
\* error is to be received later that will stop it.
Noticed ==
    LET NoErrorAfter(i) == \A j \in DOMAIN events : j > i => events[j] # "error"
    IN  \/ armed /\ NoErrorAfter(0)
        \/ \E i \in DOMAIN events : events[i] \in Telling /\ NoErrorAfter(i)

\* On its way to a restart a change gets lost in two cases only: if it was made
\* between loading and watching, or if the watch has an error after it has been
\* reported (sync.go:193). Otherwise, while the process is at work with something
\* else than what is in the file, the restart is due, an event that leads to it is
\* waiting, or the directory the file was in before a relink is still to be
\* removed - whichever of the events were taken for no change, and in whichever
\* order things happened to the file and the directory. So changes that are
\* reported after an error are noticed again.
ChangeNoticed ==
    pc \in {"digest", "loop"} /\ loaded.watch /\ file # loaded =>
        missed \/ lost \/ Noticed \/ (watched = "old" /\ stale)

\* No restart is due unless the file was written to, removed, or replaced: not
\* for a change of its mode, or for what happens to other files.
RestartHasReason == armed => touched

\* mappingRefs() asks the repository list of the task for every mapping with a
\* regular expression, without a look whether there is one (task.go:161): no
\* config the process works with, however its mappings are ordered, may lack
\* it, or name a list source that the registry does not have.
ListsAreThere ==
    Working =>
        \A t \in Tasks(loaded) : \A m \in Mappings(t) :
            IsRegexpFrom(m) =>
                /\ RepoList(loaded, t) # {}
                /\ RepoList(loaded, t) \subseteq {"catalog", "ecr", "dockerhub", "index"}

\* The relay never works with credentials other than those of the config unless
\* a percent sign is in them, which Sprintf spoils (auther.go:48); and it does
\* get them, if they are in JSON form and without characters that mean something
\* to Sprintf or JSON. Where a refresher is in charge, those of the config are
\* replaced.
CredentialsReach ==
    Working =>
        \A t \in Tasks(loaded) : \A l \in t.source \cup t.target :
            LET a == l.auth
                passed == Passed(Decode(a))
                given == Joined(a.user, a.pass)
            IN Refresher(CredentialsOf(l)) = "none" =>
                   /\ passed \in {<<>>, given} \/ Has(a, "%")
                   /\ a.form = "json" /\ ~Empty(Decode(a))
                        /\ ~Has(a, "%") /\ ~Has(a, "quote") => passed = given

\* A restart is a full restart: the relay works with the binary and the
\* directory of certificates that the config names, or with the defaults.
FullRestart ==
    Working /\ Relay(loaded) = "skopeo" =>
        skopeo = NewSkopeoRelay(loaded.skopeo, SkopeoDefaults)
=============================================================================
