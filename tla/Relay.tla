------------------------------- MODULE Relay --------------------------------
(***************************************************************************)
(* What syncTask relies on when it calls Sync of a relay (the interface    *)
(* Relay in internal/pkg/sync/sync.go), whichever it is: a call that       *)
(* returns without an error has brought each tag of the tag set to the     *)
(* target, as the source had it during the call; and no call ever puts an  *)
(* image to a place of the target that the source has not had there.       *)
(***************************************************************************)
EXTENDS ImageTags

VARIABLES
    target,     \* target[p]: the image at a place of the target, or None
    call,       \* how far the call is, or how the last one ended
    asked,      \* the tag set of the call
    wanted,     \* the tags it is to sync, once that has been determined
    copied      \* those of them that it has brought to the target

relayVars == <<target, call, asked, wanted, copied>>
vars == <<sourceVars, relayVars>>

Init ==
    /\ SourceInit
    /\ target = [p \in Places |-> None]
    /\ call = "ok"
    /\ asked \in TagSets
    /\ wanted = {}
    /\ copied = {}

Call ==
    /\ call \in {"ok", "error"}
    /\ call' = "called"
    /\ asked' \in TagSets
    /\ wanted' = {}
    /\ copied' = {}
    /\ seen' = Now
    /\ UNCHANGED <<source, changes, ever, target>>

\* Which tags are wanted depends on what the source has just now.
Plan ==
    /\ call = "called"
    /\ call' = "running"
    /\ wanted' = Expand(asked, Listed)
    /\ UNCHANGED <<sourceVars, target, asked, copied>>

Write(place, image) ==
    /\ call = "running"
    /\ image \in Known(place)
    /\ target' = [target EXCEPT ![place] = image]
    /\ copied' = {tag \in copied : Place(tag) # place}
                 \cup {tag \in wanted : Place(tag) = place /\ image \in Stands(tag)}
    /\ UNCHANGED <<sourceVars, call, asked, wanted>>

Return ==
    /\ \/ call \in {"called", "running"} /\ call' = "error"
       \/ call = "running" /\ copied = wanted /\ call' = "ok"
    /\ UNCHANGED <<sourceVars, target, asked, wanted, copied>>

Change ==
    /\ \E n \in Names, image \in Images \cup {None} : SourceChange(n, image)
    /\ UNCHANGED relayVars

Next ==
    \/ Call \/ Plan \/ Return \/ Change
    \/ \E place \in Places, image \in Images : Write(place, image)

Spec == Init /\ [][Next]_vars
=============================================================================
