------------------------- MODULE SkopeoRelayProofs --------------------------
(***************************************************************************)
(* Proofs about SkopeoRelay, for all names, images and tag sets.           *)
(*                                                                         *)
(* The inductive invariant says what is known about the image under way    *)
(* (Underway): it is one that the source has had for its tag during the    *)
(* call; what the wanted tags are like (Apart): each has a place of its    *)
(* own; and what has become of them (Accounted): as long as nothing has    *)
(* failed, each is either copied or still to come.                         *)
(***************************************************************************)
EXTENDS SkopeoRelay, ImageTagsProofs

Apart == Separate(wanted)

Accounted ==
    /\ pc = "expand" => ~errs /\ copied = {}
    /\ pc \in {"loop", "copy"} /\ ~errs => wanted = tags \cup copied

Underway ==
    pc = "copy" /\ image # None
        => image \in Stands(tag) /\ image \in Known(Place(tag))

IInv == TypeOK /\ Histories /\ Apart /\ Accounted /\ Underway

-----------------------------------------------------------------------------
(* Types and the inductive invariant                                       *)

LEMMA InitIInv == Init => IInv
<1> SUFFICES ASSUME Init PROVE IInv
  OBVIOUS
<1> USE DEF Init
<1>1. source \in [Names -> Images \cup {None}] /\ Histories
  BY SourceTypes
<1>2. NoTag \in Tag
  BY DEF NoTag, Tag
<1>3. changes = 0
  BY DEF SourceInit
<1>4. TypeOK
  <2>1. target \in [Places -> Images \cup {None}]
    OBVIOUS
  <2>2. faults \in 0 .. MaxFaults /\ changes \in 0 .. MaxChanges
    BY <1>3, FaultsAssumption, ChangesAssumption
  <2> QED BY <1>1, <1>2, <2>1, <2>2 DEF TypeOK
<1>5. Apart /\ Accounted /\ Underway
  BY DEF Apart, Separate, Proper, Accounted, Underway
<1> QED BY <1>1, <1>4, <1>5 DEF IInv

\* A tag that is being copied
LEMMA CopiedTag ==
    ASSUME IInv, NEW t \in wanted
    PROVE  Proper(t) /\ \A u \in wanted : Place(u) = Place(t) => u = t
BY DEF IInv, Apart, Separate

LEMMA WriteType ==
    ASSUME IInv, pc = "copy", image # None, Write
    PROVE  /\ target' \in [Places -> Images \cup {None}]
           /\ copied' \subseteq wanted /\ copied' = copied \cup {tag}
           /\ tag \in wanted
<1>1. tag \in tags /\ tags \subseteq wanted
  BY DEF IInv, TypeOK
<1>2. image \in Images \cup {None} /\ copied \subseteq wanted
  BY DEF IInv, TypeOK
<1>3. target \in [Places -> Images \cup {None}]
  BY DEF IInv, TypeOK
<1> QED BY <1>1, <1>2, <1>3 DEF Write

LEMMA SyncIInv == IInv /\ Sync => IInv'
<1> SUFFICES ASSUME IInv, Sync PROVE IInv'
  OBVIOUS
<1> USE DEF IInv, Sync
<1>1. TypeOK'
  BY DEF TypeOK
<1>2. Histories'
  <2>1. \A n \in Names : source[n] \in Images \cup {None}
    BY DEF TypeOK
  <2>2. seen' = [n \in Names |-> {source[n]} \ {None}]
    BY DEF Now
  <2>3. \A n \in Names : source[n] \in ever[n] \cup {None}
    BY DEF Histories
  <2> QED BY <2>1, <2>2, <2>3 DEF Histories
<1>3. Apart' /\ Accounted' /\ Underway'
  BY DEF Apart, Separate, Proper, Accounted, Underway
<1> QED BY <1>1, <1>2, <1>3

LEMMA ExpandIInv == IInv /\ ExpandTags => IInv'
<1> SUFFICES ASSUME IInv, ExpandTags PROVE IInv'
  OBVIOUS
<1> USE DEF ExpandTags, sourceVars, targetVars
<1>1. Separate(Expand(ts, Listed))
  BY ExpandSeparates, ListedNames DEF IInv, TypeOK
<1>2. wanted' = Expand(ts, Listed) /\ tags' = wanted'
  OBVIOUS
<1>3. Separate(wanted')
  BY <1>1, <1>2
<1>4. wanted' \subseteq Tag
  BY <1>3 DEF Separate, Proper
<1>5. copied = {} /\ pc = "expand"
  BY DEF IInv, Accounted
<1>6. TypeOK'
  BY <1>2, <1>4, <1>5 DEF IInv, TypeOK
<1>7. Histories'
  BY DEF IInv, Histories
<1>8. Apart'
  BY <1>3 DEF Apart, Separate, Proper, Place, Places
<1>9. Accounted' /\ Underway'
  BY <1>2, <1>5 DEF Accounted, Underway
<1> QED BY <1>6, <1>7, <1>8, <1>9 DEF IInv

LEMMA ExpandFailsIInv == IInv /\ ExpandFails => IInv'
BY FaultsAssumption DEF IInv, ExpandFails, Fault, sourceVars, callVars, copyVars,
   targetVars, TypeOK, Histories, Apart, Separate, Proper, Accounted, Underway

LEMMA StartCopyIInv == IInv /\ StartCopy => IInv'
<1> SUFFICES ASSUME IInv, StartCopy PROVE IInv'
  OBVIOUS
<1> USE DEF StartCopy, sourceVars, callVars, targetVars
<1>1. tag' \in wanted
  BY DEF IInv, TypeOK
<1>2. Proper(tag')
  BY <1>1, CopiedTag DEF Proper
<1>3. image' = Current(tag')
  BY DEF SourceImage
<1>4. source \in [Names -> Images \cup {None}] /\ Histories
  BY DEF IInv, TypeOK
<1>5. /\ image' \in Images \cup {None}
      /\ image' # None => image' \in Stands(tag') /\ image' \in Known(Place(tag'))
  BY <1>2, <1>3, <1>4, FoundIsKnown
<1>6. TypeOK'
  BY <1>2, <1>5 DEF IInv, TypeOK
<1>7. Histories' /\ Apart' /\ Accounted'
  BY DEF IInv, Histories, Apart, Separate, Proper, Accounted
<1>8. Underway'
  BY <1>5 DEF Underway, Stands, Known
<1> QED BY <1>6, <1>7, <1>8 DEF IInv

LEMMA CopyDoneIInv == IInv /\ CopyDone => IInv'
<1> SUFFICES ASSUME IInv, CopyDone PROVE IInv'
  OBVIOUS
<1> USE DEF CopyDone, sourceVars, callVars
<1>1. /\ target' \in [Places -> Images \cup {None}]
      /\ copied' \subseteq wanted /\ copied' = copied \cup {tag}
      /\ tag \in wanted
  BY WriteType
<1>2. TypeOK'
  BY <1>1 DEF IInv, TypeOK
<1>3. Histories' /\ Apart' /\ Underway'
  BY DEF IInv, Histories, Apart, Separate, Proper, Underway
<1>4. Accounted'
  BY <1>1 DEF IInv, Accounted, TypeOK
<1> QED BY <1>2, <1>3, <1>4 DEF IInv

LEMMA CopyFailsIInv == IInv /\ CopyFails => IInv'
<1> SUFFICES ASSUME IInv, CopyFails PROVE IInv'
  OBVIOUS
<1> USE DEF CopyFails, sourceVars, callVars, AfterFailure, NoteFailure
<1>1. target' \in [Places -> Images \cup {None}] /\ copied' \subseteq wanted
  <2>1. CASE UNCHANGED targetVars
    BY <2>1 DEF IInv, TypeOK, targetVars
  <2>2. CASE image # None /\ Write
    BY <2>2, WriteType
  <2> QED BY <2>1, <2>2
<1>2. faults' \in 0 .. MaxFaults
  BY FaultsAssumption DEF Fault, IInv, TypeOK
<1>3. /\ pc' = "loop" /\ tags' = tags \ {tag} /\ errs' = TRUE
      /\ UNCHANGED <<source, changes, seen, ever, ts, wanted, tag, image>>
  OBVIOUS
<1>4. TypeOK'
  BY <1>1, <1>2, <1>3 DEF IInv, TypeOK
<1>5. Histories' /\ Apart' /\ Underway' /\ Accounted'
  BY <1>3 DEF IInv, Histories, Apart, Separate, Proper, Underway, Accounted
<1> QED BY <1>4, <1>5 DEF IInv

LEMMA ReturnIInv == IInv /\ Return => IInv'
BY DEF IInv, Return, sourceVars, callVars, copyVars, targetVars, TypeOK,
   Histories, Apart, Separate, Proper, Accounted, Underway

LEMMA ChangeIInv == IInv /\ Change => IInv'
<1> SUFFICES ASSUME IInv, Change PROVE IInv'
  OBVIOUS
<1>1. PICK n \in Names, i \in Images \cup {None} : SourceChange(n, i)
  BY DEF Change
<1>2. UNCHANGED <<pc, ts, wanted, tags, tag, image, errs, target, copied, faults>>
  BY DEF Change, callVars, copyVars, targetVars
<1>3. /\ source' \in [Names -> Images \cup {None}]
      /\ Histories'
      /\ \A m \in Names : seen[m] \subseteq seen'[m] /\ ever[m] \subseteq ever'[m]
  BY <1>1, ChangeGrows DEF IInv, TypeOK
<1>4. changes' \in 0 .. MaxChanges
  BY <1>1, ChangesAssumption DEF SourceChange, IInv, TypeOK
<1>5. TypeOK'
  BY <1>2, <1>3, <1>4 DEF IInv, TypeOK
<1>6. Apart' /\ Accounted'
  BY <1>2 DEF IInv, Apart, Separate, Proper, Accounted
<1>7. Underway'
  <2> SUFFICES ASSUME pc = "copy", image # None
               PROVE  image \in Stands(tag)' /\ image \in Known(Place(tag))'
    BY <1>2 DEF Underway, Stands, Known
  <2>1. tag \in wanted
    BY DEF IInv, TypeOK
  <2>2. Proper(tag)
    BY <2>1, CopiedTag
  <2>3. image \in Stands(tag) /\ image \in Known(Place(tag))
    BY DEF IInv, Underway
  <2>4. tag.digest # None \/ tag.name \in Names
    BY <2>2, ProperTags
  <2>5. image \in Stands(tag)'
    BY <1>2, <1>3, <2>3, <2>4 DEF Stands
  <2>6. image \in Known(Place(tag))'
    BY <1>2, <1>3, <2>3 DEF Known, Place
  <2> QED BY <1>2, <2>5, <2>6
<1> QED BY <1>3, <1>5, <1>6, <1>7 DEF IInv

LEMMA StepIInv == IInv /\ [Next]_vars => IInv'
<1> SUFFICES ASSUME IInv, [Next]_vars PROVE IInv'
  OBVIOUS
<1>1. CASE UNCHANGED vars
  BY <1>1 DEF vars, sourceVars, callVars, copyVars, targetVars, IInv, TypeOK,
     Histories, Apart, Separate, Proper, Accounted, Underway, Stands, Known
<1> QED BY <1>1, SyncIInv, ExpandIInv, ExpandFailsIInv, StartCopyIInv,
           CopyDoneIInv, CopyFailsIInv, ReturnIInv, ChangeIInv DEF Next, Relaying

LEMMA Invariance == Spec => []IInv
BY InitIInv, StepIInv, PTL DEF Spec

\* All variables of the Skopeo relay keep their types.
THEOREM TypeCorrect == Spec => []TypeOK
<1>1. IInv => TypeOK
  BY DEF IInv
<1> QED BY <1>1, Invariance, PTL

-----------------------------------------------------------------------------
(* What the relay promises                                                 *)

Confined ==
    \A p \in Places : target'[p] # target[p] => \E t \in wanted : Place(t) = p

LEMMA ConfinedStep == IInv /\ [Next]_vars => [Confined]_vars
<1> SUFFICES ASSUME IInv, Next PROVE Confined
  BY DEF vars
<1>1. CASE UNCHANGED target
  BY <1>1 DEF Confined
<1>2. CASE pc = "copy" /\ image # None /\ Write
  <2>1. tag \in wanted
    BY <1>2, WriteType
  <2>2. target' = [target EXCEPT ![Place(tag)] = image]
    BY <1>2 DEF Write, TargetPlace
  <2>3. target \in [Places -> Images \cup {None}]
    BY DEF IInv, TypeOK
  <2> QED BY <2>1, <2>2, <2>3 DEF Confined
<1>3. UNCHANGED target \/ (pc = "copy" /\ image # None /\ Write)
  BY DEF Next, Relaying, Sync, ExpandTags, ExpandFails, StartCopy, CopyDone,
     CopyFails, Return, Change, targetVars
<1> QED BY <1>1, <1>2, <1>3

\* Whatever the tag sets and the source, and whichever calls fail, nothing is
\* written to the target but the tags that are asked for.
THEOREM WritesOnlyWanted == Spec => OnlyWanted
<1>1. [Confined]_vars <=> [\A p \in Places : target'[p] # target[p]
                              => \E t \in wanted : Place(t) = p]_vars
  BY DEF Confined
<1> QED BY <1>1, Invariance, ConfinedStep, PTL DEF Spec, OnlyWanted

\* The module Relay speaks of the same tags and places.
LEMMA SameTags ==
    /\ Promise!Places = Places
    /\ \A t : Promise!Place(t) = Place(t) /\ Promise!Stands(t) = Stands(t)
    /\ \A p : Promise!Known(p) = Known(p)
<1>1. Promise!Places = Places
  BY DEF Promise!Places, Places
<1>2. \A t : Promise!Place(t) = Place(t)
  BY DEF Promise!Place, Place
<1>3. \A t : Promise!Stands(t) = Stands(t)
  BY DEF Promise!Stands, Stands
<1>4. \A p : Promise!Known(p) = Known(p)
  BY <1>2 DEF Promise!Known, Known
<1> QED BY <1>1, <1>2, <1>3, <1>4

LEMMA SameSource ==
    /\ Promise!Listed = Listed
    /\ Promise!Now = Now
    /\ \A s, listed : Promise!Expand(s, listed) = Expand(s, listed)
    /\ \A n, i : Promise!SourceChange(n, i) <=> SourceChange(n, i)
    /\ Promise!SourceInit <=> SourceInit
<1>1. Promise!Listed = Listed
  BY DEF Promise!Listed, Listed
<1>2. Promise!Now = Now
  BY DEF Promise!Now, Now
<1>3. \A s, listed : Promise!Expand(s, listed) = Expand(s, listed)
  <2>1. \A S : Promise!Cardinality(S) = Cardinality(S)
    BY DEF Promise!Cardinality, Cardinality
  <2>2. \A limit, S : Promise!Newest(limit, S) = Newest(limit, S)
    BY <2>1 DEF Promise!Newest, Newest
  <2> QED BY <2>2 DEF Promise!Expand, Expand, Promise!NeedsExpansion,
      NeedsExpansion, Promise!IsEmpty, IsEmpty, Promise!Plain, Plain
<1>4. \A n, i : Promise!SourceChange(n, i) <=> SourceChange(n, i)
  BY DEF Promise!SourceChange, SourceChange
<1>5. Promise!SourceInit <=> SourceInit
  BY <1>2 DEF Promise!SourceInit, SourceInit
<1> QED BY <1>1, <1>2, <1>3, <1>4, <1>5

LEMMA InitRefines == Init => Promise!Init
BY SameTags, SameSource DEF Init, Promise!Init, Phase

\* A write that skopeo makes is one that the promise allows, and what has been
\* copied is what the promise says has been.
LEMMA WriteRefines ==
    ASSUME IInv, pc = "copy", image # None, Write, pc' = "loop",
           UNCHANGED <<sourceVars, callVars>>
    PROVE  Promise!Next
<1>1. tag \in wanted /\ copied' = copied \cup {tag} /\ copied \subseteq wanted
  BY WriteType DEF IInv, TypeOK
<1>2. /\ tag \in Tag /\ Place(tag) \in Places
      /\ \A u \in wanted : Place(u) = Place(tag) => u = tag
  BY <1>1, CopiedTag DEF Proper
<1>3. image \in Images /\ image \in Stands(tag) /\ image \in Known(Place(tag))
  BY DEF IInv, TypeOK, Underway
<1>4. {u \in wanted : Place(u) = Place(tag) /\ image \in Stands(u)} = {tag}
  BY <1>1, <1>2, <1>3
<1>5. {u \in copied : Place(u) # Place(tag)} = copied \ {tag}
  BY <1>1, <1>2
<1>6. copied' = {u \in copied : Place(u) # Place(tag)}
                \cup {u \in wanted : Place(u) = Place(tag) /\ image \in Stands(u)}
  BY <1>1, <1>4, <1>5
<1>7. target' = [target EXCEPT ![Place(tag)] = image]
  BY DEF Write, TargetPlace
<1>8. Phase = "running" /\ Phase' = "running"
  BY DEF Phase
<1>9. UNCHANGED <<Promise!sourceVars, Phase, ts, wanted>>
  BY <1>8 DEF callVars, sourceVars, Promise!sourceVars
<1>10. Promise!Write(Place(tag), image)
  BY <1>3, <1>6, <1>7, <1>8, <1>9, SameTags DEF Promise!Write
<1>11. Place(tag) \in Promise!Places
  BY <1>2, SameTags
<1> QED BY <1>3, <1>10, <1>11 DEF Promise!Next

\* Every step is one that the promise allows, or leaves all it speaks of alone.
LEMMA StepRefines == IInv /\ [Next]_vars => [Promise!Next]_Promise!vars
<1> SUFFICES ASSUME IInv, [Next]_vars PROVE [Promise!Next]_Promise!vars
  OBVIOUS
<1> USE DEF Promise!vars, Promise!relayVars, Promise!sourceVars, sourceVars,
        callVars, copyVars, targetVars
<1>1. CASE Sync
  <2>1. Phase \in {"ok", "error"} /\ Phase' = "called"
    BY <1>1 DEF Sync, Phase
  <2>2. Promise!Call
    BY <1>1, <2>1, SameSource DEF Sync, Promise!Call
  <2> QED BY <2>2 DEF Promise!Next
<1>2. CASE ExpandTags
  <2>1. Phase = "called" /\ Phase' = "running"
    BY <1>2 DEF ExpandTags, Phase
  <2>2. Promise!Plan
    BY <1>2, <2>1, SameSource DEF ExpandTags, Promise!Plan
  <2> QED BY <2>2 DEF Promise!Next
<1>3. CASE ExpandFails
  <2>1. Phase = "called" /\ Phase' = "error"
    BY <1>3 DEF ExpandFails, Phase
  <2>2. Promise!Return
    BY <1>3, <2>1 DEF ExpandFails, Promise!Return
  <2> QED BY <2>2 DEF Promise!Next
<1>4. CASE StartCopy
  <2>1. Phase = Phase'
    BY <1>4 DEF StartCopy, Phase
  <2> QED BY <1>4, <2>1 DEF StartCopy
<1>5. CASE CopyDone
  BY <1>5, WriteRefines DEF CopyDone
<1>6. CASE CopyFails
  <2>1. CASE UNCHANGED targetVars
    <3>1. Phase = Phase'
      BY <1>6 DEF CopyFails, Phase
    <3> QED BY <1>6, <2>1, <3>1 DEF CopyFails
  <2>2. CASE image # None /\ Write
    BY <1>6, <2>2, WriteRefines DEF CopyFails
  <2> QED BY <1>6, <2>1, <2>2 DEF CopyFails
<1>7. CASE Return
  <2>1. Phase = "running" /\ Phase' = IF errs THEN "error" ELSE "ok"
    BY <1>7 DEF Return, Phase
  <2>2. ~errs => copied = wanted
    BY <1>7 DEF Return, IInv, Accounted
  <2>3. errs \in BOOLEAN
    BY DEF IInv, TypeOK
  <2>4. Promise!Return
    BY <1>7, <2>1, <2>2, <2>3 DEF Return, Promise!Return
  <2> QED BY <2>4 DEF Promise!Next
<1>8. CASE Change
  <2>1. Phase = Phase'
    BY <1>8 DEF Change, Phase
  <2>2. Promise!Change
    BY <1>8, <2>1, SameSource DEF Change, Promise!Change
  <2> QED BY <2>2 DEF Promise!Next
<1>9. CASE UNCHANGED vars
  BY <1>9 DEF vars, Phase
<1> QED BY <1>1, <1>2, <1>3, <1>4, <1>5, <1>6, <1>7, <1>8, <1>9 DEF Next, Relaying

\* For all names, images and tag sets, the Skopeo relay keeps the promise of a
\* relay.
THEOREM Refinement == Spec => KeepsPromise
BY InitRefines, StepRefines, Invariance, PTL DEF Spec, KeepsPromise, Promise!Spec
=============================================================================
