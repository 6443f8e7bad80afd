------------------------- MODULE DockerRelayProofs -------------------------
(***************************************************************************)
(* Proofs about DockerRelay, for all names, images and tag sets.           *)
(*                                                                         *)
(* What the daemon holds is older than the call, so the inductive          *)
(* invariant follows the wanted tags through it: each is still to be       *)
(* pulled or there as the source had it during the call (Fetched), then    *)
(* still to be listed or found (Gathered), then still to be tagged or      *)
(* staged for the target, and at last still to be pushed or copied         *)
(* (Delivered), unless a listing has failed. What is left from earlier     *)
(* calls is known to have come from the source at some time (Stored).      *)
(***************************************************************************)
EXTENDS DockerRelay, ImageTagsProofs

Stored ==
    /\ \A n \in Names : local[n] \in ever[n] \cup {None}
    /\ \A p \in Places : staged[p] # None => staged[p] \in Known(p)
    /\ \A x \in srcImages : Proper(x[2]) /\ x[1] \in Known(Place(x[2]))

Selected ==
    /\ Separate(wanted)
    /\ \A t \in tags \cup todo : Proper(t)
    /\ pc \in {"expand", "pull all"} => wanted = {} /\ tags = {}
    /\ pc = "pull all" => ~IsEmpty(ts)
    /\ pc \in {"pull", "list"} =>
          IF tags = {} THEN \A t \in wanted : t.digest = None /\ t = Plain(t.name)
                       ELSE wanted = tags
    /\ pc \in {"expand", "pull all", "pull"} => srcImages = {}
    /\ pc = "list" => todo \subseteq tags

Has(t) == IF t.digest # None THEN t.digest \in held
                             ELSE local[t.name] \in seen[t.name]

Fetched ==
    /\ pc = "pull" => \A t \in wanted : t \in todo \/ Has(t)
    /\ pc = "list" => \A t \in wanted : Has(t)

Gathered ==
    /\ pc \in {"list", "tag"} =>
          \A x \in srcImages, t \in wanted :
              Place(x[2]) = Place(t) => x[1] \in Stands(t)
    /\ pc = "list" /\ tags # {} /\ ~unlisted =>
          \A t \in wanted : t \in todo \/ \E x \in srcImages : x[2] = t
    /\ pc = "tag" /\ ~unlisted =>
          \A t \in wanted : \/ \E x \in srcImages : Place(x[2]) = Place(t)
                            \/ staged[Place(t)] \in Stands(t)

Delivered ==
    /\ pc \in {"expand", "pull all", "pull", "list", "tag"} => copied = {}
    /\ pc = "push" =>
          /\ \A p \in unpushed : staged[p] # None
          /\ \A t \in copied : Place(t) \notin unpushed
          /\ ~unlisted =>
                \A t \in wanted :
                    \/ t \in copied
                    \/ Place(t) \in unpushed /\ staged[Place(t)] \in Stands(t)

IInv ==
    TypeOK /\ Histories /\ Stored /\ Selected /\ Fetched /\ Gathered /\ Delivered

-----------------------------------------------------------------------------
(* Types and the inductive invariant, action by action                     *)

LEMMA FaultBound ==
    ASSUME faults \in 0 .. MaxFaults, Fault PROVE faults' \in 0 .. MaxFaults
BY FaultsAssumption DEF Fault

LEMMA InitIInv == Init => IInv
<1> SUFFICES ASSUME Init PROVE IInv
  OBVIOUS
<1> USE DEF Init
<1>1. source \in [Names -> Images \cup {None}] /\ Histories
  BY SourceTypes
<1>2. faults \in 0 .. MaxFaults /\ changes \in 0 .. MaxChanges
  BY FaultsAssumption, ChangesAssumption DEF SourceInit
<1>3. /\ target \in [Places -> Images \cup {None}]
      /\ staged \in [Places -> Images \cup {None}]
      /\ local \in [Names -> Images \cup {None}]
  OBVIOUS
<1>4. TypeOK
  BY <1>1, <1>2, <1>3 DEF TypeOK
<1>5. Stored /\ Selected /\ Fetched /\ Gathered /\ Delivered
  BY DEF Stored, Selected, Separate, Fetched, Gathered, Delivered
<1> QED BY <1>1, <1>4, <1>5 DEF IInv

LEMMA SyncIInv == IInv /\ Sync => IInv'
<1> SUFFICES ASSUME IInv, Sync PROVE IInv'
  OBVIOUS
<1> USE DEF Sync, daemonVars
<1>1. TypeOK'
  BY DEF IInv, TypeOK
<1>2. Histories'
  <2>1. \A n \in Names : source[n] \in Images \cup {None}
    BY DEF IInv, TypeOK
  <2>2. seen' = [n \in Names |-> {source[n]} \ {None}]
    BY DEF Now
  <2>3. \A n \in Names : source[n] \in ever[n] \cup {None}
    BY DEF IInv, Histories
  <2> QED BY <2>1, <2>2, <2>3 DEF IInv, Histories
<1>3. Stored'
  BY DEF IInv, Stored, Known
<1>4. Selected' /\ Fetched' /\ Gathered' /\ Delivered'
  BY DEF Selected, Separate, Fetched, Gathered, Delivered
<1> QED BY <1>1, <1>2, <1>3, <1>4 DEF IInv

LEMMA ExpandIInv == IInv /\ ExpandTags => IInv'
<1> SUFFICES ASSUME IInv, ExpandTags PROVE IInv'
  OBVIOUS
<1> USE DEF ExpandTags, sourceVars, daemonVars, targetVars
<1>1. Separate(Expand(ts, Listed))
  BY ExpandSeparates, ListedNames DEF IInv, TypeOK
<1>2. /\ wanted' = Expand(ts, Listed) /\ tags' = wanted' /\ todo' = wanted'
      /\ pc' = IF wanted' = {} THEN "pull all" ELSE "pull"
      /\ pc = "expand" /\ ~IsEmpty(ts)
  OBVIOUS
<1>3. \A t \in wanted' : Proper(t)
  BY <1>1, <1>2 DEF Separate
<1>4. wanted' \subseteq Tag
  BY <1>3 DEF Proper
<1>5. copied = {} /\ srcImages = {}
  BY <1>2 DEF IInv, Delivered, Selected
<1>6. TypeOK'
  BY <1>2, <1>4, <1>5 DEF IInv, TypeOK
<1>7. Histories' /\ Stored'
  BY <1>5 DEF IInv, Histories, Stored, Known
<1>8. Selected'
  <2>1. Separate(wanted)' /\ \A t \in tags' \cup todo' : Proper(t)
    BY <1>1, <1>2, <1>3 DEF Separate, Proper, Place, Places
  <2>2. pc' = "pull all" => wanted' = {} /\ tags' = {} /\ ~IsEmpty(ts)'
    BY <1>2 DEF IsEmpty
  <2>3. pc' \in {"pull all", "pull"} /\ (pc' = "pull" => tags' # {})
    BY <1>2
  <2> QED BY <1>2, <1>5, <2>1, <2>2, <2>3 DEF Selected, Proper, Place, Places
<1>9. Fetched' /\ Gathered' /\ Delivered'
  BY <1>2, <1>5 DEF Fetched, Gathered, Delivered
<1> QED BY <1>6, <1>7, <1>8, <1>9 DEF IInv

LEMMA FailsIInv == IInv /\ Fails => IInv'
<1> SUFFICES ASSUME IInv, Fails PROVE IInv'
  OBVIOUS
<1>1. faults' \in 0 .. MaxFaults
  <2>1. faults \in 0 .. MaxFaults
    BY DEF IInv, TypeOK
  <2> QED BY <2>1, FaultBound DEF Fails
<1> USE DEF Fails, sourceVars, callVars, loopVars, daemonVars, targetVars
<1>2. TypeOK'
  BY <1>1 DEF IInv, TypeOK
<1>3. Histories' /\ Stored'
  BY DEF IInv, Histories, Stored, Known
<1>4. Selected' /\ Fetched'
  BY DEF IInv, Selected, Fetched
<1>5. Gathered' /\ Delivered'
  BY DEF IInv, Gathered, Delivered
<1> QED BY <1>2, <1>3, <1>4, <1>5 DEF IInv

LEMMA PullAllIInv == IInv /\ PullAll => IInv'
<1> SUFFICES ASSUME IInv, PullAll PROVE IInv'
  OBVIOUS
<1> USE DEF PullAll, sourceVars, daemonVars, targetVars
<1>1. todo' = {Plain(n) : n \in Listed}
  OBVIOUS
<1>2. \A t \in todo' : Proper(t) /\ t \in Tag /\ t.digest = None /\ t = Plain(t.name)
  <2> SUFFICES ASSUME NEW n \in Listed
               PROVE  /\ Proper(Plain(n)) /\ Plain(n) \in Tag
                      /\ Plain(n).digest = None /\ Plain(n).name = n
    BY <1>1
  <2> QED BY PlainTags DEF Listed
<1>3. wanted' \subseteq todo' /\ Separate(wanted')
  <2>1. CASE IsEmpty(ts)
    <3>1. wanted' = Expand(ts, Listed)
      BY <2>1
    <3>2. Separate(wanted')
      BY <3>1, ExpandSeparates, ListedNames DEF IInv, TypeOK
    <3> QED BY <1>1, <2>1, <3>1, <3>2, EmptyExpands
  <2>2. CASE ~IsEmpty(ts)
    BY <2>2 DEF IInv, Selected
  <2> QED BY <2>1, <2>2
<1>4. copied = {} /\ srcImages = {} /\ tags = {}
  BY DEF IInv, Delivered, Selected
<1>5. TypeOK'
  BY <1>2, <1>3, <1>4 DEF IInv, TypeOK
<1>6. Histories' /\ Stored'
  BY <1>4 DEF IInv, Histories, Stored, Known
<1>7. Selected'
  BY <1>2, <1>3, <1>4 DEF Selected, Separate, Proper, Place, Places
<1>8. Fetched' /\ Gathered' /\ Delivered'
  BY <1>3, <1>4 DEF Fetched, Gathered, Delivered
<1> QED BY <1>5, <1>6, <1>7, <1>8 DEF IInv

LEMMA PullIInv == ASSUME IInv, NEW t \in todo, Pull(t) PROVE IInv'
<1> USE DEF Pull, SourceImage, sourceVars, callVars, targetVars
<1>1. Proper(t)
  BY DEF IInv, Selected
<1>2. /\ Current(t) \in Images \cup {None}
      /\ Current(t) # None
            => Current(t) \in Stands(t) /\ Current(t) \in Known(Place(t))
  BY <1>1, FoundIsKnown DEF IInv, TypeOK
<1>3. t.digest = None => t.name \in Names /\ Place(t) = t.name
  BY <1>1, ProperTags
<1>4. CASE Current(t) = None
  <2>1. pc' = "error" /\ UNCHANGED <<local, held, staged, todo, tags, srcImages>>
    BY <1>4
  <2>2. TypeOK'
    BY <2>1 DEF IInv, TypeOK
  <2>3. Histories' /\ Stored'
    BY <2>1 DEF IInv, Histories, Stored, Known
  <2>4. Selected' /\ Fetched' /\ Gathered' /\ Delivered'
    BY <2>1 DEF IInv, Selected, Fetched, Gathered, Delivered
  <2> QED BY <2>2, <2>3, <2>4 DEF IInv
<1>5. CASE Current(t) # None
  <2>1. /\ pc = "pull" /\ pc' = "pull" /\ held' = held \cup {Current(t)}
        /\ todo' = todo \ {t} /\ UNCHANGED <<staged, tags, srcImages>>
        /\ local' = IF t.digest = None THEN [local EXCEPT ![t.name] = Current(t)]
                                       ELSE local
    BY <1>5
  <2>2. local \in [Names -> Images \cup {None}]
    BY DEF IInv, TypeOK
  <2>3. local' \in [Names -> Images \cup {None}]
    BY <1>2, <2>1, <2>2
  <2>4. TypeOK'
    BY <1>2, <1>5, <2>1, <2>3 DEF IInv, TypeOK
  <2>5. t.digest = None
          => Current(t) \in seen[t.name] /\ Current(t) \in ever[t.name]
    BY <1>2, <1>3, <1>5 DEF Stands, IInv, Histories
  <2>6. \A n \in Names : local'[n] = local[n] \/ (local'[n] \in seen[n] /\ local'[n] \in ever[n])
    BY <1>3, <2>1, <2>2, <2>5
  <2>7. Histories' /\ Stored'
    BY <2>1, <2>6 DEF IInv, Histories, Stored, Known
  <2>8. Selected' /\ Gathered' /\ Delivered'
    BY <2>1 DEF IInv, Selected, Gathered, Delivered
  <2>9. Fetched'
    <3> SUFFICES ASSUME NEW u \in wanted PROVE u \in todo' \/ Has(u)'
      BY <2>1 DEF Fetched
    <3>1. Proper(u)
      BY DEF IInv, Selected, Separate
    <3>2. CASE u = t
      BY <1>2, <1>3, <1>5, <2>1, <2>2, <2>5, <3>2 DEF Has, Stands
    <3>3. CASE Has(u)
      <4>1. u.digest = None => u.name \in Names
        BY <3>1, ProperTags
      <4> QED BY <2>1, <2>6, <3>3, <4>1 DEF Has
    <3>4. u \in todo \/ Has(u)
      BY <2>1 DEF IInv, Fetched
    <3> QED BY <2>1, <3>2, <3>3, <3>4
  <2> QED BY <2>4, <2>7, <2>8, <2>9 DEF IInv
<1> QED BY <1>4, <1>5

LEMMA PullsDoneIInv == IInv /\ PullsDone => IInv'
<1> SUFFICES ASSUME IInv, PullsDone PROVE IInv'
  OBVIOUS
<1> USE DEF PullsDone, sourceVars, callVars, daemonVars, targetVars
<1>1. TypeOK'
  BY DEF IInv, TypeOK
<1>2. Histories' /\ Stored'
  BY DEF IInv, Histories, Stored, Known
<1>3. Selected' /\ Fetched' /\ Delivered'
  BY DEF IInv, Selected, Fetched, Delivered, Has
<1>4. srcImages = {} /\ (tags # {} => wanted = tags)
  BY DEF IInv, Selected
<1>5. Gathered'
  BY <1>4 DEF Gathered
<1> QED BY <1>1, <1>2, <1>3, <1>5 DEF IInv

\* A listing that finds images of the tags it is about
LEMMA ListsIInv ==
    ASSUME IInv, pc = "list", NEW found, NEW rest, Lists(found, rest),
           UNCHANGED <<sourceVars, ts, wanted, tags, unpushed, daemonVars, targetVars>>,
           found \subseteq Images \X Tag, rest \subseteq todo,
           \A x \in found : Proper(x[2]) /\ x[1] \in Known(Place(x[2])),
           \A x \in found, t \in wanted : Place(x[2]) = Place(t) => x[1] \in Stands(t),
           \A t \in wanted : \/ tags # {} /\ (t \in todo => t \in rest)
                            \/ \E x \in found : x[2] = t
    PROVE  IInv'
<1> USE DEF Lists, sourceVars, daemonVars, targetVars
<1>1. srcImages' \subseteq srcImages \cup found
  OBVIOUS
<1>2. ~unlisted' => ~unlisted /\ srcImages' = srcImages \cup found
  BY DEF IInv, TypeOK
<1>3. faults' \in 0 .. MaxFaults /\ unlisted' \in BOOLEAN
  <2>1. faults \in 0 .. MaxFaults /\ unlisted \in BOOLEAN
    BY DEF IInv, TypeOK
  <2> QED BY <2>1, FaultBound
<1>4. todo' = rest /\ pc' = IF rest = {} THEN "tag" ELSE "list"
  OBVIOUS
<1>5. todo \subseteq tags /\ rest \subseteq tags
  BY DEF IInv, Selected
<1>6. TypeOK'
  BY <1>1, <1>3, <1>4 DEF IInv, TypeOK
<1>7. Histories' /\ Stored'
  BY <1>1 DEF IInv, Histories, Stored, Known
<1>8. Selected' /\ Fetched' /\ Delivered'
  BY <1>4, <1>5 DEF IInv, Selected, Fetched, Delivered, Has
<1>9. Gathered'
  <2>1. \A x \in srcImages', t \in wanted : Place(x[2]) = Place(t) => x[1] \in Stands(t)
    BY <1>1 DEF IInv, Gathered
  <2>2. ASSUME ~unlisted', NEW t \in wanted
        PROVE  t \in rest \/ \E x \in srcImages' : x[2] = t
    <3>1. CASE \E x \in found : x[2] = t
      BY <1>2, <2>2, <3>1
    <3>2. CASE tags # {} /\ (t \in todo => t \in rest)
      BY <1>2, <2>2, <3>2 DEF IInv, Gathered
    <3> QED BY <3>1, <3>2
  <2> QED BY <1>4, <2>1, <2>2 DEF Gathered, Stands
<1> QED BY <1>6, <1>7, <1>8, <1>9 DEF IInv

\* The images that match a proper tag
LEMMA MatchingFinds ==
    ASSUME IInv, NEW t, Proper(t)
    PROVE  \A x \in Matching(t) :
              x \in Images \X Tag /\ x[2] = t /\ x[1] \in Known(Place(t))
<1>1. CASE t.digest # None
  <2>1. Matching(t) = {<<i, t>> : i \in held \cap {t.digest}}
    BY <1>1 DEF Matching
  <2>2. t \in Tag /\ t.digest \in Images /\ t.digest \in Known(Place(t))
    BY <1>1, ProperTags DEF Proper, Known
  <2> QED BY <2>1, <2>2
<1>2. CASE t.digest = None
  <2>1. Matching(t) = {<<i, t>> : i \in {local[t.name]} \ {None}}
    BY <1>2 DEF Matching
  <2>2. t \in Tag /\ t.name \in Names /\ Place(t) = t.name
    BY <1>2, ProperTags DEF Proper
  <2>3. local[t.name] \in Images \cup {None} /\ local[t.name] \in ever[t.name] \cup {None}
    BY <2>2 DEF IInv, TypeOK, Stored
  <2> QED BY <2>1, <2>2, <2>3 DEF Known
<1> QED BY <1>1, <1>2

LEMMA MatchingIsFresh ==
    ASSUME IInv, NEW t \in wanted, Has(t)
    PROVE  /\ \A x \in Matching(t) : x[1] \in Stands(t)
           /\ \E x \in Matching(t) : x[2] = t
<1>1. Proper(t)
  BY DEF IInv, Selected, Separate
<1>2. CASE t.digest # None
  <2>1. Matching(t) = {<<i, t>> : i \in held \cap {t.digest}} /\ t.digest \in held
    BY <1>2 DEF Matching, Has
  <2>2. <<t.digest, t>> \in Matching(t) /\ <<t.digest, t>>[2] = t
    BY <2>1
  <2>3. \A x \in Matching(t) : x[1] = t.digest
    BY <2>1
  <2>4. Stands(t) = {t.digest}
    BY <1>2 DEF Stands
  <2> QED BY <2>2, <2>3, <2>4
<1>3. CASE t.digest = None
  <2>1. Matching(t) = {<<i, t>> : i \in {local[t.name]} \ {None}}
    BY <1>3 DEF Matching
  <2>2. local[t.name] \in seen[t.name] /\ t.name \in Names
    BY <1>1, <1>3, ProperTags DEF Has
  <2>3. local[t.name] # None
    BY <2>2, NoneAssumption DEF IInv, Histories
  <2>4. <<local[t.name], t>> \in Matching(t) /\ <<local[t.name], t>>[2] = t
    BY <2>1, <2>3
  <2>5. \A x \in Matching(t) : x[1] = local[t.name]
    BY <2>1
  <2>6. Stands(t) = seen[t.name]
    BY <1>3 DEF Stands
  <2> QED BY <2>2, <2>4, <2>5, <2>6
<1> QED BY <1>2, <1>3

LEMMA ListIInv == IInv /\ List => IInv'
<1> SUFFICES ASSUME IInv, List PROVE IInv'
  OBVIOUS
<1>1. /\ pc = "list"
      /\ UNCHANGED <<sourceVars, ts, wanted, tags, unpushed, daemonVars, targetVars>>
  BY DEF List
<1>2. /\ \A t \in wanted : Proper(t) /\ Has(t)
      /\ \A t, u \in wanted : Place(t) = Place(u) => t = u
  BY <1>1 DEF IInv, Selected, Separate, Fetched
<1>3. CASE tags = {} /\ Lists(AllMatching, {})
  <2>1. \A x \in AllMatching :
            \E n \in Names : x \in Matching(Plain(n)) /\ x[2] = Plain(n)
    <3> SUFFICES ASSUME NEW n \in Names, NEW x \in Matching(Plain(n))
                 PROVE  x[2] = Plain(n)
      BY DEF AllMatching
    <3> QED BY MatchingFinds, PlainTags
  <2>2. \A x \in AllMatching :
            x \in Images \X Tag /\ Proper(x[2]) /\ x[1] \in Known(Place(x[2]))
    BY <2>1, MatchingFinds, PlainTags
  <2>3. ASSUME NEW x \in AllMatching, NEW t \in wanted, Place(x[2]) = Place(t)
        PROVE  x[1] \in Stands(t)
    <3>1. PICK n \in Names : x \in Matching(Plain(n)) /\ x[2] = Plain(n)
      BY <2>1
    <3>2. t.digest = None /\ t = Plain(t.name) /\ Place(t) = t.name
      BY <1>1, <1>2, <1>3, ProperTags DEF IInv, Selected
    <3>3. t = Plain(n)
      BY <2>3, <3>1, <3>2, PlainTags
    <3> QED BY <1>2, <3>1, <3>3, MatchingIsFresh
  <2>4. ASSUME NEW t \in wanted
        PROVE  \E x \in AllMatching : x[2] = t
    <3>1. t.digest = None /\ t = Plain(t.name) /\ t.name \in Names
      BY <1>1, <1>2, <1>3, ProperTags DEF IInv, Selected
    <3>2. \E x \in Matching(t) : x[2] = t
      BY <1>2, MatchingIsFresh
    <3>3. Matching(t) \subseteq AllMatching
      BY <3>1 DEF AllMatching
    <3> QED BY <3>2, <3>3
  <2> QED BY <1>1, <1>3, <2>2, <2>3, <2>4, ListsIInv
<1>4. ASSUME NEW u \in todo, Lists(Matching(u), todo \ {u})
      PROVE  IInv'
  <2>1. tags # {} /\ u \in wanted
    BY <1>1 DEF IInv, Selected
  <2>2. \A x \in Matching(u) :
            x \in Images \X Tag /\ x[2] = u /\ x[1] \in Known(Place(u))
    BY <1>2, <2>1, MatchingFinds
  <2>3. /\ \A x \in Matching(u) : x[1] \in Stands(u)
        /\ \E x \in Matching(u) : x[2] = u
    BY <1>2, <2>1, MatchingIsFresh
  <2>4. \A x \in Matching(u), t \in wanted : Place(x[2]) = Place(t) => x[1] \in Stands(t)
    BY <1>2, <2>1, <2>2, <2>3
  <2>5. \A t \in wanted : \/ tags # {} /\ (t \in todo => t \in todo \ {u})
                          \/ \E x \in Matching(u) : x[2] = t
    BY <2>1, <2>3
  <2> QED BY <1>1, <1>2, <1>4, <2>1, <2>2, <2>4, <2>5, ListsIInv
<1> QED BY <1>3, <1>4 DEF List

LEMMA TagImageIInv == IInv /\ TagImage => IInv'
<1> SUFFICES ASSUME IInv, TagImage PROVE IInv'
  OBVIOUS
<1> USE DEF TagImage, TargetTag, sourceVars, callVars, targetVars
<1>1. PICK found \in srcImages :
         /\ staged' = [staged EXCEPT ![Place(found[2])] = found[1]]
         /\ srcImages' = srcImages \ {found}
  OBVIOUS
<1>2. /\ found \in Images \X Tag /\ Proper(found[2])
      /\ found[1] \in Known(Place(found[2])) /\ found[1] \in Images
  BY DEF IInv, TypeOK, Stored
<1>3. Place(found[2]) \in Places
  BY <1>2 DEF Proper
<1>4. staged \in [Places -> Images \cup {None}]
  BY DEF IInv, TypeOK
<1>5. /\ staged' \in [Places -> Images \cup {None}]
      /\ staged'[Place(found[2])] = found[1]
      /\ \A p \in Places : p # Place(found[2]) => staged'[p] = staged[p]
  BY <1>1, <1>2, <1>3, <1>4
<1>6. TypeOK'
  BY <1>1, <1>5 DEF IInv, TypeOK
<1>7. Histories' /\ Stored'
  BY <1>1, <1>2, <1>5 DEF IInv, Histories, Stored, Known
<1>8. Selected' /\ Fetched' /\ Delivered'
  BY DEF IInv, Selected, Fetched, Delivered
<1>9. Gathered'
  <2>1. \A x \in srcImages', t \in wanted : Place(x[2]) = Place(t) => x[1] \in Stands(t)
    BY <1>1 DEF IInv, Gathered
  <2>2. ASSUME ~unlisted, NEW t \in wanted
        PROVE  \/ \E x \in srcImages' : Place(x[2]) = Place(t)
               \/ staged'[Place(t)] \in Stands(t)
    <3>1. CASE Place(found[2]) = Place(t)
      <4>1. found[1] \in Stands(t)
        BY <3>1 DEF IInv, Gathered
      <4> QED BY <1>5, <3>1, <4>1
    <3>2. CASE Place(found[2]) # Place(t)
      <4>1. Place(t) \in Places
        BY DEF IInv, Selected, Separate, Proper
      <4>2. \/ \E x \in srcImages : Place(x[2]) = Place(t)
            \/ staged[Place(t)] \in Stands(t)
        BY <2>2 DEF IInv, Gathered
      <4> QED BY <1>1, <1>5, <3>2, <4>1, <4>2
    <3> QED BY <3>1, <3>2
  <2> QED BY <2>1, <2>2 DEF Gathered, Stands
<1> QED BY <1>6, <1>7, <1>8, <1>9 DEF IInv

LEMMA PushAllIInv == IInv /\ PushAll => IInv'
<1> SUFFICES ASSUME IInv, PushAll PROVE IInv'
  OBVIOUS
<1> USE DEF PushAll, sourceVars, callVars, daemonVars, targetVars
<1>1. TypeOK'
  BY DEF IInv, TypeOK
<1>2. Histories' /\ Stored'
  BY DEF IInv, Histories, Stored, Known
<1>3. Selected' /\ Fetched' /\ Gathered'
  BY DEF IInv, Selected, Fetched, Gathered
<1>4. Delivered'
  <2>1. copied = {}
    BY DEF IInv, Delivered
  <2>2. ASSUME ~unlisted, NEW t \in wanted
        PROVE  Place(t) \in unpushed' /\ staged[Place(t)] \in Stands(t)
    <3>1. staged[Place(t)] \in Stands(t)
      BY <2>2 DEF IInv, Gathered
    <3>2. Proper(t) /\ Place(t) \in Places
      BY DEF IInv, Selected, Separate, Proper
    <3>3. Stands(t) \subseteq Images
      BY <3>2, ProperTags DEF Stands, IInv, Histories
    <3>4. staged[Place(t)] # None
      BY <3>1, <3>3, NoneAssumption
    <3> QED BY <3>1, <3>2, <3>4
  <2> QED BY <2>1, <2>2 DEF Delivered, Stands
<1> QED BY <1>1, <1>2, <1>3, <1>4 DEF IInv

LEMMA PushIInv == ASSUME IInv, NEW p \in unpushed, Push(p) PROVE IInv'
<1> USE DEF Push, sourceVars, callVars, daemonVars
<1>1. p \in Places /\ staged[p] \in Images \cup {None}
  BY DEF IInv, TypeOK
<1>2. target' \in [Places -> Images \cup {None}]
  BY <1>1 DEF IInv, TypeOK
<1>3. copied' \subseteq wanted
  BY DEF IInv, TypeOK
<1>4. TypeOK'
  BY <1>2, <1>3 DEF IInv, TypeOK
<1>5. Histories' /\ Stored'
  BY DEF IInv, Histories, Stored, Known
<1>6. Selected' /\ Fetched' /\ Gathered'
  BY DEF IInv, Selected, Fetched, Gathered
<1>7. Delivered'
  <2>1. \A t \in copied' : Place(t) \notin unpushed'
    BY DEF IInv, Delivered
  <2>2. ASSUME ~unlisted, NEW t \in wanted
        PROVE  t \in copied' \/ (Place(t) \in unpushed' /\ staged[Place(t)] \in Stands(t))
    <3>1. t \in copied \/ (Place(t) \in unpushed /\ staged[Place(t)] \in Stands(t))
      BY <2>2 DEF IInv, Delivered
    <3>2. t \in copied => Place(t) # p
      BY DEF IInv, Delivered
    <3> QED BY <3>1, <3>2
  <2>3. \A q \in unpushed' : staged[q] # None
    BY DEF IInv, Delivered
  <2> QED BY <2>1, <2>2, <2>3 DEF Delivered, Stands
<1> QED BY <1>4, <1>5, <1>6, <1>7 DEF IInv

LEMMA ReturnIInv == IInv /\ Return => IInv'
<1> SUFFICES ASSUME IInv, Return PROVE IInv'
  OBVIOUS
<1> USE DEF Return, sourceVars, callVars, loopVars, daemonVars, targetVars
<1>1. TypeOK'
  BY DEF IInv, TypeOK
<1>2. Histories' /\ Stored'
  BY DEF IInv, Histories, Stored, Known
<1>3. Selected' /\ Fetched' /\ Gathered' /\ Delivered'
  BY DEF IInv, Selected, Fetched, Gathered, Delivered
<1> QED BY <1>1, <1>2, <1>3 DEF IInv

LEMMA ChangeIInv == IInv /\ Change => IInv'
<1> SUFFICES ASSUME IInv, Change PROVE IInv'
  OBVIOUS
<1>1. PICK n \in Names, i \in Images \cup {None} : SourceChange(n, i)
  BY DEF Change
<1>2. UNCHANGED <<pc, ts, wanted, unlisted, tags, todo, srcImages, unpushed,
                  local, held, staged, target, copied, faults>>
  BY DEF Change, callVars, loopVars, daemonVars, targetVars
<1>3. /\ source' \in [Names -> Images \cup {None}]
      /\ Histories'
      /\ \A m \in Names : seen[m] \subseteq seen'[m] /\ ever[m] \subseteq ever'[m]
  BY <1>1, ChangeGrows DEF IInv, TypeOK
<1>4. changes' \in 0 .. MaxChanges
  <2>1. changes \in 0 .. MaxChanges
    BY DEF IInv, TypeOK
  <2> QED BY <1>1, <2>1, ChangesAssumption DEF SourceChange
<1>5. TypeOK'
  BY <1>2, <1>3, <1>4 DEF IInv, TypeOK
<1>6. \A p : Known(p) \subseteq Known(p)'
  BY <1>3 DEF Known
<1>7. \A t \in wanted : Stands(t) \subseteq Stands(t)' /\ (Has(t) => Has(t)')
  <2> SUFFICES ASSUME NEW t \in wanted
               PROVE  Stands(t) \subseteq Stands(t)' /\ (Has(t) => Has(t)')
    BY <1>2
  <2>1. t.digest # None \/ t.name \in Names
    BY ProperTags DEF IInv, Selected, Separate
  <2> QED BY <1>2, <1>3, <2>1 DEF Stands, Has
<1>8. Stored'
  BY <1>2, <1>3, <1>6 DEF IInv, Stored, Proper
<1>9. Selected'
  BY <1>2 DEF IInv, Selected
<1>10. Fetched'
  BY <1>2, <1>7 DEF IInv, Fetched
<1>11. Gathered'
  <2>1. \A x \in srcImages, t \in wanted :
            x[1] \in Stands(t) => x[1] \in Stands(t)'
    BY <1>7
  <2>2. \A t \in wanted :
            staged[Place(t)] \in Stands(t) => staged[Place(t)] \in Stands(t)'
    BY <1>7
  <2> HIDE DEF Stands
  <2> QED BY <1>2, <2>1, <2>2 DEF IInv, Gathered
<1>12. Delivered'
  BY <1>2, <1>7 DEF IInv, Delivered
<1> QED BY <1>3, <1>5, <1>8, <1>9, <1>10, <1>11, <1>12 DEF IInv

LEMMA StepIInv == IInv /\ [Next]_vars => IInv'
<1> SUFFICES ASSUME IInv, [Next]_vars PROVE IInv'
  OBVIOUS
<1>1. CASE UNCHANGED vars
  <2> USE <1>1 DEF vars, sourceVars, callVars, loopVars, daemonVars, targetVars
  <2>1. TypeOK' /\ Histories' /\ Selected'
    BY DEF IInv, TypeOK, Histories, Selected
  <2>2. Stored'
    BY DEF IInv, Stored, Known
  <2>3. Fetched'
    BY DEF IInv, Fetched, Has, Stands
  <2>4. Gathered'
    BY DEF IInv, Gathered, Stands
  <2>5. Delivered'
    BY DEF IInv, Delivered, Stands
  <2> QED BY <2>1, <2>2, <2>3, <2>4, <2>5 DEF IInv
<1>2. CASE \E t \in todo : Pull(t)
  BY <1>2, PullIInv
<1>3. CASE \E p \in unpushed : Push(p)
  BY <1>3, PushIInv
<1> QED BY <1>1, <1>2, <1>3, SyncIInv, ExpandIInv, FailsIInv, PullAllIInv,
           PullsDoneIInv, ListIInv, TagImageIInv, PushAllIInv, ReturnIInv,
           ChangeIInv DEF Next, Relaying

LEMMA Invariance == Spec => []IInv
BY InitIInv, StepIInv, PTL DEF Spec

\* All variables of the Docker relay keep their types.
THEOREM TypeCorrect == Spec => []TypeOK
<1>1. IInv => TypeOK
  BY DEF IInv
<1> QED BY <1>1, Invariance, PTL

-----------------------------------------------------------------------------
(* What the relay promises                                                 *)

\* The module Relay speaks of the same tags and places.
LEMMA SameTags ==
    /\ Promise!Places = Places
    /\ \A t : Promise!Place(t) = Place(t) /\ Promise!Stands(t) = Stands(t)
    /\ \A p : Promise!Known(p) = Known(p)
<1>1. Promise!Places = Places
  BY DEF Promise!Places, Places
<1>2. \A t : Promise!Place(t) = Place(t)
  BY DEF Promise!Place, Place
<1>3. \A t : Promise!Stands(t) = Stands(t)
  BY DEF Promise!Stands, Stands
<1>4. \A p : Promise!Known(p) = Known(p)
  BY <1>2 DEF Promise!Known, Known
<1> QED BY <1>1, <1>2, <1>3, <1>4

LEMMA SameSource ==
    /\ Promise!Listed = Listed
    /\ Promise!Now = Now
    /\ \A s, listed : Promise!Expand(s, listed) = Expand(s, listed)
    /\ \A n, i : Promise!SourceChange(n, i) <=> SourceChange(n, i)
    /\ Promise!SourceInit <=> SourceInit
<1>1. Promise!Listed = Listed
  BY DEF Promise!Listed, Listed
<1>2. Promise!Now = Now
  BY DEF Promise!Now, Now
<1>3. \A s, listed : Promise!Expand(s, listed) = Expand(s, listed)
  <2>1. \A S : Promise!Cardinality(S) = Cardinality(S)
    BY DEF Promise!Cardinality, Cardinality
  <2>2. \A limit, S : Promise!Newest(limit, S) = Newest(limit, S)
    BY <2>1 DEF Promise!Newest, Newest
  <2> QED BY <2>2 DEF Promise!Expand, Expand, Promise!NeedsExpansion,
      NeedsExpansion, Promise!IsEmpty, IsEmpty, Promise!Plain, Plain
<1>4. \A n, i : Promise!SourceChange(n, i) <=> SourceChange(n, i)
  BY DEF Promise!SourceChange, SourceChange
<1>5. Promise!SourceInit <=> SourceInit
  BY <1>2 DEF Promise!SourceInit, SourceInit
<1> QED BY <1>1, <1>2, <1>3, <1>4, <1>5

\* What a push brings to the target is what the promise says it brings.
LEMMA PushRefines ==
    ASSUME IInv, NEW p \in unpushed, Push(p) PROVE Promise!Next
<1>1. p \in Places /\ staged[p] \in Images /\ staged[p] \in Known(p)
  BY DEF IInv, TypeOK, Stored, Delivered, Push
<1>2. Phase = "running" /\ Phase' = "running"
  BY DEF Phase, Push
<1>3. UNCHANGED <<Promise!sourceVars, Phase, ts, wanted>>
  BY <1>2 DEF Push, callVars, sourceVars, Promise!sourceVars
<1>4. Promise!Known(p) = Known(p) /\ p \in Promise!Places
  BY <1>1, SameTags
<1>5. copied' = {t \in copied : Promise!Place(t) # p}
                \cup {t \in wanted : /\ Promise!Place(t) = p
                                    /\ staged[p] \in Promise!Stands(t)}
  BY SameTags DEF Push
<1>6. Promise!Write(p, staged[p])
  BY <1>1, <1>2, <1>3, <1>4, <1>5 DEF Push, Promise!Write
<1> QED BY <1>1, <1>4, <1>6 DEF Promise!Next

\* With a listing of all tags the call begins to work on them, unless it has
\* begun before, with a tag set of which nothing was left; without any tag in
\* the source it may fail.
LEMMA PullAllRefines == IInv /\ PullAll => Promise!Next \/ UNCHANGED Promise!vars
<1> SUFFICES ASSUME IInv, PullAll PROVE Promise!Next \/ UNCHANGED Promise!vars
  OBVIOUS
<1> USE DEF PullAll, Promise!vars, Promise!relayVars, Promise!sourceVars, sourceVars,
        daemonVars, targetVars
<1>1. wanted = {} /\ (pc = "pull all" => ~IsEmpty(ts))
  BY DEF IInv, Selected
<1>2. CASE pc' = "error"
  <2>1. Phase \in {"called", "running"} /\ Phase' = "error"
    BY <1>2 DEF Phase
  <2>2. Listed = {}
    BY <1>2
  <2>3. wanted' = {}
    BY <1>1, <2>2, EmptyExpands
  <2>4. Promise!Return
    BY <1>1, <2>1, <2>3 DEF Promise!Return
  <2> QED BY <2>4 DEF Promise!Next
<1>3. CASE pc' = "pull" /\ pc = "expand"
  <2>1. Phase = "called" /\ Phase' = "running"
    BY <1>3 DEF Phase
  <2>2. Promise!Plan
    BY <1>3, <2>1, SameSource DEF Promise!Plan
  <2> QED BY <2>2 DEF Promise!Next
<1>4. CASE pc' = "pull" /\ pc = "pull all"
  <2>1. Phase = Phase'
    BY <1>4 DEF Phase
  <2> QED BY <1>1, <1>4, <2>1
<1> QED BY <1>2, <1>3, <1>4

LEMMA InitRefines == Init => Promise!Init
<1>1. Init => Phase = "ok"
  BY DEF Init, Phase
<1>2. Init => Promise!SourceInit /\ target = [p \in Promise!Places |-> None]
  BY SameTags, SameSource DEF Init
<1>3. Init => ts \in TagSets /\ wanted = {} /\ copied = {}
  BY DEF Init
<1> QED BY <1>1, <1>2, <1>3 DEF Promise!Init

\* Every step is one that the promise allows, or leaves all it speaks of alone.
LEMMA StepRefines == IInv /\ [Next]_vars => [Promise!Next]_Promise!vars
<1> SUFFICES ASSUME IInv, [Next]_vars PROVE [Promise!Next]_Promise!vars
  OBVIOUS
<1> USE DEF Promise!vars, Promise!relayVars, Promise!sourceVars, sourceVars,
        callVars, loopVars, daemonVars, targetVars
<1>1. CASE Sync
  <2>1. Phase \in {"ok", "error"} /\ Phase' = "called"
    BY <1>1 DEF Sync, Phase
  <2>2. Promise!Call
    BY <1>1, <2>1, SameSource DEF Sync, Promise!Call
  <2> QED BY <2>2 DEF Promise!Next
<1>2. CASE ExpandTags
  <2>1. Phase = "called" /\ Phase' = "running"
    BY <1>2 DEF ExpandTags, Phase
  <2>2. Promise!Plan
    BY <1>2, <2>1, SameSource DEF ExpandTags, Promise!Plan
  <2> QED BY <2>2 DEF Promise!Next
<1>3. CASE Fails
  <2>1. Phase \in {"called", "running"} /\ Phase' = "error"
    BY <1>3 DEF Fails, Phase
  <2>2. Promise!Return
    BY <1>3, <2>1 DEF Fails, Promise!Return
  <2> QED BY <2>2 DEF Promise!Next
<1>4. CASE PullAll
  BY <1>4, PullAllRefines
<1>5. CASE \E t \in todo : Pull(t)
  <2>1. PICK t \in todo : Pull(t)
    BY <1>5
  <2>2. CASE pc' = "pull"
    <3>1. Phase = Phase'
      BY <2>1, <2>2 DEF Pull, Phase
    <3> QED BY <2>1, <3>1 DEF Pull
  <2>3. CASE pc' = "error"
    <3>1. Phase = "running" /\ Phase' = "error"
      BY <2>1, <2>3 DEF Pull, Phase
    <3>2. Promise!Return
      BY <2>1, <3>1 DEF Pull, Promise!Return
    <3> QED BY <3>2 DEF Promise!Next
  <2>4. pc' = "pull" \/ pc' = "error"
    BY <2>1 DEF Pull
  <2> QED BY <2>2, <2>3, <2>4
<1>6. CASE PullsDone
  <2>1. Phase = Phase'
    BY <1>6 DEF PullsDone, Phase
  <2> QED BY <1>6, <2>1 DEF PullsDone
<1>7. CASE List
  <2>1. pc = "list" /\ pc' \in {"list", "tag"}
    BY <1>7 DEF List, Lists
  <2>2. Phase = Phase'
    BY <2>1 DEF Phase
  <2> QED BY <1>7, <2>2 DEF List
<1>8. CASE TagImage
  <2>1. Phase = Phase'
    BY <1>8 DEF TagImage, Phase
  <2> QED BY <1>8, <2>1 DEF TagImage
<1>9. CASE PushAll
  <2>1. CASE pc' = "push"
    <3>1. Phase = Phase'
      BY <1>9, <2>1 DEF PushAll, Phase
    <3> QED BY <1>9, <3>1 DEF PushAll
  <2>2. CASE pc' = "error"
    <3>1. Phase = "running" /\ Phase' = "error"
      BY <1>9, <2>2 DEF PushAll, Phase
    <3>2. Promise!Return
      BY <1>9, <3>1 DEF PushAll, Promise!Return
    <3> QED BY <3>2 DEF Promise!Next
  <2>3. pc' = "push" \/ pc' = "error"
    BY <1>9 DEF PushAll
  <2> QED BY <2>1, <2>2, <2>3
<1>10. CASE \E p \in unpushed : Push(p)
  BY <1>10, PushRefines
<1>11. CASE Return
  <2>1. Phase = "running" /\ Phase' = IF unlisted THEN "error" ELSE "ok"
    BY <1>11 DEF Return, Phase
  <2>2. ~unlisted => copied = wanted
    BY <1>11 DEF Return, IInv, Delivered, TypeOK
  <2>3. Promise!Return
    BY <1>11, <2>1, <2>2 DEF Return, Promise!Return
  <2> QED BY <2>3 DEF Promise!Next
<1>12. CASE Change
  <2>1. Phase = Phase'
    BY <1>12 DEF Change, Phase
  <2>2. Promise!Change
    BY <1>12, <2>1, SameSource DEF Change, Promise!Change
  <2> QED BY <2>2 DEF Promise!Next
<1>13. CASE UNCHANGED vars
  BY <1>13 DEF vars, Phase
<1> QED BY <1>1, <1>2, <1>3, <1>4, <1>5, <1>6, <1>7, <1>8, <1>9, <1>10, <1>11,
           <1>12, <1>13 DEF Next, Relaying

\* For all names, images and tag sets, the Docker relay keeps the promise of a
\* relay.
THEOREM Refinement == Spec => KeepsPromise
BY InitRefines, StepRefines, Invariance, PTL DEF Spec, KeepsPromise, Promise!Spec
=============================================================================
