-------------------------- MODULE ImageTagsProofs ---------------------------
(***************************************************************************)
(* What is true of the tags of ImageTags for all names, images and tag     *)
(* sets, whichever relay works on them.                                    *)
(***************************************************************************)
EXTENDS ImageTags, TLAPS

Histories ==
    /\ seen \in [Names -> SUBSET Images]
    /\ ever \in [Names -> SUBSET Images]
    /\ \A n \in Names : /\ seen[n] \subseteq ever[n]
                        /\ source[n] \in seen[n] \cup {None}

\* A tag that a tag set selects goes somewhere, and nowhere where another goes.
Proper(t) ==
    /\ t \in Tag
    /\ Place(t) \in Places
    /\ t.digest # None => t \in UNION {s.verbatim : s \in TagSets}

Separate(S) ==
    /\ \A t \in S : Proper(t)
    /\ \A t, u \in S : Place(t) = Place(u) => t = u

-----------------------------------------------------------------------------
(* The tags of a tag set                                                   *)

LEMMA NewestSelects ==
    ASSUME NEW limit, NEW S PROVE Newest(limit, S) \subseteq S
BY DEF Newest

LEMMA PlainTags ==
    ASSUME NEW n \in Names
    PROVE  /\ Plain(n) \in Tag
           /\ Plain(n).name = n /\ Plain(n).digest = None
           /\ Place(Plain(n)) = n /\ n \in Places
           /\ Proper(Plain(n))
BY NoneAssumption DEF Plain, Tag, Place, Places, Proper

LEMMA ProperTags ==
    ASSUME NEW t, Proper(t)
    PROVE  /\ t.digest # None => t.digest \in Images
           /\ t.digest = None => t.name \in Names /\ Place(t) = t.name
BY NoneAssumption DEF Proper, Tag, Place, Places

\* The tags that Expand() returns can be told apart by where they go.
LEMMA ExpandSeparates ==
    ASSUME NEW s \in TagSets, NEW listed \in SUBSET Names
    PROVE  Separate(Expand(s, listed))
<1> DEFINE found == IF ~NeedsExpansion(s) THEN {}
                    ELSE IF s.filters THEN listed \cap s.matches
                    ELSE listed
           new == Newest(s.limit, found \cap s.keep)
           plain == {Plain(n) : n \in new}
<1>1. Expand(s, listed) = plain \cup s.verbatim
  BY DEF Expand
<1>2. new \subseteq found /\ found \subseteq Names
  <2>1. new \subseteq found \cap s.keep
    BY NewestSelects
  <2> QED BY <2>1
<1>3. s.verbatim \subseteq Tag
  BY TagSetsAssumption
<1>4. \A t \in s.verbatim : Place(t) \in Places
  BY TagSetsAssumption
<1>5. \A t, u \in s.verbatim : Place(t) = Place(u) => t = u
  BY TagSetsAssumption
<1>6. \A t \in s.verbatim : t.digest # None => t.name \notin s.matches
  BY TagSetsAssumption
<1>7. \A t \in plain : /\ t \in Tag /\ t.digest = None
                       /\ t.name \in new /\ Place(t) = t.name
                       /\ t.name \in Names
                       /\ Place(t) \in Places /\ t = Plain(t.name)
  <2> SUFFICES ASSUME NEW n \in new
               PROVE  /\ Plain(n) \in Tag /\ Plain(n).digest = None
                      /\ Plain(n).name = n
                      /\ Place(Plain(n)) = n
                      /\ n \in Names /\ n \in Places
    OBVIOUS
  <2>1. n \in Names
    BY <1>2
  <2> QED BY <2>1, PlainTags
<1>8. \A t \in plain, u \in s.verbatim : Place(t) = Place(u) => t = u
  <2> SUFFICES ASSUME NEW t \in plain, NEW u \in s.verbatim,
                      Place(t) = Place(u)
               PROVE  t = u
    OBVIOUS
  <2>1. t.name \in found /\ t.name \in Names /\ Place(u) = t.name
    BY <1>2, <1>7
  <2>2. s.filters /\ t.name \in s.matches
    <3>1. NeedsExpansion(s)
      BY <2>1
    <3>2. s.filters
      BY <3>1 DEF NeedsExpansion, IsEmpty
    <3> QED BY <2>1, <3>1, <3>2
  <2>3. u \in Tag
    BY <1>3
  <2>4. u.name = t.name
    <3>1. u.digest \in Images \cup {None} /\ u.name \in Names \cup {None}
      BY <2>3 DEF Tag
    <3> QED BY <2>1, <3>1, NoneAssumption, PlacesAssumption DEF Place
  <2>5. u.digest = None
    BY <1>6, <2>2, <2>4
  <2>6. u = Plain(u.name)
    BY <2>3, <2>5 DEF Plain, Tag
  <2> QED BY <1>7, <2>4, <2>6
<1> HIDE DEF plain
<1>9. \A t \in Expand(s, listed) :
         t.digest # None => t \in UNION {r.verbatim : r \in TagSets}
  BY <1>1, <1>7
<1>10. Expand(s, listed) \subseteq Tag
  BY <1>1, <1>3, <1>7
<1>11. \A t \in Expand(s, listed) : Place(t) \in Places
  BY <1>1, <1>4, <1>7
<1>12. \A t, u \in plain : Place(t) = Place(u) => t = u
  BY <1>7
<1>13. \A t, u \in Expand(s, listed) : Place(t) = Place(u) => t = u
  BY <1>1, <1>5, <1>8, <1>12
<1> QED BY <1>9, <1>10, <1>11, <1>13 DEF Separate, Proper

\* No tags given: all that are listed.
LEMMA EmptyExpands ==
    ASSUME NEW s, IsEmpty(s), NEW listed
    PROVE  Expand(s, listed) \subseteq {Plain(n) : n \in listed}
<1>1. Newest(s.limit, listed \cap s.keep) \subseteq listed \cap s.keep
  BY NewestSelects
<1>2. Expand(s, listed) = {Plain(n) : n \in Newest(s.limit, listed \cap s.keep)}
  BY DEF Expand, NeedsExpansion, IsEmpty
<1> QED BY <1>1, <1>2

-----------------------------------------------------------------------------
(* The source                                                              *)

LEMMA ListedNames == Listed \in SUBSET Names
BY DEF Listed

LEMMA SourceTypes ==
    ASSUME SourceInit
    PROVE  source \in [Names -> Images \cup {None}] /\ Histories
<1>1. source \in [Names -> Images \cup {None}]
  BY DEF SourceInit
<1>2. \A n \in Names : source[n] \in Images \cup {None}
  BY <1>1
<1>3. seen = [n \in Names |-> {source[n]} \ {None}] /\ ever = seen
  BY DEF SourceInit, Now
<1> QED BY <1>1, <1>2, <1>3 DEF Histories

\* A change of the source adds to what has been seen there.
LEMMA ChangeGrows ==
    ASSUME NEW n \in Names, NEW i \in Images \cup {None}, SourceChange(n, i),
           source \in [Names -> Images \cup {None}], Histories
    PROVE  /\ source' \in [Names -> Images \cup {None}]
           /\ Histories'
           /\ \A m \in Names : seen[m] \subseteq seen'[m] /\ ever[m] \subseteq ever'[m]
BY DEF SourceChange, Histories

\* What is found for a tag is one of the images it may stand for.
LEMMA FoundIsKnown ==
    ASSUME source \in [Names -> Images \cup {None}], Histories, NEW t, Proper(t)
    PROVE  /\ Current(t) \in Images \cup {None}
           /\ Current(t) # None
                => Current(t) \in Stands(t) /\ Current(t) \in Known(Place(t))
<1>1. CASE t.digest # None
  <2>1. Current(t) = t.digest /\ t.digest \in Images
    BY <1>1, ProperTags DEF Current
  <2>2. Current(t) \in Stands(t)
    BY <1>1, <2>1 DEF Stands
  <2>3. Current(t) \in Known(Place(t))
    BY <1>1, <2>1 DEF Known, Proper
  <2> QED BY <2>1, <2>2, <2>3
<1>2. CASE t.digest = None
  <2>1. t.name \in Names /\ Place(t) = t.name
    BY <1>2, ProperTags
  <2>2. Current(t) = source[t.name]
    BY <1>2 DEF Current
  <2>3. source[t.name] \in seen[t.name] \cup {None} /\ seen[t.name] \subseteq ever[t.name]
    BY <2>1 DEF Histories
  <2>4. source[t.name] \in Images \cup {None}
    BY <2>1
  <2> QED BY <1>2, <2>1, <2>2, <2>3, <2>4 DEF Stands, Known
<1> QED BY <1>1, <1>2
=============================================================================
