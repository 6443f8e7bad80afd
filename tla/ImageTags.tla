----------------------------- MODULE ImageTags ------------------------------
(***************************************************************************)
(* What a relay works on: the tags of one image reference in the source    *)
(* registry, which others change at any time, the tag set of a mapping,    *)
(* and the rules for tags with digests (internal/pkg/util/util.go). How a  *)
(* tag set is expanded is the subject of module TagSet; here it is one     *)
(* step, as KeepsLatest of that module has it.                             *)
(*                                                                         *)
(* An image is identified by its digest. A name is a number, larger for a  *)
(* later version. A tag is a pair of a name and a digest, either of which  *)
(* may be missing.                                                         *)
(***************************************************************************)
EXTENDS Integers, FiniteSets

CONSTANTS
    Names,      \* the names tags may have
    Images,     \* the images there are
    None,       \* no name, no digest, no image
    TagSets,    \* the tag sets of the calls
    MaxChanges  \* bound on the number of changes in the source registry

ASSUME NamesAssumption == Names \subseteq Nat /\ IsFiniteSet(Names)
ASSUME NoneAssumption == None \notin Names \cup Images
ASSUME PlacesAssumption == Names \cap Images = {}
ASSUME ChangesAssumption == MaxChanges \in Nat

Tag == [name : Names \cup {None}, digest : Images \cup {None}]

Plain(n) == [name |-> n, digest |-> None]

\* Where a tag goes in the target: to its name if it has one, otherwise to a
\* place of its own for the digest.
Place(tag) == IF tag.name # None THEN tag.name ELSE tag.digest
Places == Names \cup Images

\* A limit goes with filters only, and no two tags go to the same place: the
\* other cases, in which a tag is selected twice, belong to module TagSet.
ASSUME TagSetsAssumption ==
    \A ts \in TagSets :
        /\ ts.filters \in BOOLEAN
        /\ ts.matches \subseteq Names /\ ts.keep \subseteq Names
        /\ ts.limit \in Nat /\ (ts.limit > 0 => ts.verbatim = {})
        /\ ts.verbatim \subseteq Tag
        /\ \A tag \in ts.verbatim :
              /\ Place(tag) \in Places
              /\ tag.digest # None => tag.name \notin ts.matches
              /\ \A other \in ts.verbatim :
                    Place(tag) = Place(other) => tag = other

IsEmpty(ts) == ~ts.filters /\ ts.verbatim = {}
NeedsExpansion(ts) == IsEmpty(ts) \/ ts.filters

Newest(limit, S) ==
    IF limit = 0 THEN S
    ELSE {n \in S : Cardinality({later \in S : later > n}) < limit}

Expand(ts, listed) ==
    LET found == IF ~NeedsExpansion(ts) THEN {}
                 ELSE IF ts.filters THEN listed \cap ts.matches
                 ELSE listed
    IN {Plain(n) : n \in Newest(ts.limit, found \cap ts.keep)} \cup ts.verbatim

VARIABLES
    source,     \* source[n]: the image with that name in the source, or None
    changes,    \* number of changes of it so far
    (* history *)
    seen,       \* seen[n]: the images that had the name in this call
    ever        \* ever[n]: those that had it at any time

sourceVars == <<source, changes, seen, ever>>

Now == [n \in Names |-> {source[n]} \ {None}]

SourceInit ==
    /\ source \in [Names -> Images \cup {None}]
    /\ changes = 0
    /\ seen = Now
    /\ ever = Now

\* Somebody pushes an image to the source, or removes a name there.
SourceChange(n, image) ==
    /\ changes < MaxChanges
    /\ image # source[n]
    /\ source' = [source EXCEPT ![n] = image]
    /\ changes' = changes + 1
    /\ seen' = [seen EXCEPT ![n] = @ \cup ({image} \ {None})]
    /\ ever' = [ever EXCEPT ![n] = @ \cup ({image} \ {None})]

Listed == {n \in Names : source[n] # None}

\* What a tag stands for in this call: with a digest the name does not count.
Stands(tag) == IF tag.digest # None THEN {tag.digest} ELSE seen[tag.name]

\* What it refers to at this moment, None if there is no such image
Current(tag) == IF tag.digest # None THEN tag.digest ELSE source[tag.name]

\* The images that may ever be found at a place of the target
Known(place) ==
    {tag.digest : tag \in {t \in UNION {ts.verbatim : ts \in TagSets} :
                              t.digest # None /\ Place(t) = place}}
    \cup (IF place \in Names THEN ever[place] ELSE {})
=============================================================================
