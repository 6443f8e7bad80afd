------------------------------- MODULE TagSet -------------------------------
(***************************************************************************)
(* A tag set (internal/pkg/tags/tagset.go) from the items under 'tags' to  *)
(* the tags to sync. NewTagSet sorts the items by what they are. Expand    *)
(* filters and prunes the tags the registry has, adds the verbatim tags,   *)
(* and cuts the result down to the latest ones. The cutting works in place *)
(* on a slice, in the random order in which Go iterates over a map; it is  *)
(* modelled step by step.                                                  *)
(*                                                                         *)
(* A tag is a number, its place in the string order. A semver range is the *)
(* set of the versions in it, a regular expression the set of the tags it  *)
(* matches. Equal versions may have different tags, such as 1.0 and v1.0.0.*)
(***************************************************************************)
EXTENDS Integers, Sequences, FiniteSets, SequencesExt

CONSTANTS
    Tags,       \* the tags there are
    Version,    \* Version[t]: the version t denotes, or NoVersion
    Lists,      \* the lists of items there may be under 'tags', and ...
    Listings    \* ... the sets of tags a registry may come up with

NoVersion == -1
NoCount == -1

ASSUME TagsAssumption == Tags \subseteq Nat /\ IsFiniteSet(Tags)
ASSUME VersionAssumption == Version \in [Tags -> Nat \cup {NoVersion}]

\* An item: what it begins with, whether white space comes next, and the rest:
\* what it selects, and whether it can be parsed as a range or an expression; if
\* it reads 'latest n', the number, and the white space in front of that
Item == [prefix : {"semver:", "regex:", "keep:", ""}, gap : BOOLEAN,
         set : SUBSET (Tags \cup Nat), ok : BOOLEAN,
         n : Nat \cup {NoCount}, sep : {"space", "tab"}]

ASSUME ListsAssumption ==
    \A l \in Lists : l \in Seq(Item) /\ \A i \in DOMAIN l :
        /\ l[i].prefix # "semver:" => l[i].set \subseteq Tags
        /\ l[i].prefix = "" => \E t \in Tags : l[i].set = {t}
ASSUME ListingsAssumption == \A l \in Listings : l \subseteq Tags

VARIABLES
    pc,         \* where NewTagSet or Expand is
    items,      \* the list of items
    next,       \* the index of the item to be added next
    ts,         \* the tag set
    listed,     \* the tags the lister has returned
    tags,       \* 'ret' in Expand, 'tags' in reduce
    ix, pivot,  \* the loop variables of reduce
    vers        \* 'vers' in reduce, as the tags of the versions

expansion == <<listed, tags, ix, pivot, vers>>
vars == <<pc, items, next, ts, expansion>>

Semver(t) == Version[t] # NoVersion

HasSemver(c) == c.semver # {}
HasRegex(c) == c.regex # {}
IsEmpty(c) == c.verbatim = <<>> /\ ~HasSemver(c) /\ ~HasRegex(c)
NeedsExpansion(c) == IsEmpty(c) \/ HasSemver(c) \/ HasRegex(c)

ExpandSemver(c, found) ==
    {t \in found : Semver(t) /\ \E range \in c.semver : Version[t] \in range}

ExpandRegex(c, found) == {t \in found : \E r \in c.regex : t \in r}

KeepTag(c, t) == \A r \in c.keep : t \in r

\* 'set' in Expand
Expanded(c, found) ==
    IF ~NeedsExpansion(c) THEN {}
    ELSE IF ~HasSemver(c) /\ ~HasRegex(c) THEN found
    ELSE ExpandSemver(c, found) \cup ExpandRegex(c, found)

\* sort.Strings(): the k-th place is that of the tag which less than k places
\* are below, and at least k are not above.
Ascending(s) ==
    LET Below(t) == Cardinality({i \in DOMAIN s : s[i] < t})
        UpTo(t) == Cardinality({i \in DOMAIN s : s[i] <= t})
    IN [k \in DOMAIN s |-> CHOOSE t \in ToSet(s) : Below(t) < k /\ k <= UpTo(t)]

\* The orders vers.sort() may leave vers in: descending, ties any way round
Descending(s) ==
    {d \in {[i \in DOMAIN s |-> s[p[i]]] : p \in SetToSeqs(DOMAIN s)} :
        \A i, j \in DOMAIN s : i < j => Version[d[i]] >= Version[d[j]]}

Init ==
    /\ pc = "add"
    /\ items \in Lists
    /\ next = 1
    /\ ts = [verbatim |-> <<>>, semver |-> {}, regex |-> {}, keep |-> {},
             keepCount |-> 0]
    /\ listed = {}
    /\ tags = <<>>
    /\ ix = 1
    /\ pivot = 0
    /\ vers = <<>>

-----------------------------------------------------------------------------
(* NewTagSet()                                                             *)

IsSemver(i) == i.prefix = "semver:"
IsRegex(i) == i.prefix = "regex:"
IsKeep(i) == i.prefix = "keep:"
IsKeepCount(i) == IsKeep(i) /\ i.gap /\ i.n # NoCount

\* A definition whose name ends in _ and a word is a mutant of the definition
\* that follows it: the bug the word is about, which the properties must be
\* able to tell from the code.
SetKeepCount_First(c, k) == [c EXCEPT !.keepCount = IF @ = 0 THEN k ELSE @]
SetKeepCount(c, k) == [c EXCEPT !.keepCount = k]

\* The tag set c with item i added, by the first case that applies
Add(c, i) ==
    CASE IsSemver(i) -> [c EXCEPT !.semver = @ \cup {i.set}]
      [] IsRegex(i) -> [c EXCEPT !.regex = @ \cup {i.set}]
      [] IsKeepCount(i) -> SetKeepCount(c, i.n)
      [] IsKeep(i) /\ ~IsKeepCount(i) -> [c EXCEPT !.keep = @ \cup {i.set}]
      [] OTHER -> [c EXCEPT !.verbatim = Append(@, CHOOSE t \in i.set : TRUE)]

\* The number of a count is what follows the last space.
Malformed(i) == IF IsKeepCount(i) THEN i.sep # "space" ELSE ~i.ok

\* One item that cannot be parsed fails the whole set.
AddItem ==
    /\ pc = "add"
    /\ next <= Len(items)
    /\ IF Malformed(items[next])
       THEN pc' = "rejected" /\ UNCHANGED <<ts, next>>
       ELSE ts' = Add(ts, items[next]) /\ next' = next + 1 /\ UNCHANGED pc
    /\ UNCHANGED <<items, expansion>>

AllAdded ==
    /\ pc = "add"
    /\ next > Len(items)
    /\ pc' = "expand"
    /\ UNCHANGED <<items, next, ts, expansion>>

-----------------------------------------------------------------------------
(* Expand()                                                                *)

\* Expand up to the point where the verbatim tags have been added, which must
\* not be pruned. Without a limit what is left is to sort.
Expand ==
    /\ pc = "expand"
    /\ \E found \in IF NeedsExpansion(ts) THEN Listings ELSE {{}} :
          /\ listed' = found
          /\ \E order \in SetToSeqs({t \in Expanded(ts, found) : KeepTag(ts, t)}) :
                IF ts.keepCount > 0
                THEN pc' = "reduce" /\ tags' = order \o ts.verbatim
                ELSE pc' = "done" /\ tags' = Ascending(order \o ts.verbatim)
    /\ UNCHANGED <<items, next, ts, ix, pivot, vers>>

\* The lister fails, and so does Expand.
ExpandFails ==
    /\ pc = "expand"
    /\ NeedsExpansion(ts)
    /\ pc' = "failed"
    /\ UNCHANGED <<items, next, ts, expansion>>

-----------------------------------------------------------------------------
(* reduce()                                                                *)

\* tags[i], tags[j] = tags[j], tags[i]
Swapped_Overwrite(s, i, j) == [s EXCEPT ![i] = s[j]]
Swapped(s, i, j) == [s EXCEPT ![i] = s[j], ![j] = s[i]]

\* What the loop notes about t: a version, or one more tag left of the pivot
Collect(t) ==
    IF Semver(t) THEN vers' = Append(vers, t) /\ UNCHANGED pivot
                 ELSE pivot' = pivot + 1 /\ UNCHANGED vers

\* One iteration of the loop that moves what is not a semver to the left
Partition ==
    /\ pc = "reduce"
    /\ ix <= Len(tags)
    /\ ix' = ix + 1
    /\ Collect(tags[ix])
    /\ tags' = IF pivot' # pivot THEN Swapped(tags, pivot + 1, ix) ELSE tags
    /\ UNCHANGED <<pc, items, next, ts, listed>>

\* Where the tags that are kept end, when there are semvers among them
End_LimitOnly == ts.keepCount
End == pivot + ts.keepCount

\* The limit applies to the semvers only, if there are any.
CutSemvers ==
    /\ pc = "reduce"
    /\ ix > Len(tags)
    /\ vers # <<>>
    /\ IF End < Len(tags)
       THEN \E d \in Descending(vers) :
               tags' = Ascending(SubSeq(SubSeq(tags, 1, pivot) \o d, 1, End))
       ELSE tags' = Ascending(tags)
    /\ pc' = "done"
    /\ UNCHANGED <<items, next, ts, listed, ix, pivot, vers>>

\* How many of the slice are dropped, when there are none
Start_CountOnce == Cardinality(ToSet(tags)) - ts.keepCount
Start == Len(tags) - ts.keepCount

\* The limit applies to the whole set then: the last ones in string order.
CutStrings ==
    /\ pc = "reduce"
    /\ ix > Len(tags)
    /\ vers = <<>>
    /\ tags' = IF Start > 0 THEN SubSeq(Ascending(tags), Start + 1, Len(tags))
                            ELSE Ascending(tags)
    /\ pc' = "done"
    /\ UNCHANGED <<items, next, ts, listed, ix, pivot, vers>>

Next == AddItem \/ AllAdded \/ Expand \/ ExpandFails \/ Partition \/ CutSemvers \/ CutStrings

Spec == Init /\ [][Next]_vars

-----------------------------------------------------------------------------
(* What the user is told about 'tags'.                                     *)

Wanted == ToSet(items)
LimitItems == {i \in DOMAIN items : IsKeepCount(items[i])}

\* The tags that satisfy at least one of the items, and all 'keep' filters,
\* wherever in the list those are
Filtered ==
    {t \in listed :
        /\ \/ \A i \in Wanted : i.prefix = "keep:"
           \/ \E i \in Wanted : i.prefix = "semver:" /\ Version[t] \in i.set
           \/ \E i \in Wanted : i.prefix = "regex:" /\ t \in i.set
        /\ \A i \in Wanted : i.prefix = "keep:" /\ ~IsKeepCount(i) => t \in i.set}

Verbatim == UNION {i.set : i \in {j \in Wanted : j.prefix = ""}}

\* The set of tags before the limit
Selected == Filtered \cup Verbatim

\* The n of the last 'keep: latest n'; 0 stands for no limit.
Limit ==
    IF LimitItems = {} THEN 0
    ELSE items[CHOOSE i \in LimitItems : \A j \in LimitItems : j <= i].n

Newer(t, u) == IF Semver(t) THEN Version[t] >= Version[u] ELSE t >= u

\* The sets that consist of the n latest tags among S; with ties there are
\* several.
Latest(n, S) ==
    {K \in SUBSET S :
        /\ Cardinality(K) = IF n < Cardinality(S) THEN n ELSE Cardinality(S)
        /\ \A t \in K, u \in S \ K : Newer(t, u)}

\* What 'keep: latest n' may leave of S
Limited(n, S) ==
    LET semvers == {t \in S : Semver(t)} IN
    IF n = 0 THEN {S}
    ELSE IF semvers = {} THEN Latest(n, S)
    ELSE {(S \ semvers) \cup K : K \in Latest(n, semvers)}

-----------------------------------------------------------------------------
(* Properties.                                                             *)

TypeOK ==
    /\ pc \in {"add", "rejected", "expand", "reduce", "done", "failed"}
    /\ items \in Lists
    /\ next \in 1 .. Len(items) + 1
    /\ ts.verbatim \in Seq(Tags) /\ ts.keepCount \in Nat
    /\ \A r \in ts.regex \cup ts.keep : r \subseteq Tags
    /\ listed \subseteq Tags
    /\ tags \in Seq(Tags)
    /\ ix \in 1 .. Len(tags) + 1 \/ pc = "done"
    /\ pivot \in 0 .. ix - 1
    /\ vers \in Seq(Tags) /\ Len(vers) + pivot < ix

\* While reduce rearranges the slice it has all tags that are not semvers, of
\* those it has looked at, at the left, the semvers after them, in vers too,
\* and none is lost or doubled by the swapping.
PartitionInv ==
    pc = "reduce" =>
        /\ \A i \in 1 .. pivot : ~Semver(tags[i])
        /\ \A i \in pivot + 1 .. ix - 1 : Semver(tags[i])
        /\ ToSet(SubSeq(tags, pivot + 1, ix - 1)) = ToSet(vers)
        /\ Len(vers) = ix - 1 - pivot
        /\ ToSet(tags) = Selected

\* No tag gets into the slice twice: a filter selects none of the verbatim tags,
\* which are added as they are, and each of these is listed once.
NoneTwice ==
    /\ Filtered \cap Verbatim = {}
    /\ \A i, j \in DOMAIN items :
          /\ items[i].prefix = "" /\ items[j].prefix = ""
          /\ items[i].set = items[j].set
          => i = j

\* The tags to sync are those the items ask for, cut down to the latest n of
\* them, whatever the order of the items, and that in which the map gave them.
\* This holds if no tag is in the slice twice: the limit counts it twice then.
KeepsLatest ==
    pc = "done" /\ NoneTwice => ToSet(tags) \in Limited(Limit, Selected)

\* No limit is ever exceeded, even if tags are selected more than once: it is
\* about the semvers, if there are any, else about all tags. No other tag ever has
\* to make room, and none of those that had to is newer than one that is left.
NeverTooMany ==
    pc = "done" /\ Limit > 0 =>
        LET semvers == {t \in Selected : Semver(t)}
            limited == IF semvers = {} THEN Selected ELSE semvers
            kept == ToSet(tags) \cap limited
        IN  /\ Cardinality(kept) <= Limit
            /\ ToSet(tags) = (Selected \ limited) \cup kept
            /\ \A t \in kept, u \in limited \ kept : Newer(t, u)
=============================================================================
