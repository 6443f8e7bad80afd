------------------------------ MODULE MCTagSet ------------------------------
(* Instances of TagSet for TLC: five tags, two of them no semvers, and two  *)
(* that stand for the same version. The lists are all those of up to three *)
(* items, and longer ones with one item of each kind, or of three names and *)
(* a count.                                                                *)
EXTENDS TagSet

FiveTags == 1 .. 5
Versions == <<2, NoVersion, 1, 2, NoVersion>>

AnItem(p, S) == [prefix |-> p, gap |-> TRUE, set |-> S, ok |-> TRUE,
                 n |-> NoCount, sep |-> "space"]
Count(k) == [AnItem("keep:", {}) EXCEPT !.n = k]

Ranges == {AnItem("semver:", S) : S \in {{1}, {1, 2}}}
Regexes == {AnItem("regex:", S) : S \in {{2, 3, 5}, {1}}}
Keeps == {AnItem("keep:", S) : S \in {{1, 2, 3, 5}, {2, 3, 4}}}
Names == {AnItem("", {t}) : t \in {1, 2, 4}}
Counts == {Count(k) : k \in 0 .. 3}

\* A tab before the number, which only the pattern for counts takes for white
\* space; and no white space after the prefix, which makes it a filter.
TabbedCount == [Count(1) EXCEPT !.sep = "tab"]
CloseCount == [Count(1) EXCEPT !.gap = FALSE]
BadFilter == [AnItem("keep:", {}) EXCEPT !.ok = FALSE]

AllItems == Ranges \cup Regexes \cup Keeps \cup Names \cup Counts
                \cup {TabbedCount, CloseCount, BadFilter}

SomeLists ==
    UNION {[1 .. k -> AllItems] : k \in 0 .. 3}
        \cup {<<c, f, k, v>> : f \in Ranges \cup Regexes, k \in Keeps,
                              v \in Names, c \in Counts}
        \cup {<<u, v, c, w>> : u \in Names, v \in Names, w \in Names, c \in Counts}
        \cup {<<k, v, c, r, x>> : r \in Ranges, x \in Regexes, k \in Keeps,
                                 v \in Names, c \in Counts}

AnyListing == SUBSET FiveTags
=============================================================================
