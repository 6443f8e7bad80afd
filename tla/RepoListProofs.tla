--------------------------- MODULE RepoListProofs ---------------------------
(***************************************************************************)
(* Proofs about RepoList, for any repositories, page size and settings.    *)
(***************************************************************************)
EXTENDS RepoList, TLAPS, FiniteSetTheorems, WellFoundedInduction

-----------------------------------------------------------------------------
(* Numbers in finite sets. The library's induction takes an operator as a  *)
(* parameter, so the least and the greatest number come from the ordering  *)
(* of the subsets instead.                                                 *)

Below(S, x) == {y \in S : y < x}
Above(S, x) == {y \in S : y > x}

LEMMA Members ==
    ASSUME NEW S \in SUBSET Nat, NEW x \in Nat
    PROVE  \A y : y \in Below(S, x) <=> y \in S /\ y \in Nat /\ y < x
BY DEF Below

LEMMA MembersAbove ==
    ASSUME NEW S \in SUBSET Nat, NEW x \in Nat
    PROVE  \A y : y \in Above(S, x) <=> y \in S /\ y \in Nat /\ y > x
BY DEF Above

IsMinimal(A, F) == A \in F /\ \A B \in F : B \subseteq A => B = A

LEMMA MinimalSubset ==
    ASSUME NEW S, IsFiniteSet(S), NEW F, F \subseteq SUBSET S, F # {}
    PROVE  \E A \in F : IsMinimal(A, F)
<1>1. IsWellFoundedOn(StrictSubsetOrdering(S), FiniteSubsetsOf(S))
  BY FS_StrictSubsetOrderingWellFounded
<1>2. FiniteSubsetsOf(S) = SUBSET S
  BY FS_FiniteSubsetsOfFinite
<1>3. PICK A \in F : \A B \in F : ~(<<B, A>> \in StrictSubsetOrdering(S))
  BY <1>1, <1>2, WFMin
<1>4. IsMinimal(A, F)
  BY <1>3 DEF StrictSubsetOrdering, IsMinimal
<1> QED BY <1>4

LEMMA HasLeast ==
    ASSUME NEW S \in SUBSET Nat, IsFiniteSet(S), NEW T \in SUBSET S, T # {}
    PROVE  \E m \in T : \A x \in T : m <= x
<1> DEFINE F == {Below(S, x) : x \in T}
<1>1. F \subseteq SUBSET S /\ F # {}
  <2>1. \A x : Below(S, x) \in SUBSET S
    BY DEF Below
  <2>2. \E x : x \in T
    OBVIOUS
  <2> QED BY <2>1, <2>2
<1>2. PICK A \in F : IsMinimal(A, F)
  <2> HIDE DEF F
  <2> QED BY <1>1, MinimalSubset
<1>3. PICK m \in T : A = Below(S, m)
  BY <1>2
<1>4. \A x \in T : m <= x
  <2> SUFFICES ASSUME NEW x \in T, x < m PROVE FALSE
    OBVIOUS
  <2>1. x \in S /\ x \in Nat /\ m \in Nat
    OBVIOUS
  <2>2. \A y \in Nat : y < x => y < m
    BY <2>1
  <2>3. Below(S, x) \subseteq Below(S, m) /\ x \in Below(S, m) /\ x \notin Below(S, x)
    <3>1. Below(S, x) \subseteq Below(S, m)
      BY <2>2, Members
    <3>2. x \in Below(S, m) /\ x \notin Below(S, x)
      BY <2>1, Members
    <3> QED BY <3>1, <3>2
  <2>4. Below(S, x) \in F
    OBVIOUS
  <2> QED BY <1>2, <1>3, <2>3, <2>4 DEF IsMinimal
<1> QED BY <1>4

LEMMA HasGreatest ==
    ASSUME NEW S \in SUBSET Nat, IsFiniteSet(S), NEW T \in SUBSET S, T # {}
    PROVE  \E m \in T : \A x \in T : x <= m
<1> DEFINE F == {Above(S, x) : x \in T}
<1>1. F \subseteq SUBSET S /\ F # {}
  <2>1. \A x : Above(S, x) \in SUBSET S
    BY DEF Above
  <2>2. \E x : x \in T
    OBVIOUS
  <2> QED BY <2>1, <2>2
<1>2. PICK A \in F : IsMinimal(A, F)
  <2> HIDE DEF F
  <2> QED BY <1>1, MinimalSubset
<1>3. PICK m \in T : A = Above(S, m)
  BY <1>2
<1>4. \A x \in T : x <= m
  <2> SUFFICES ASSUME NEW x \in T, x > m PROVE FALSE
    OBVIOUS
  <2>1. x \in S /\ x \in Nat /\ m \in Nat
    OBVIOUS
  <2>2. \A y \in Nat : y > x => y > m
    BY <2>1
  <2>3. Above(S, x) \subseteq Above(S, m) /\ x \in Above(S, m) /\ x \notin Above(S, x)
    <3>1. Above(S, x) \subseteq Above(S, m)
      BY <2>2, MembersAbove
    <3>2. x \in Above(S, m) /\ x \notin Above(S, x)
      BY <2>1, MembersAbove
    <3> QED BY <3>1, <3>2
  <2>4. Above(S, x) \in F
    OBVIOUS
  <2> QED BY <1>2, <1>3, <2>3, <2>4 DEF IsMinimal
<1> QED BY <1>4

\* The rank of a number in a finite set, counted from 0
Rank(S, x) == Cardinality(Below(S, x))

LEMMA RankType ==
    ASSUME NEW S \in SUBSET Nat, IsFiniteSet(S), NEW x
    PROVE  Rank(S, x) \in Nat /\ IsFiniteSet(Below(S, x)) /\ Below(S, x) \subseteq S
<1>1. Below(S, x) \in SUBSET S
  BY DEF Below
<1> QED BY <1>1, FS_Subset, FS_CardinalityType DEF Rank

LEMMA RankGrows ==
    ASSUME NEW S, IsFiniteSet(S), NEW T \in SUBSET S, NEW x, S \in SUBSET Nat
    PROVE  Rank(T, x) <= Rank(S, x)
<1>1. Below(T, x) \in SUBSET Below(S, x)
  BY DEF Below
<1> QED BY <1>1, RankType, FS_Subset DEF Rank

LEMMA RankBelowSize ==
    ASSUME NEW S \in SUBSET Nat, IsFiniteSet(S), NEW x \in S
    PROVE  Rank(S, x) < Cardinality(S)
<1>1. Below(S, x) \in SUBSET S /\ x \notin Below(S, x)
  BY DEF Below
<1>2. Rank(S, x) <= Cardinality(S) /\ Rank(S, x) # Cardinality(S)
  BY <1>1, FS_Subset DEF Rank
<1> QED BY <1>2, RankType, FS_CardinalityType

\* What has a rank from a to b - 1 are no more than b - a numbers.
LEMMA RankedFew ==
    ASSUME NEW S \in SUBSET Nat, IsFiniteSet(S), NEW a \in Nat, NEW b \in Nat,
           a <= b, NEW P \in SUBSET S,
           \A x \in P : a <= Rank(S, x) /\ Rank(S, x) < b
    PROVE  IsFiniteSet(P) /\ Cardinality(P) <= b - a
<1>1. IsFiniteSet(P) /\ Cardinality(P) \in Nat
  BY FS_Subset, FS_CardinalityType
<1>2. CASE P = {}
  BY <1>1, <1>2, FS_EmptySet
<1>3. CASE P # {}
  <2>1. PICK m \in P : \A x \in P : m <= x
    BY <1>3, HasLeast
  <2>2. PICK n \in P : \A x \in P : x <= n
    BY <1>3, HasGreatest
  <2> DEFINE Q == Below(S, n) \cup {n}
  <2>3. IsFiniteSet(Q) /\ Cardinality(Q) = Rank(S, n) + 1
    <3>1. n \notin Below(S, n) /\ IsFiniteSet(Below(S, n))
      <4>1. n \in Nat
        OBVIOUS
      <4> QED BY <4>1, RankType DEF Below
    <3>2. Cardinality(Q) = Cardinality(Below(S, n)) + 1 /\ IsFiniteSet(Q)
      BY <3>1, FS_AddElement
    <3> QED BY <3>2 DEF Rank
  <2>4. P \cup Below(S, m) \in SUBSET Q
    <3>1. m \in Nat /\ n \in Nat /\ m <= n /\ P \subseteq Nat
      BY <2>2
    <3>2. \A x \in P : x \in Q
      BY <2>2, <3>1, Members
    <3>3. \A x \in Below(S, m) : x \in Q
      BY <3>1, Members
    <3> QED BY <3>2, <3>3
  <2>5. P \cap Below(S, m) = {}
    <3>1. \A x \in P : x \in Nat /\ m \in Nat /\ m <= x
      BY <2>1
    <3> QED BY <3>1, Members
  <2>6. Cardinality(P \cup Below(S, m)) = Cardinality(P) + Rank(S, m)
    <3>1. IsFiniteSet(Below(S, m)) /\ Rank(S, m) \in Nat
      BY RankType
    <3>2. Cardinality(P \cup Below(S, m))
             = Cardinality(P) + Cardinality(Below(S, m)) - Cardinality(P \cap Below(S, m))
      BY <1>1, <3>1, FS_Union
    <3> QED BY <1>1, <2>5, <3>1, <3>2, FS_EmptySet DEF Rank
  <2>7. Cardinality(P) + Rank(S, m) <= Rank(S, n) + 1
    BY <2>3, <2>4, <2>6, FS_Subset
  <2>8. a <= Rank(S, m) /\ Rank(S, n) < b
    OBVIOUS
  <2> HIDE DEF Q
  <2> QED BY <1>1, <2>7, <2>8, RankType
<1> QED BY <1>2, <1>3

\* If fewer than n have a rank below n, there are no others.
LEMMA RankedAll ==
    ASSUME NEW S \in SUBSET Nat, IsFiniteSet(S), NEW n \in Nat, NEW P,
           P = {x \in S : Rank(S, x) < n}, Cardinality(P) < n
    PROVE  P = S
<1> SUFFICES ASSUME P # S PROVE FALSE
  OBVIOUS
<1>1. S \ P \in SUBSET S /\ S \ P # {} /\ P \in SUBSET S
  OBVIOUS
<1>2. PICK m \in S \ P : \A x \in S \ P : m <= x
  BY <1>1, HasLeast
<1>3. Below(S, m) \in SUBSET P
  <2>1. \A x \in S \ P : x \in Nat /\ m \in Nat /\ m <= x
    BY <1>2
  <2> QED BY <2>1, Members
<1>4. IsFiniteSet(P) /\ Cardinality(P) \in Nat
  BY <1>1, FS_Subset, FS_CardinalityType
<1>5. Rank(S, m) <= Cardinality(P) /\ Rank(S, m) \in Nat
  BY <1>3, <1>4, FS_Subset, RankType DEF Rank
<1>6. ~(Rank(S, m) < n)
  BY <1>2
<1> QED BY <1>4, <1>5, <1>6

-----------------------------------------------------------------------------
(* Pages                                                                   *)

LEMMA ReposFinite ==
    ASSUME NEW S \in SUBSET Repos
    PROVE  S \in SUBSET Nat /\ 0 \notin S /\ IsFiniteSet(S) /\ Cardinality(S) \in Nat
<1>1. S \in SUBSET Nat /\ 0 \notin S
  BY ReposAssumption
<1>2. IsFiniteSet(S)
  BY ReposAssumption, FS_Subset
<1> QED BY <1>1, <1>2, FS_CardinalityType

LEMMA PageAfterRanks ==
    ASSUME NEW r
    PROVE  /\ PageAfter(r) = {x \in Above(repos, r) : Rank(Above(repos, r), x) < PageSize}
           /\ PageAfter(r) \subseteq Above(repos, r) /\ Above(repos, r) \subseteq repos
<1>1. \A x : {y \in repos : y > r /\ y < x} = Below(Above(repos, r), x)
  BY DEF Below, Above
<1> QED BY <1>1 DEF PageAfter, Rank, Above

LEMMA PageNumberRanks ==
    ASSUME NEW k
    PROVE  PageNumber(k)
             = {x \in repos : Rank(repos, x) \in (k - 1) * PageSize .. k * PageSize - 1}
BY DEF PageNumber, Rank, Below

Most == IF maxItems > 0 THEN maxItems ELSE PageSize

LEMMA FoundRanks == Found = {x \in repos : Rank(repos, x) < Most}
BY DEF Found, Most, Rank, Below

LEMMA ListedIs ==
    ASSUME NEW S
    PROVE  /\ Listed(S) \in SUBSET S
           /\ kind # "dockerhub" => Listed(S) = S
           /\ \A T : \A x \in S : x \in Listed(T) => x \in Listed(S)
BY DEF Listed

LEMMA PageBounds ==
    ASSUME NEW k \in Nat \ {0}
    PROVE  /\ (k - 1) * PageSize \in Nat /\ k * PageSize \in Nat
           /\ (k - 1) * PageSize <= k * PageSize
           /\ k * PageSize - (k - 1) * PageSize = PageSize
<1>1. PageSize \in Nat
  BY PageSizeAssumption
<1>2. PICK j \in Nat : k = j + 1
  <2>1. k - 1 \in Nat /\ k = (k - 1) + 1
    OBVIOUS
  <2> QED BY <2>1
<1>3. (j + 1) * PageSize = j * PageSize + PageSize
  BY <1>1
<1>4. j * PageSize \in Nat
  BY <1>1
<1> QED BY <1>1, <1>2, <1>3, <1>4

\* A page after a repository comes right after it, with nothing left out, and
\* if it is not a full page nothing comes after it.
LEMMA PageAfterIsNext ==
    ASSUME repos \in SUBSET Repos, NEW r \in Nat
    PROVE  /\ Cardinality(PageAfter(r)) <= PageSize
           /\ \A x \in PageAfter(r) : x \in repos /\ x > r
           /\ \A m \in PageAfter(r), x \in repos : r < x /\ x <= m => x \in PageAfter(r)
           /\ Cardinality(PageAfter(r)) < PageSize
                 => \A x \in repos : x > r => x \in PageAfter(r)
<1> DEFINE A == Above(repos, r)
<1>1. /\ PageAfter(r) = {x \in A : Rank(A, x) < PageSize}
      /\ PageAfter(r) \subseteq A /\ A \subseteq repos
  BY PageAfterRanks
<1>2. A \in SUBSET Nat /\ IsFiniteSet(A)
  BY <1>1, ReposFinite
<1>3. repos \in SUBSET Nat
  BY ReposFinite
<1>4. \A x : x \in A <=> x \in repos /\ x \in Nat /\ x > r
  BY <1>3, MembersAbove
<1>5. \A x : Rank(A, x) \in Nat
  BY <1>2, RankType
<1> HIDE DEF A
<1>6. PageSize \in Nat /\ 0 \in Nat /\ 0 <= PageSize
  BY PageSizeAssumption
<1>7. Cardinality(PageAfter(r)) <= PageSize
  <2>1. \A x \in PageAfter(r) : 0 <= Rank(A, x) /\ Rank(A, x) < PageSize
    BY <1>1, <1>5
  <2>2. Cardinality(PageAfter(r)) <= PageSize - 0
    BY <1>1, <1>2, <1>6, <2>1, RankedFew
  <2>3. Cardinality(PageAfter(r)) \in Nat
    BY <1>1, ReposFinite
  <2> QED BY <1>6, <2>2, <2>3
<1>8. ASSUME NEW m \in PageAfter(r), NEW x \in repos, r < x, x <= m
      PROVE  x \in PageAfter(r)
  <2>1. x \in A /\ m \in A /\ x \in Nat /\ m \in Nat
    BY <1>1, <1>3, <1>4, <1>8
  <2>2. Below(A, x) \in SUBSET Below(A, m)
    BY <1>2, <1>8, <2>1, Members
  <2>3. Rank(A, x) <= Rank(A, m)
    BY <1>2, <2>2, RankType, FS_Subset DEF Rank
  <2>4. Rank(A, m) < PageSize
    BY <1>1
  <2> QED BY <1>1, <1>5, <1>6, <2>1, <2>3, <2>4
<1>9. Cardinality(PageAfter(r)) < PageSize => PageAfter(r) = A
  BY <1>1, <1>2, <1>6, RankedAll
<1>10. \A x \in PageAfter(r) : x \in repos /\ x > r
  BY <1>1, <1>4
<1>11. Cardinality(PageAfter(r)) < PageSize => \A x \in repos : x > r => x \in PageAfter(r)
  BY <1>3, <1>4, <1>9
<1> QED BY <1>7, <1>8, <1>10, <1>11

\* A page with a number has all of its ranks, and no more than fit.
LEMMA PageNumberIsNext ==
    ASSUME repos \in SUBSET Repos, NEW k \in Nat \ {0}
    PROVE  /\ Cardinality(PageNumber(k)) <= PageSize
           /\ PageNumber(k) \subseteq repos
           /\ \A x \in repos : Rank(repos, x) < k * PageSize
                 => Rank(repos, x) < (k - 1) * PageSize \/ x \in PageNumber(k)
<1> DEFINE a == (k - 1) * PageSize
           b == k * PageSize
<1>1. PageNumber(k) = {x \in repos : Rank(repos, x) \in a .. b - 1}
  BY PageNumberRanks
<1>2. a \in Nat /\ b \in Nat /\ a <= b /\ b - a = PageSize
  BY PageBounds
<1>3. repos \in SUBSET Nat /\ IsFiniteSet(repos)
  BY ReposFinite
<1>4. \A x : Rank(repos, x) \in Nat
  BY <1>3, RankType
<1> HIDE DEF a, b
<1>5. \A x \in PageNumber(k) : a <= Rank(repos, x) /\ Rank(repos, x) < b
  BY <1>1, <1>2, <1>4
<1>6. PageNumber(k) \in SUBSET repos
  BY <1>1
<1>7. Cardinality(PageNumber(k)) <= b - a
  BY <1>2, <1>3, <1>5, <1>6, RankedFew
<1>8. \A x \in repos : Rank(repos, x) < b => Rank(repos, x) < a \/ x \in PageNumber(k)
  BY <1>1, <1>2, <1>4
<1> QED BY <1>2, <1>6, <1>7, <1>8 DEF a, b

\* The index finds all there are, unless that is as many as it may.
LEMMA FoundIsAll ==
    ASSUME repos \in SUBSET Repos, maxItems \in Int
    PROVE  /\ Cardinality(Found) <= Most
           /\ Found \subseteq repos
           /\ Cardinality(Found) < Most => Found = repos
<1>1. Most \in Nat /\ 0 \in Nat /\ 0 <= Most
  BY PageSizeAssumption DEF Most
<1>2. Found = {x \in repos : Rank(repos, x) < Most} /\ Found \in SUBSET repos
  BY FoundRanks
<1>3. repos \in SUBSET Nat /\ IsFiniteSet(repos)
  BY ReposFinite
<1>4. \A x \in Found : 0 <= Rank(repos, x) /\ Rank(repos, x) < Most
  BY <1>2, <1>3, RankType
<1>5. Cardinality(Found) <= Most - 0
  BY <1>1, <1>2, <1>3, <1>4, RankedFew
<1>6. Cardinality(Found) \in Nat
  BY <1>2, ReposFinite
<1>7. Cardinality(Found) < Most => Found = repos
  BY <1>1, <1>2, <1>3, RankedAll
<1>8. Cardinality(Found) <= Most
  BY <1>1, <1>5, <1>6
<1> QED BY <1>2, <1>7, <1>8

-----------------------------------------------------------------------------
(* The inductive invariant. While a list is being retrieved it has what    *)
(* has lasted of the repositories that come before the next page           *)
(* (Covered), and there is room for that page (Fits).                      *)

Longest == IF duration > 0 THEN duration ELSE 0

Types ==
    /\ registry \in Registries /\ kind \in Kinds
    /\ maxItems \in Int /\ duration \in Int /\ decodes \in BOOLEAN
    /\ pc \in {"idle", "login", "page"}
    /\ token \in 0 .. TokenLife
    /\ cached \subseteq Repos
    /\ left \in 0 .. Longest
    /\ list \subseteq Repos
    /\ count \in Nat
    /\ last \in Repos \cup {0}
    /\ page \in Nat \ {0}
    /\ outcome \in {"none", "error", "list"}
    /\ got \subseteq Repos
    /\ repos \subseteq Repos
    /\ changes \in 0 .. MaxChanges /\ faults \in 0 .. MaxFaults
    /\ lasting \subseteq Repos /\ seen \subseteq Repos
    /\ full \in BOOLEAN /\ torn \in BOOLEAN

Counted == kind # "dockerhub" => count = Cardinality(list)

\* All that has lasted and comes before the next page is in the list.
CoveredTo(l, found, k) ==
    /\ kind = "index" => found = {} /\ count = 0 /\ l = 0
    /\ kind \in {"catalog", "ecr"} =>
          /\ \A x \in found : x <= l
          /\ \A r \in lasting : r <= l => r \in found
    /\ kind = "dockerhub" /\ ~torn =>
          \A r \in lasting : Rank(repos, r) < (k - 1) * PageSize => r \in found

Covered == CoveredTo(last, list, page)

Fits ==
    /\ maxItems > 0 /\ kind = "ecr" => count < maxItems
    /\ maxItems > 0 /\ kind \in {"catalog", "dockerhub"} => count <= maxItems

Retrieving ==
    /\ left = 0 /\ outcome = "none" /\ ~full /\ kind # "refused"
    /\ list \subseteq seen /\ Listed(repos) \subseteq seen
    /\ lasting \subseteq Listed(repos)
    /\ pc = "login" => kind = "dockerhub"
    /\ pc = "page" /\ kind = "dockerhub" /\ token = 0 => torn
    /\ Covered /\ Fits

\* What a list is worth, whether it has been returned or is kept
Good(found) == found \subseteq seen /\ (full \/ torn \/ lasting \subseteq found)

IInv ==
    /\ Types /\ Counted
    /\ kind = "catalog" => registry # "ecr"
    /\ pc # "idle" => Retrieving
    /\ outcome = "list" => Good(got)
    /\ left > 0 => Good(cached)
    /\ OnePageTooMany

LEMMA InitIInv == Init => IInv
<1> SUFFICES ASSUME Init PROVE IInv
  OBVIOUS
<1>1. PICK s \in Settings : /\ registry = s.registry
                            /\ kind = ListSource(s)
                            /\ maxItems = MaxItems(s)
                            /\ duration = CacheDuration(s)
  BY DEF Init
<1>2. s \in Setting
  BY SettingsAssumption
<1>3. /\ registry \in Registries /\ maxItems \in Int /\ duration \in Int
  <2>1. s.registry \in Registries /\ s.maxItems \in Int /\ s.cacheDuration \in Int
    BY <1>2 DEF Setting
  <2> QED BY <1>1, <2>1, DefaultsAssumption DEF MaxItems, CacheDuration
<1>4. kind \in Kinds /\ (kind = "catalog" => registry # "ecr")
  <2>1. s.type \in {"catalog", "dockerhub", "index", "", "invalid"}
    BY <1>2 DEF Setting
  <2> QED BY <1>1, <2>1 DEF ListSource, Unsupported, Catalog, Kinds
<1>5. decodes \in BOOLEAN
  BY DEF Init
<1>6. Types
  <2>1. token \in 0 .. TokenLife /\ changes \in 0 .. MaxChanges /\ faults \in 0 .. MaxFaults
    BY SettingsAssumption, BoundsAssumption DEF Init
  <2>2. left \in 0 .. Longest
    BY <1>3 DEF Init, Longest
  <2>3. /\ pc \in {"idle", "login", "page"} /\ outcome \in {"none", "error", "list"}
        /\ count \in Nat /\ last \in Repos \cup {0} /\ page \in Nat \ {0}
    BY DEF Init
  <2>4. /\ cached \subseteq Repos /\ list \subseteq Repos /\ got \subseteq Repos
        /\ repos \subseteq Repos /\ lasting \subseteq Repos /\ seen \subseteq Repos
    BY DEF Init
  <2>5. full \in BOOLEAN /\ torn \in BOOLEAN
    BY DEF Init
  <2> QED BY <1>3, <1>4, <1>5, <2>1, <2>2, <2>3, <2>4, <2>5 DEF Types
<1>7. Counted
  BY FS_EmptySet DEF Init, Counted
<1>8. OnePageTooMany
  BY <1>3, PageSizeAssumption DEF Init, OnePageTooMany
<1>9. pc = "idle" /\ outcome = "none" /\ left = 0
  BY DEF Init
<1> QED BY <1>4, <1>6, <1>7, <1>8, <1>9 DEF IInv

LEMMA GetCachedIInv == IInv /\ GetCached => IInv'
<1> SUFFICES ASSUME IInv, GetCached PROVE IInv'
  OBVIOUS
<1> USE DEF GetCached, IsCacheValid, settings, cacheVars, listVars, historyVars
<1>1. Types' /\ Counted' /\ OnePageTooMany'
  <2>1. Types'
    BY DEF IInv, Types, Longest
  <2>2. Counted' /\ OnePageTooMany'
    BY DEF IInv, Counted, OnePageTooMany
  <2> QED BY <2>1, <2>2
<1>2. Good(got)' /\ (left > 0 => Good(cached))'
  BY DEF IInv, Types, Good
<1> QED BY <1>1, <1>2 DEF IInv

LEMMA GetIInv == IInv /\ Get => IInv'
<1> SUFFICES ASSUME IInv, Get PROVE IInv'
  OBVIOUS
<1> USE DEF Get, IsCacheValid, settings
<1>1. /\ list' = {} /\ count' = 0 /\ last' = 0 /\ page' = 1 /\ left' = 0 /\ left = 0
      /\ outcome' = "none" /\ full' = FALSE /\ torn' = FALSE
      /\ lasting' = Listed(repos) /\ seen' = Listed(repos) /\ repos' = repos
      /\ Listed(repos) \in SUBSET repos /\ Listed(repos)' = Listed(repos)
      /\ pc' \in {"login", "page"} /\ (pc' = "login" <=> kind = "dockerhub")
      /\ UNCHANGED <<registry, kind, maxItems, duration>>
  BY ListedIs DEF IInv, Types, Listed
<1>2. Types'
  <2>1. /\ cached' = {} /\ got' = {}
        /\ UNCHANGED <<registry, kind, maxItems, duration, decodes, left, token,
                       repos, changes, faults, Longest>>
    BY DEF Longest
  <2>2. Types
    BY DEF IInv
  <2> HIDE DEF Get
  <2>3. /\ pc' \in {"idle", "login", "page"} /\ outcome' \in {"none", "error", "list"}
        /\ count' \in Nat /\ last' \in Repos \cup {0} /\ page' \in Nat \ {0}
    BY <1>1
  <2>4. /\ cached' \subseteq Repos /\ list' \subseteq Repos /\ got' \subseteq Repos
        /\ repos' \subseteq Repos /\ lasting' \subseteq Repos /\ seen' \subseteq Repos
    BY <1>1, <2>1, <2>2 DEF Types
  <2>5. full' \in BOOLEAN /\ torn' \in BOOLEAN
    BY <1>1
  <2> QED BY <2>1, <2>2, <2>3, <2>4, <2>5 DEF Types
<1>3. Counted'
  BY <1>1, FS_EmptySet DEF Counted
<1>4. maxItems \in Int /\ PageSize \in Nat
  BY PageSizeAssumption DEF IInv, Types
<1>5. OnePageTooMany'
  BY <1>1, <1>4, PageSizeAssumption DEF OnePageTooMany
<1>6. Fits'
  BY <1>1, <1>4 DEF Fits
<1>7. Covered'
  <2>1. \A r \in repos : r \in Nat /\ r # 0
    BY ReposFinite DEF IInv, Types
  <2>2. \A r \in repos : Rank(repos, r) \in Nat
    BY ReposFinite, RankType DEF IInv, Types
  <2>3. (1 - 1) * PageSize = 0
    BY <1>4
  <2>4. CoveredTo(0, {}, 1)'
    BY <1>1, <2>1, <2>2, <2>3 DEF CoveredTo, Rank, Below
  <2> QED BY <1>1, <2>4 DEF Covered
<1>8. Retrieving'
  BY <1>1, <1>6, <1>7 DEF Retrieving
<1> QED BY <1>1, <1>2, <1>3, <1>5, <1>8 DEF IInv

LEMMA LoginIInv == IInv /\ Login => IInv'
<1> SUFFICES ASSUME IInv, Login PROVE IInv'
  OBVIOUS
<1> USE DEF Login, settings, cacheVars, listVars, resultVars, historyVars
<1>1. pc' = "page" /\ token' \in 1 .. TokenLife
  BY SettingsAssumption DEF NoToken, IInv, Types
<1>2. Types'
  BY <1>1 DEF IInv, Types, Longest
<1>3. Counted' /\ OnePageTooMany'
  BY DEF IInv, Counted, OnePageTooMany
<1>4. Retrieving'
  <2>1. Covered' /\ Fits'
    BY DEF IInv, Retrieving, Covered, CoveredTo, Fits, Rank, Below
  <2> QED BY <1>1, <2>1 DEF IInv, Retrieving, Listed
<1>5. left = 0 /\ outcome = "none"
  BY DEF IInv, Retrieving
<1> QED BY <1>1, <1>2, <1>3, <1>4, <1>5 DEF IInv

\* A call that fails leaves what is cached alone.
LEMMA FailsIInv ==
    ASSUME IInv, pc # "idle", faults' \in 0 .. MaxFaults, Fails,
           UNCHANGED <<settings, listVars, token, repos, changes, historyVars>>
    PROVE  IInv'
<1> USE DEF Fails, settings, cacheVars, listVars, historyVars
<1>1. Types'
  BY DEF IInv, Types, Longest
<1>2. Counted' /\ OnePageTooMany'
  BY DEF IInv, Counted, OnePageTooMany
<1>3. left = 0
  BY DEF IInv, Retrieving
<1> QED BY <1>1, <1>2, <1>3 DEF IInv

\* What is delivered is kept, if anything is.
LEMMA Delivers ==
    ASSUME IInv, pc # "idle", NEW found \in SUBSET Repos, Deliver(found),
           UNCHANGED duration
    PROVE  /\ pc' = "idle" /\ outcome' = "list" /\ got' = found
           /\ cached' \subseteq Repos /\ left' \in 0 .. Longest'
           /\ left' > 0 => cached' = found
<1>1. left = 0 /\ cached \subseteq Repos /\ duration \in Int
  BY DEF IInv, Types, Retrieving
<1>2. CASE duration > 0
  BY <1>1, <1>2 DEF Deliver, CacheList, Longest
<1>3. CASE ~(duration > 0)
  BY <1>1, <1>3 DEF Deliver, CacheList, Longest, cacheVars
<1> QED BY <1>2, <1>3

LEMMA PageRefusedIInv == IInv /\ PageRefused => IInv'
<1> SUFFICES ASSUME IInv, PageRefused PROVE IInv'
  OBVIOUS
<1> USE DEF PageRefused, settings, listVars
<1>1. Retrieving
  BY DEF IInv
<1>2. faults' \in 0 .. MaxFaults /\ torn' = TRUE
  <2>1. faults \in 0 .. MaxFaults /\ torn \in BOOLEAN
    BY DEF IInv, Types
  <2> QED BY <1>1, <2>1, BoundsAssumption DEF Retrieving
<1>3. list \in SUBSET Repos
  BY DEF IInv, Types
<1>4. /\ pc' = "idle" /\ outcome' = "list" /\ got' = list
      /\ cached' \subseteq Repos /\ left' \in 0 .. Longest'
      /\ left' > 0 => cached' = list
  BY <1>3, Delivers
<1>5. Types'
  BY <1>2, <1>3, <1>4 DEF IInv, Types
<1>6. Counted' /\ OnePageTooMany'
  BY DEF IInv, Counted, OnePageTooMany
<1>7. Good(list)'
  BY <1>1, <1>2 DEF Good, Retrieving
<1> QED BY <1>4, <1>5, <1>6, <1>7 DEF IInv, Good

\* While repositories come and go the ranks of those that last grow, unless one
\* is removed, which tears a list of DockerHub.
LEMMA ChangeIInv == IInv /\ Change => IInv'
<1> SUFFICES ASSUME IInv, Change PROVE IInv'
  OBVIOUS
<1> USE DEF Change, settings, cacheVars, listVars, resultVars
<1>1. repos' \subseteq Repos /\ repos \subseteq Repos
  BY DEF IInv, Types
<1>2. changes' \in 0 .. MaxChanges
  <2>1. changes \in 0 .. MaxChanges
    BY DEF IInv, Types
  <2> QED BY <2>1, BoundsAssumption
<1>3. CASE pc = "idle"
  <2>1. UNCHANGED <<lasting, seen, torn>>
    BY <1>3
  <2>2. Types'
    BY <1>1, <1>2, <2>1 DEF IInv, Types, Longest
  <2>3. Counted' /\ OnePageTooMany'
    BY DEF IInv, Counted, OnePageTooMany
  <2>4. (outcome = "list" => Good(got)') /\ (left > 0 => Good(cached)')
    BY <2>1 DEF IInv, Good
  <2> QED BY <1>3, <2>2, <2>3, <2>4 DEF IInv
<1>4. CASE pc # "idle"
  <2>1. Retrieving
    BY <1>4 DEF IInv
  <2>2. /\ lasting' = lasting \cap repos' /\ seen' = seen \cup Listed(repos')
        /\ torn' = (torn \/ (kind = "dockerhub" /\ ~(repos \subseteq repos')))
    BY <1>4
  <2>3. torn' \in BOOLEAN /\ lasting' \subseteq Repos /\ seen' \subseteq Repos
    BY <1>1, <2>2, ListedIs DEF IInv, Types
  <2>4. Types'
    BY <1>1, <1>2, <2>3 DEF IInv, Types, Longest
  <2>5. Counted' /\ OnePageTooMany'
    BY DEF IInv, Counted, OnePageTooMany
  <2>6. Covered'
    <3>1. ASSUME kind = "dockerhub", ~torn', NEW r \in lasting',
                 Rank(repos', r) < (page - 1) * PageSize
          PROVE  r \in list
      <4>1. ~torn /\ repos \subseteq repos' /\ r \in lasting
        BY <2>2, <3>1
      <4>2. /\ repos' \in SUBSET Nat /\ IsFiniteSet(repos') /\ repos \in SUBSET repos'
            /\ repos \in SUBSET Nat /\ IsFiniteSet(repos)
        BY <1>1, <4>1, ReposFinite
      <4>3. Rank(repos, r) <= Rank(repos', r)
        BY <4>2, RankGrows
      <4>4. Rank(repos, r) \in Nat /\ Rank(repos', r) \in Nat
        BY <4>2, RankType
      <4>5. (page - 1) * PageSize \in Nat
        BY PageBounds DEF IInv, Types
      <4>6. Rank(repos, r) < (page - 1) * PageSize
        BY <3>1, <4>3, <4>4, <4>5
      <4> QED BY <2>1, <3>1, <4>1, <4>6 DEF Retrieving, Covered, CoveredTo
    <3>2. \A r : Rank(repos, r)' = Rank(repos', r)
      BY DEF Rank, Below
    <3>3. /\ kind = "index" => list = {} /\ count = 0 /\ last = 0
          /\ kind \in {"catalog", "ecr"} =>
                /\ \A x \in list : x <= last
                /\ \A r \in lasting' : r <= last => r \in list
      BY <2>1, <2>2 DEF Retrieving, Covered, CoveredTo
    <3> QED BY <3>1, <3>2, <3>3 DEF Covered, CoveredTo
  <2>7. Fits'
    BY <2>1 DEF Retrieving, Fits
  <2>8. Retrieving'
    <3>1. Listed(repos)' = Listed(repos') /\ lasting' \subseteq Listed(repos')
      BY <2>1, <2>2, ListedIs DEF Retrieving, Listed
    <3> QED BY <2>1, <2>2, <2>6, <2>7, <3>1 DEF Retrieving
  <2>9. left = 0 /\ outcome = "none"
    BY <2>1 DEF Retrieving
  <2> QED BY <2>4, <2>5, <2>8, <2>9 DEF IInv
<1> QED BY <1>3, <1>4

LEMMA PassIInv == IInv /\ Pass => IInv'
<1> SUFFICES ASSUME IInv, Pass PROVE IInv'
  OBVIOUS
<1> USE DEF Pass, settings, listVars, resultVars
<1>1. Types /\ duration \in Int
  BY DEF IInv, Types
<1>2. Longest \in Nat /\ Longest' = Longest
  BY <1>1 DEF Longest
<1>3. left \in 0 .. Longest /\ token \in 0 .. TokenLife
  BY <1>1 DEF Types
<1>4. left' \in 0 .. Longest /\ (left' > 0 => left > 0) /\ (left = 0 => left' = 0)
  BY <1>2, <1>3
<1>5. token' \in 0 .. TokenLife
  BY <1>3, SettingsAssumption
<1>6. torn' = (torn \/ (pc = "page" /\ token = 1))
  OBVIOUS
<1>7. token' = 0 => token = 0 \/ token = 1
  BY <1>3
<1> HIDE DEF Pass
<1>8. UNCHANGED <<registry, kind, maxItems, duration, decodes, pc, cached, list, count,
                  last, page, outcome, got, repos, changes, faults, lasting, seen, full>>
  BY DEF Pass
<1>9. torn' \in BOOLEAN /\ (torn => torn')
  BY <1>1, <1>6 DEF Types
<1>10. Types'
  BY <1>1, <1>2, <1>4, <1>5, <1>8, <1>9 DEF Types
<1>11. Counted' /\ OnePageTooMany'
  BY <1>8 DEF IInv, Counted, OnePageTooMany
<1>12. (outcome = "list" => Good(got)') /\ (left' > 0 => Good(cached)')
  BY <1>4, <1>8, <1>9 DEF IInv, Good
<1>13. pc # "idle" => Retrieving'
  <2> SUFFICES ASSUME pc # "idle" PROVE Retrieving'
    OBVIOUS
  <2>1. Retrieving
    BY DEF IInv
  <2>2. Covered' /\ Fits'
    BY <1>8, <1>9, <2>1 DEF Retrieving, Covered, CoveredTo, Fits, Rank, Below
  <2>3. pc = "page" /\ kind = "dockerhub" /\ token' = 0 => torn'
    BY <1>6, <1>7, <1>9, <2>1 DEF Retrieving
  <2> QED BY <1>4, <1>8, <2>1, <2>2, <2>3 DEF Retrieving, Listed
<1> QED BY <1>8, <1>10, <1>11, <1>12, <1>13 DEF IInv

-----------------------------------------------------------------------------
(* One more page                                                           *)

\* A page is disjoint from what is in the list already, except at DockerHub,
\* and none is longer than it may be.
LEMMA PageIsNew ==
    ASSUME IInv, pc = "page"
    PROVE  /\ Page \in SUBSET repos /\ Cardinality(Page) \in Nat
           /\ kind # "dockerhub" => Page \cap list = {}
           /\ Cardinality(Page) <= IF kind = "index" THEN Most ELSE PageSize
<1>1. /\ repos \in SUBSET Repos /\ list \in SUBSET Repos /\ last \in Nat
      /\ page \in Nat \ {0} /\ kind \in Kinds /\ maxItems \in Int
  BY ReposAssumption DEF IInv, Types
<1>2. Covered
  BY DEF IInv, Retrieving
<1>3. CASE kind = "dockerhub"
  <2>1. Page = PageNumber(page)
    BY <1>3 DEF Page
  <2>2. Page \in SUBSET repos /\ Cardinality(Page) <= PageSize
    BY <1>1, <2>1, PageNumberIsNext
  <2>3. Page \in SUBSET Repos
    BY <1>1, <2>2
  <2> QED BY <1>3, <2>2, <2>3, ReposFinite
<1>4. CASE kind = "index"
  <2>1. Page = Found /\ list = {}
    BY <1>2, <1>4 DEF Page, Covered, CoveredTo
  <2>2. Page \in SUBSET repos /\ Cardinality(Page) <= Most
    BY <1>1, <2>1, FoundIsAll
  <2>3. Page \in SUBSET Repos
    BY <1>1, <2>2
  <2> QED BY <1>4, <2>1, <2>2, <2>3, ReposFinite
<1>5. CASE kind \in {"catalog", "ecr"}
  <2>1. Page = PageAfter(last)
    BY <1>5 DEF Page, IInv
  <2>2. /\ Cardinality(Page) <= PageSize
        /\ \A x \in Page : x \in repos /\ x > last
    BY <1>1, <2>1, PageAfterIsNext
  <2>3. \A x \in list : x <= last
    BY <1>2, <1>5 DEF Covered, CoveredTo
  <2>4. Page \in SUBSET Repos /\ \A x \in Page \cup list : x \in Nat
    BY <1>1, <2>2, ReposFinite
  <2>5. Page \cap list = {}
    BY <1>1, <2>2, <2>3, <2>4
  <2> QED BY <1>5, <2>2, <2>4, <2>5, ReposFinite
<1>6. kind # "refused"
  BY DEF IInv, Retrieving
<1> QED BY <1>1, <1>3, <1>4, <1>5, <1>6 DEF Kinds

NextLast == IF Page = {} THEN last ELSE CHOOSE x \in Page : \A y \in Page : y <= x

LEMMA LastIsGreatest ==
    ASSUME IInv, pc = "page"
    PROVE  /\ NextLast \in Repos \cup {0}
           /\ Page = {} => NextLast = last
           /\ Page # {} => NextLast \in Page /\ \A y \in Page : y <= NextLast
<1>1. Page \in SUBSET repos
  BY PageIsNew
<1>2. repos \in SUBSET Repos /\ last \in Repos \cup {0}
  BY DEF IInv, Types
<1>3. CASE Page # {}
  <2>1. Page \in SUBSET Nat /\ IsFiniteSet(Page) /\ Page \in SUBSET Page
    BY <1>1, <1>2, ReposFinite
  <2>2. \E x \in Page : \A y \in Page : y <= x
    BY <1>3, <2>1, HasGreatest
  <2>3. NextLast \in Page /\ \A y \in Page : y <= NextLast
    BY <1>3, <2>2 DEF NextLast
  <2> QED BY <1>1, <1>2, <1>3, <2>3
<1>4. CASE Page = {}
  BY <1>2, <1>4 DEF NextLast
<1> QED BY <1>3, <1>4

\* With a page the list covers what comes before the next one.
LEMMA PageCovers ==
    ASSUME IInv, pc = "page"
    PROVE  /\ kind \in {"catalog", "ecr"} =>
                 /\ \A x \in list \cup Listed(Page) : x <= NextLast
                 /\ \A r \in lasting : r <= NextLast => r \in list \cup Listed(Page)
           /\ kind = "dockerhub" /\ ~torn =>
                 \A r \in lasting : Rank(repos, r) < page * PageSize
                                    => r \in list \cup Listed(Page)
<1>1. /\ repos \in SUBSET Repos /\ list \in SUBSET Repos /\ last \in Nat
      /\ page \in Nat \ {0}
  BY ReposAssumption DEF IInv, Types
<1>2. Covered /\ lasting \subseteq Listed(repos) /\ lasting \subseteq repos
  BY ListedIs DEF IInv, Retrieving
<1>3. NextLast \in Nat
  <2>1. NextLast \in Repos \cup {0}
    BY LastIsGreatest
  <2> QED BY <2>1, ReposAssumption
<1>4. ASSUME kind \in {"catalog", "ecr"}
      PROVE  /\ \A x \in list \cup Listed(Page) : x <= NextLast
             /\ \A r \in lasting : r <= NextLast => r \in list \cup Listed(Page)
  <2>1. Page = PageAfter(last) /\ Listed(Page) = Page
    BY <1>4, ListedIs DEF Page, IInv
  <2>2. /\ \A x \in Page : x \in repos /\ x > last
        /\ \A m \in Page, x \in repos : last < x /\ x <= m => x \in Page
    BY <1>1, <2>1, PageAfterIsNext
  <2>3. \A x \in list \cup repos : x \in Nat
    BY <1>1, ReposFinite
  <2>4. /\ \A x \in list : x <= last
        /\ \A r \in lasting : r <= last => r \in list
    BY <1>2, <1>4 DEF Covered, CoveredTo
  <2>5. last <= NextLast
    BY <1>1, <1>3, <2>2, <2>3, LastIsGreatest
  <2>6. \A x \in Page : x <= NextLast
    BY LastIsGreatest
  <2>7. \A x \in list \cup Listed(Page) : x <= NextLast
    BY <1>1, <1>3, <2>1, <2>3, <2>4, <2>5, <2>6
  <2>8. ASSUME NEW r \in lasting, r <= NextLast PROVE r \in list \cup Listed(Page)
    <3>1. r \in repos /\ r \in Nat
      BY <1>2, <2>3
    <3>2. CASE r <= last
      BY <2>4, <3>2
    <3>3. CASE r > last
      <4>1. Page # {}
        BY <1>1, <2>8, <3>1, <3>3, LastIsGreatest
      <4>2. NextLast \in Page
        BY <4>1, LastIsGreatest
      <4> QED BY <2>1, <2>2, <2>8, <3>1, <3>3, <4>2
    <3> QED BY <1>1, <3>1, <3>2, <3>3
  <2> QED BY <2>7, <2>8
<1>5. ASSUME kind = "dockerhub", ~torn, NEW r \in lasting,
             Rank(repos, r) < page * PageSize
      PROVE  r \in list \cup Listed(Page)
  <2>1. Page = PageNumber(page)
    BY <1>5 DEF Page
  <2>2. Rank(repos, r) < (page - 1) * PageSize \/ r \in Page
    BY <1>1, <1>2, <1>5, <2>1, PageNumberIsNext
  <2>3. Rank(repos, r) < (page - 1) * PageSize => r \in list
    BY <1>2, <1>5 DEF Covered, CoveredTo
  <2>4. r \in Page => r \in Listed(Page)
    BY <1>2, ListedIs
  <2> QED BY <2>2, <2>3, <2>4
<1> QED BY <1>4, <1>5

\* With the last page it has all that has lasted.
LEMMA LastPageCompletes ==
    ASSUME IInv, pc = "page", LastPage(Page), ~torn,
           ~Full(count + Cardinality(Listed(Page)))
    PROVE  lasting \subseteq list \cup Listed(Page)
<1>1. /\ repos \in SUBSET Repos /\ list \in SUBSET Repos /\ last \in Nat
      /\ page \in Nat \ {0} /\ kind \in Kinds /\ maxItems \in Int
  BY ReposAssumption DEF IInv, Types
<1>2. Covered /\ lasting \subseteq repos /\ kind # "refused"
  BY ListedIs DEF IInv, Retrieving
<1>3. SUFFICES ASSUME NEW r \in lasting PROVE r \in list \cup Listed(Page)
  OBVIOUS
<1>4. r \in repos /\ r \in Nat
  BY <1>1, <1>2, ReposFinite
<1>5. CASE kind = "dockerhub"
  <2>1. Cardinality(repos) <= page * PageSize
    BY <1>5 DEF LastPage
  <2>2. Rank(repos, r) < Cardinality(repos)
    BY <1>1, <1>4, ReposFinite, RankBelowSize
  <2>3. Rank(repos, r) \in Nat /\ Cardinality(repos) \in Nat /\ page * PageSize \in Nat
    BY <1>1, ReposFinite, RankType, PageBounds
  <2>4. Rank(repos, r) < page * PageSize
    BY <2>1, <2>2, <2>3
  <2> QED BY <1>5, <2>4, PageCovers
<1>6. CASE kind = "index"
  <2>1. Page = Found /\ Listed(Page) = Page /\ count = 0
    BY <1>2, <1>6, ListedIs DEF Page, Covered, CoveredTo
  <2>2. ~(0 + Cardinality(Page) >= Most)
    BY <1>6, <2>1 DEF Full, Most
  <2>3. Cardinality(Page) \in Nat /\ Most \in Nat
    BY <1>1, PageIsNew, PageSizeAssumption DEF Most
  <2>4. Found = repos
    BY <1>1, <2>1, <2>2, <2>3, FoundIsAll
  <2> QED BY <1>4, <2>1, <2>4
<1>7. CASE kind \in {"catalog", "ecr"}
  <2>1. Page = PageAfter(last) /\ Listed(Page) = Page
    BY <1>7, ListedIs DEF Page, IInv
  <2>2. r <= last \/ r \in Page
    <3>1. CASE kind = "catalog"
      <4>1. Cardinality(Page) < PageSize
        BY <3>1 DEF LastPage
      <4> QED BY <1>1, <1>4, <2>1, <4>1, PageAfterIsNext
    <3>2. CASE kind = "ecr"
      BY <1>4, <3>2 DEF LastPage
    <3> QED BY <1>7, <3>1, <3>2
  <2>3. r <= last => r \in list
    BY <1>2, <1>7 DEF Covered, CoveredTo
  <2> QED BY <2>1, <2>2, <2>3
<1> QED BY <1>1, <1>2, <1>5, <1>6, <1>7 DEF Kinds

LEMMA PageCounted ==
    ASSUME IInv, pc = "page"
    PROVE  LET n == count + Cardinality(Listed(Page)) IN
           /\ n \in Nat
           /\ kind # "dockerhub" => n = Cardinality(list \cup Page)
           /\ maxItems > 0 => n <= CASE kind = "index" -> maxItems
                                     [] kind = "ecr" -> maxItems + PageSize - 1
                                     [] OTHER -> maxItems + PageSize
<1> DEFINE P == Listed(Page)
<1>1. /\ repos \in SUBSET Repos /\ list \in SUBSET Repos /\ count \in Nat
      /\ kind \in Kinds /\ maxItems \in Int /\ PageSize \in Nat
  BY PageSizeAssumption DEF IInv, Types
<1>2. /\ P \in SUBSET repos /\ Cardinality(P) \in Nat
      /\ kind # "dockerhub" => P \cap list = {}
      /\ Cardinality(P) <= IF kind = "index" THEN Most ELSE PageSize
  <2>1. P \in SUBSET Page /\ IsFiniteSet(Page) /\ Page \in SUBSET repos
    BY <1>1, PageIsNew, ReposFinite, ListedIs
  <2>2. Cardinality(P) \in Nat /\ Cardinality(P) <= Cardinality(Page)
    BY <2>1, FS_Subset, FS_CardinalityType
  <2> HIDE DEF P
  <2> QED BY <1>1, <2>1, <2>2, PageIsNew, PageSizeAssumption DEF Most
<1>3. Covered /\ Fits /\ kind # "refused"
  BY DEF IInv, Retrieving
<1>4. ASSUME kind # "dockerhub"
      PROVE  count + Cardinality(P) = Cardinality(list \cup P)
  <2>1. IsFiniteSet(list) /\ IsFiniteSet(P) /\ Cardinality(list) = count
    BY <1>1, <1>2, <1>4, ReposFinite DEF IInv, Counted
  <2>2. Cardinality(list \cap P) = 0
    BY <1>2, <1>4, FS_EmptySet
  <2>3. Cardinality(list \cup P)
           = Cardinality(list) + Cardinality(P) - Cardinality(list \cap P)
    BY <2>1, FS_Union
  <2> QED BY <1>1, <1>2, <2>1, <2>2, <2>3
<1>5. ASSUME maxItems > 0
      PROVE  count + Cardinality(P) <= CASE kind = "index" -> maxItems
                                            [] kind = "ecr" -> maxItems + PageSize - 1
                                            [] OTHER -> maxItems + PageSize
  <2>1. CASE kind = "index"
    <3>1. count = 0 /\ Most = maxItems
      BY <1>3, <1>5, <2>1 DEF Covered, CoveredTo, Most
    <3> QED BY <1>1, <1>2, <2>1, <3>1
  <2>2. CASE kind = "ecr"
    <3>1. count < maxItems /\ Cardinality(P) <= PageSize
      BY <1>2, <1>3, <1>5, <2>2 DEF Fits
    <3> QED BY <1>1, <1>2, <2>2, <3>1
  <2>3. CASE kind \in {"catalog", "dockerhub"}
    <3>1. count <= maxItems /\ Cardinality(P) <= PageSize
      BY <1>2, <1>3, <1>5, <2>3 DEF Fits
    <3> QED BY <1>1, <1>2, <2>3, <3>1
  <2> QED BY <1>1, <1>3, <2>1, <2>2, <2>3 DEF Kinds
<1>6. kind # "dockerhub" => P = Page
  BY ListedIs
<1>7. count + Cardinality(P) \in Nat
  BY <1>1, <1>2
<1> HIDE DEF P
<1> QED BY <1>4, <1>5, <1>6, <1>7 DEF P

LEMMA GetPageIInv == IInv /\ GetPage => IInv'
<1> SUFFICES ASSUME IInv, GetPage PROVE IInv'
  OBVIOUS
<1> DEFINE found == list \cup Listed(Page)
           n == count + Cardinality(Listed(Page))
<1>1. /\ pc = "page" /\ Retrieving /\ Types /\ OnePageTooMany
      /\ (kind = "catalog" => registry # "ecr")
  BY DEF GetPage, IInv
<1>2. /\ list' = found /\ count' = n /\ last' = NextLast /\ page' = page + 1
      /\ full' = Full(n)
  BY DEF GetPage, NextLast, Full
<1>3. UNCHANGED <<registry, kind, maxItems, duration, decodes, token, repos, changes,
                  faults, lasting, seen, torn>>
  BY DEF GetPage, settings
<1>4. /\ LastPage(Page) \/ Full(n) => Deliver(found)
      /\ ~(LastPage(Page) \/ Full(n)) => UNCHANGED <<pc, cached, left, outcome, got>>
  BY <1>2 DEF GetPage, cacheVars, resultVars
<1>5. /\ found \in SUBSET Repos /\ found \subseteq seen /\ n \in Nat
      /\ NextLast \in Repos \cup {0} /\ page \in Nat \ {0}
  <2>1. Page \in SUBSET repos /\ NextLast \in Repos \cup {0} /\ n \in Nat
    BY <1>1, PageIsNew, LastIsGreatest, PageCounted
  <2>2. Listed(Page) \subseteq Listed(repos)
    BY <2>1 DEF Listed
  <2>3. Listed(Page) \in SUBSET Page
    BY ListedIs
  <2> QED BY <1>1, <2>1, <2>2, <2>3 DEF Types, Retrieving
<1>6. /\ kind # "dockerhub" => n = Cardinality(found)
      /\ maxItems > 0 => n <= CASE kind = "index" -> maxItems
                                [] kind = "ecr" -> maxItems + PageSize - 1
                                [] OTHER -> maxItems + PageSize
  BY <1>1, PageCounted, ListedIs
<1>7. Full(n) \in BOOLEAN
  <2>1. CASE kind = "index"
    BY <2>1 DEF Full
  <2>2. CASE kind = "ecr"
    BY <2>2 DEF Full
  <2>3. CASE kind \notin {"index", "ecr"}
    BY <2>3 DEF Full
  <2> QED BY <2>1, <2>2, <2>3
<1> HIDE DEF found, n
<1>8. Counted' /\ OnePageTooMany'
  BY <1>2, <1>3, <1>6 DEF Counted, OnePageTooMany
<1>9. page' \in Nat \ {0}
  BY <1>2, <1>5
<1>10. CASE LastPage(Page) \/ Full(n)
  <2>1. Deliver(found)
    BY <1>4, <1>10
  <2>2. /\ pc' = "idle" /\ outcome' = "list" /\ got' = found
        /\ cached' \subseteq Repos /\ left' \in 0 .. Longest'
        /\ left' > 0 => cached' = found
    BY <1>1, <1>3, <1>5, <2>1, Delivers
  <2>3. Types'
    BY <1>1, <1>2, <1>3, <1>5, <1>7, <1>9, <2>2 DEF Types
  <2>4. full' \/ torn' \/ lasting' \subseteq found
    <3> SUFFICES ASSUME ~Full(n), ~torn PROVE lasting \subseteq found
      BY <1>2, <1>3
    <3> QED BY <1>1, <1>10, LastPageCompletes DEF found, n
  <2>5. Good(got)' /\ (left' > 0 => Good(cached)')
    BY <1>3, <1>5, <2>2, <2>4 DEF Good
  <2> QED BY <1>1, <1>3, <1>8, <2>2, <2>3, <2>5 DEF IInv
<1>11. CASE ~(LastPage(Page) \/ Full(n))
  <2>1. UNCHANGED <<pc, cached, left, outcome, got>>
    BY <1>4, <1>11
  <2>2. Types'
    BY <1>1, <1>2, <1>3, <1>5, <1>7, <1>9, <2>1 DEF Types, Longest
  <2>3. kind # "index" /\ maxItems \in Int
    BY <1>1, <1>11 DEF LastPage, Types
  <2>4. Covered'
    <3>1. \A r : Rank(repos, r)' = Rank(repos', r)
      BY DEF Rank, Below
    <3>2. /\ kind \in {"catalog", "ecr"} =>
                /\ \A x \in found : x <= NextLast
                /\ \A r \in lasting : r <= NextLast => r \in found
          /\ kind = "dockerhub" /\ ~torn =>
                \A r \in lasting : Rank(repos, r) < page * PageSize => r \in found
      BY <1>1, PageCovers DEF found
    <3>3. ASSUME kind = "dockerhub", ~torn, NEW r \in lasting',
                 Rank(repos, r)' < (page' - 1) * PageSize
          PROVE  r \in list'
      <4>1. page' - 1 = page /\ Rank(repos, r)' = Rank(repos, r) /\ r \in lasting
        BY <1>2, <1>3, <1>5, <3>1
      <4> QED BY <1>2, <3>2, <3>3, <4>1
    <3>4. /\ kind \in {"catalog", "ecr"} =>
                /\ \A x \in list' : x <= last'
                /\ \A r \in lasting' : r <= last' => r \in list'
          /\ kind' = kind /\ torn' = torn
      BY <1>2, <1>3, <3>2
    <3> QED BY <2>3, <3>3, <3>4 DEF Covered, CoveredTo
  <2>5. Fits'
    <3>1. ~Full(n)
      BY <1>11
    <3>2. /\ maxItems > 0 /\ kind = "ecr" => n < maxItems
          /\ maxItems > 0 /\ kind \in {"catalog", "dockerhub"} => n <= maxItems
      BY <1>5, <2>3, <3>1 DEF Full
    <3> QED BY <1>2, <1>3, <3>2 DEF Fits
  <2>6. full' = FALSE
    BY <1>2, <1>7, <1>11
  <2>7. Retrieving'
    BY <1>1, <1>2, <1>3, <1>5, <2>1, <2>4, <2>5, <2>6 DEF Retrieving, Listed
  <2>8. left = 0 /\ outcome = "none"
    BY <1>1 DEF Retrieving
  <2> QED BY <1>1, <1>3, <1>8, <2>1, <2>2, <2>7, <2>8 DEF IInv
<1> QED BY <1>10, <1>11

-----------------------------------------------------------------------------

LEMMA StepIInv == IInv /\ [Next]_vars => IInv'
<1> SUFFICES ASSUME IInv, [Next]_vars PROVE IInv'
  OBVIOUS
<1>1. CASE GetCached
  BY <1>1, GetCachedIInv
<1>2. CASE Get
  BY <1>2, GetIInv
<1>3. CASE Login
  BY <1>3, LoginIInv
<1>4. CASE LoginFails
  <2>1. pc # "idle" /\ faults < MaxFaults /\ faults' = faults + 1
    BY <1>4 DEF LoginFails
  <2>2. faults' \in 0 .. MaxFaults
    BY <2>1, BoundsAssumption DEF IInv, Types
  <2> QED BY <1>4, <2>1, <2>2, FailsIInv DEF LoginFails
<1>5. CASE GetPage
  BY <1>5, GetPageIInv
<1>6. CASE PageFails
  <2>1. /\ pc # "idle"
        /\ faults' = faults \/ (faults < MaxFaults /\ faults' = faults + 1)
    BY <1>6 DEF PageFails
  <2>2. faults' \in 0 .. MaxFaults
    BY <2>1, BoundsAssumption DEF IInv, Types
  <2> QED BY <1>6, <2>1, <2>2, FailsIInv DEF PageFails
<1>7. CASE PageRefused
  BY <1>7, PageRefusedIInv
<1>8. CASE Change
  BY <1>8, ChangeIInv
<1>9. CASE Pass
  BY <1>9, PassIInv
<1>10. CASE UNCHANGED vars
  <2> USE <1>10 DEF vars, settings, cacheVars, listVars, resultVars, historyVars
  <2>1. Types' /\ Counted' /\ OnePageTooMany'
    BY DEF IInv, Types, Counted, OnePageTooMany, Longest
  <2>2. (outcome = "list" => Good(got))' /\ (left > 0 => Good(cached))'
    BY DEF IInv, Good
  <2>3. pc # "idle" => Retrieving'
    BY DEF IInv, Retrieving, Covered, CoveredTo, Fits, Rank, Below, Listed
  <2> QED BY <2>1, <2>2, <2>3 DEF IInv
<1> QED BY <1>1, <1>2, <1>3, <1>4, <1>5, <1>6, <1>7, <1>8, <1>9, <1>10 DEF Next

LEMMA Invariance == Spec => []IInv
BY InitIInv, StepIInv, PTL DEF Spec

\* The variables of RepoList keep their types, and except at DockerHub what is
\* counted against the limit is the number of different repositories found.
THEOREM TypeCorrect == Spec => []TypeOK
<1>1. IInv => TypeOK
  BY DEF IInv, Types, Counted, TypeOK, Longest
<1> QED BY <1>1, Invariance, PTL

\* What Get() returns has every repository that was there all the time while the
\* list was retrieved, and none that was not, for any order in which repositories
\* come and go between the pages: a page is asked for by the last repository, not
\* by its number. At DockerHub, where it is by number, that is so as long as none
\* is removed; those that are created only move others to a later page.
THEOREM ListsAreFaithful == Spec => []Faithful
<1>1. IInv => Faithful
  BY DEF IInv, Good, Faithful
<1> QED BY <1>1, Invariance, PTL

\* What is retrieved exceeds the limit by no more than a page, whatever the limit
\* and the length of a page are.
THEOREM LimitHolds == Spec => []OnePageTooMany
<1>1. IInv => OnePageTooMany
  BY DEF IInv
<1> QED BY <1>1, Invariance, PTL

-----------------------------------------------------------------------------
(* The number of requests. Where the next page is asked for by the last    *)
(* repository, each page but the last is a full one of repositories that   *)
(* are new in the list; where it is asked for by its number, there are     *)
(* still repositories for it.                                              *)

RequestsInv ==
    pc # "idle" => /\ (page - 1) * PageSize <= Cardinality(Repos)
                   /\ kind # "dockerhub" => count = (page - 1) * PageSize

LEMMA PagesAreFull ==
    ASSUME IInv, pc = "page", kind # "dockerhub", ~LastPage(Page)
    PROVE  Cardinality(Page) = PageSize
<1>1. repos \in SUBSET Repos /\ last \in Nat /\ kind \in {"catalog", "ecr"}
  <2>1. repos \in SUBSET Repos /\ last \in Nat /\ kind \in Kinds
    BY ReposAssumption DEF IInv, Types
  <2>2. kind # "refused" /\ kind # "index"
    BY DEF IInv, Retrieving, LastPage
  <2> QED BY <2>1, <2>2 DEF Kinds
<1>2. Page = PageAfter(last)
  BY <1>1 DEF Page, IInv
<1>3. Cardinality(Page) \in Nat /\ Cardinality(Page) <= PageSize /\ PageSize \in Nat
  BY <1>1, <1>2, PageIsNew, PageAfterIsNext, PageSizeAssumption
<1>4. ~(Cardinality(Page) < PageSize)
  <2>1. CASE kind = "catalog"
    BY <2>1 DEF LastPage
  <2>2. CASE kind = "ecr"
    <3>1. PICK x \in repos : x \notin Page /\ ~(x <= last)
      BY <2>2 DEF LastPage
    <3>2. x > last
      BY <1>1, <3>1, ReposFinite
    <3> QED BY <1>1, <1>2, <3>1, <3>2, PageAfterIsNext
  <2> QED BY <1>1, <2>1, <2>2
<1> QED BY <1>3, <1>4

LEMMA RequestsStep == IInv /\ RequestsInv /\ [Next]_vars => RequestsInv'
<1> SUFFICES ASSUME IInv, RequestsInv, [Next]_vars, pc' # "idle" PROVE RequestsInv'
  BY DEF RequestsInv
<1> USE DEF settings, listVars
<1>1. IsFiniteSet(Repos) /\ Cardinality(Repos) \in Nat
  BY ReposAssumption, FS_CardinalityType
<1>2. CASE Get
  <2>1. page' = 1 /\ count' = 0 /\ PageSize \in Nat
    BY <1>2, PageSizeAssumption DEF Get
  <2>2. (page' - 1) * PageSize = 0
    BY <2>1
  <2> QED BY <1>1, <2>1, <2>2 DEF RequestsInv
<1>3. CASE GetPage
  <2>1. /\ pc = "page" /\ ~LastPage(Page)
        /\ page' = page + 1 /\ kind' = kind
        /\ list' = list \cup Listed(Page)
        /\ count' = count + Cardinality(Listed(Page))
    BY <1>3 DEF GetPage, Deliver
  <2>2. page \in Nat \ {0} /\ repos \in SUBSET Repos /\ count \in Nat
    BY DEF IInv, Types
  <2>3. /\ (page - 1) * PageSize \in Nat /\ page * PageSize \in Nat
        /\ page * PageSize - (page - 1) * PageSize = PageSize
        /\ PageSize \in Nat
    BY <2>2, PageBounds, PageSizeAssumption
  <2>4. page' - 1 = page
    BY <2>1, <2>2
  <2>5. ASSUME kind # "dockerhub"
        PROVE  count' = page * PageSize /\ page * PageSize <= Cardinality(Repos)
    <3>1. count = (page - 1) * PageSize /\ Cardinality(Page) = PageSize
      BY <2>1, <2>5, PagesAreFull DEF RequestsInv
    <3>2. count' = page * PageSize /\ list' = list \cup Page
      BY <2>1, <2>3, <2>5, <3>1, ListedIs
    <3>3. count' = Cardinality(list')
      BY <2>1, <2>5, <3>2, PageCounted
    <3>4. list' \in SUBSET Repos
      <4>1. Page \in SUBSET repos /\ list \in SUBSET Repos
        BY <2>1, PageIsNew DEF IInv, Types
      <4> QED BY <2>2, <3>2, <4>1
    <3>5. Cardinality(list') <= Cardinality(Repos)
      BY <1>1, <3>4, FS_Subset
    <3> QED BY <3>2, <3>3, <3>5
  <2>6. ASSUME kind = "dockerhub" PROVE page * PageSize <= Cardinality(Repos)
    <3>1. ~(Cardinality(repos) <= page * PageSize)
      BY <2>1, <2>6 DEF LastPage
    <3>2. Cardinality(repos) \in Nat /\ Cardinality(repos) <= Cardinality(Repos)
      BY <1>1, <2>2, ReposFinite, FS_Subset
    <3> QED BY <1>1, <2>3, <3>1, <3>2
  <2> QED BY <2>1, <2>4, <2>5, <2>6 DEF RequestsInv
<1>4. CASE Login
  <2>1. pc # "idle" /\ UNCHANGED <<page, count, kind>>
    BY <1>4 DEF Login
  <2> QED BY <2>1 DEF RequestsInv
<1>5. CASE GetCached \/ Change \/ Pass \/ UNCHANGED vars
  <2>1. UNCHANGED <<pc, page, count, kind>>
    BY <1>5 DEF GetCached, Change, Pass, vars
  <2> QED BY <2>1 DEF RequestsInv
<1>6. CASE LoginFails \/ PageFails \/ PageRefused
  BY <1>6 DEF LoginFails, PageFails, PageRefused, Fails, Deliver
<1> QED BY <1>2, <1>3, <1>4, <1>5, <1>6 DEF Next

\* For any repositories and any page size: the retrieval of a list comes to its
\* end within a number of requests that is known beforehand, however many
\* repositories are created and removed meanwhile.
THEOREM RequestsAreBounded == Spec => []RequestsAreFew
<1>1. Init => RequestsInv
  BY DEF Init, RequestsInv
<1>2. RequestsInv => RequestsAreFew
  BY DEF RequestsInv, RequestsAreFew
<1> QED BY Invariance, RequestsStep, <1>1, <1>2, PTL DEF Spec
=============================================================================
