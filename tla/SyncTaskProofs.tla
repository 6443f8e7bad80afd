--------------------------- MODULE SyncTaskProofs ---------------------------
(***************************************************************************)
(* What holds of SyncTask for any number of mappings and repositories, any *)
(* locations, intervals and lifetimes of credentials.                      *)
(***************************************************************************)
EXTENDS SyncTask, TLAPS

-----------------------------------------------------------------------------
(* Credentials.                                                            *)

\* An interval is never zero, so that the margin is shorter than the lifetime.
LEMMA IntervalIsPositive ==
    ASSUME NEW l \in Location
    PROVE  Interval(l) \in Nat \ {0}
BY LifetimeAssumption DEF Interval, Location, NoRefresh

LEMMA MarginIsShort ==
    ASSUME loc \in [Sides -> Location], NEW s \in Sides
    PROVE  Margin(s) \in Int /\ Margin(s) < Lifetime
<1>1. Interval(loc[s]) \in Nat \ {0}
      BY IntervalIsPositive
<1> QED BY <1>1, LifetimeAssumption DEF Margin

\* What the refresher counts on the registry accepts, with the margin to spare.
CredInv ==
    \A s \in Sides :
        Refresher(loc[s]) # "none" /\ expiry[s] > 0 => life[s] >= Margin(s) + expiry[s]

\* Any refresh that succeeds leaves credentials that outlive the margin.
LEMMA RefreshSucceeds ==
    ASSUME CredTypeOK, CredInv, NEW s \in Sides, Refresh(s)
    PROVE  /\ CredTypeOK' /\ CredInv'
           /\ loc' = loc
           /\ Refresher(loc[s]) = "none" \/ life'[s] > Margin(s)
           /\ \A o \in Sides \ {s} : life'[o] = life[o]
<1> USE LifetimeAssumption DEF CredTypeOK
<1>1. /\ loc' = loc
      /\ \A o \in Sides : Margin(o)' = Margin(o)
      BY DEF Refresh, credVars, Margin
<1>2. Interval(loc[s]) \in Nat \ {0} /\ Margin(s) \in Int
      BY IntervalIsPositive, MarginIsShort
<1>3. CASE ~Required(s)
      BY <1>1, <1>2, <1>3 DEF Refresh, credVars, Required, CredInv
<1>4. CASE Required(s)
  <2>1. PICK new \in Renewed(s) : /\ life' = [life EXCEPT ![s] = new.life]
                                  /\ expiry' = [expiry EXCEPT ![s] = new.expiry]
        BY <1>4 DEF Refresh
  <2>2. /\ new.life \in 0 .. Lifetime /\ new.expiry \in Nat \ {0}
        /\ new.life >= Margin(s) + new.expiry
    <3>1. CASE Refresher(loc[s]) = "ecr"
          BY <1>2, <2>1, <3>1 DEF Renewed, Margin
    <3>2. CASE Refresher(loc[s]) # "ecr"
      <4>1. PICK n \in 1 .. Lifetime : new = [life |-> n, expiry |-> n]
            BY <2>1, <3>2 DEF Renewed
      <4> QED BY <4>1, <3>2 DEF Margin
    <3> QED BY <3>1, <3>2
  <2>3. CredTypeOK'
        BY <1>1, <2>1, <2>2
  <2>4. CredInv'
        BY <1>1, <2>1, <2>2 DEF CredInv
  <2>5. life'[s] = new.life /\ \A o \in Sides \ {s} : life'[o] = life[o]
        BY <2>1
  <2>6. new.life > Margin(s)
        BY <1>2, <2>2
  <2> QED BY <1>1, <2>3, <2>4, <2>5, <2>6
<1> QED BY <1>3, <1>4

LEMMA AgeKeeps ==
    ASSUME CredTypeOK, CredInv, Age
    PROVE  CredTypeOK' /\ CredInv'
<1> USE LifetimeAssumption DEF CredTypeOK, Age
<1>1. CredTypeOK'
      OBVIOUS
<1>2. ASSUME NEW s \in Sides, Refresher(loc[s]) # "none", expiry'[s] > 0
      PROVE  life'[s] >= Margin(s) + expiry'[s]
  <2>1. Margin(s) \in Int /\ Margin(s) < Lifetime
        BY MarginIsShort
  <2>2. expiry[s] \in Nat /\ life[s] \in Nat /\ expiry'[s] = expiry[s] - 1
        BY <1>2
  <2>3. life[s] >= Margin(s) + expiry[s] /\ life'[s] >= life[s] - 1
        BY <1>2, <2>2 DEF CredInv
  <2>4. life'[s] \in Nat
        BY <1>1
  <2> QED BY <2>1, <2>2, <2>3, <2>4
<1>3. \A s \in Sides : Margin(s)' = Margin(s)
      BY DEF Margin
<1> QED BY <1>1, <1>2, <1>3 DEF CredInv

LEMMA CredUnchanged ==
    ASSUME CredTypeOK, CredInv, UNCHANGED credVars
    PROVE  CredTypeOK' /\ CredInv'
BY DEF CredTypeOK, CredInv, credVars, Margin

-----------------------------------------------------------------------------
(* Type correctness.                                                       *)

\* While a mapping is worked on it is one.
AtWork == {"target auth", "list", "ref", "describe", "create", "relay"}
MappingInv ==
    /\ pc \in AtWork => m \in MappingIds
    /\ pc = "mapping" => m \in 1 .. Mappings + 1

TypeInv == TypeOK /\ CredInv /\ MappingInv

LEMMA InitTypeInv == Init => TypeInv
<1> SUFFICES ASSUME Init PROVE TypeInv
    OBVIOUS
<1> USE LifetimeAssumption, MappingsAssumption
<1>1. CredTypeOK /\ CredInv
  <2>1. loc \in [Sides -> Location]
        BY LocationsAssumption DEF Init
  <2> QED BY <2>1 DEF Init, CredInit, CredTypeOK, CredInv
<1>2. TypeOK
  <2>1. wanted \in [MappingIds -> SUBSET Repos]
        BY DEF Init
  <2>2. m \in 0 .. Mappings + 1 /\ spent \in 0 .. Lifetime
        BY DEF Init
  <2> QED BY <1>1, <2>1, <2>2 DEF Init, TypeOK
<1>3. MappingInv
      BY DEF Init, MappingInv, AtWork
<1> QED BY <1>1, <1>2, <1>3 DEF TypeInv

\* What a step that gives up a mapping leaves behind
LEMMA GiveUpTypes ==
    ASSUME TypeInv, m \in MappingIds, NEW step \in {"auth", "list", "target"},
           GiveUp(step), CredTypeOK', CredInv', spent' \in 0 .. Lifetime
    PROVE  TypeInv'
<1> USE LifetimeAssumption, MappingsAssumption DEF GiveUp, NextMapping
<1>1. m' \in 1 .. Mappings + 1 /\ pc' = "mapping"
      BY DEF MappingIds
<1>2. MappingInv'
      BY <1>1 DEF MappingInv, AtWork
<1>3. dropped' \subseteq MappingIds \X {"auth", "list", "target"}
  <2>1. dropped \subseteq MappingIds \X {"auth", "list", "target"}
        BY DEF TypeInv, TypeOK
  <2>2. <<m, step>> \in MappingIds \X {"auth", "list", "target"}
        OBVIOUS
  <2>3. dropped' = dropped \cup {<<m, step>>}
        OBVIOUS
  <2> QED BY <2>1, <2>2, <2>3
<1>4. /\ refs' \subseteq Repos /\ ref' \subseteq Repos
      /\ failed' \in BOOLEAN
      /\ existing' \subseteq Paths
      /\ wanted' \in [MappingIds -> SUBSET Repos]
      /\ tried' \subseteq MappingIds \X Repos
      /\ synced' \subseteq tried'
      BY DEF TypeInv, TypeOK
<1>5. TypeOK'
  <2>1. /\ pc' \in {"idle", "mapping", "target auth", "list", "ref", "describe",
                    "create", "relay"}
        /\ m' \in 0 .. Mappings + 1
        BY <1>1
  <2> QED BY <1>3, <1>4, <2>1 DEF TypeOK
<1> QED BY <1>2, <1>5 DEF TypeInv

LEMMA GoOnTypes ==
    ASSUME TypeInv, m \in MappingIds, NEW place \in AtWork, GoOn(place),
           CredTypeOK', CredInv', spent' \in 0 .. Lifetime
    PROVE  TypeInv'
BY DEF TypeInv, TypeOK, MappingInv, AtWork, GoOn, refVars, resultVars

LEMMA NextTypeInv == TypeInv /\ [Next]_vars => TypeInv'
<1> SUFFICES ASSUME TypeInv, [Next]_vars PROVE TypeInv'
    OBVIOUS
<1> USE LifetimeAssumption, MappingsAssumption
<1>0. CredTypeOK /\ CredInv /\ spent \in 0 .. Lifetime
      BY DEF TypeInv, TypeOK
<1>a. UNCHANGED credVars => CredTypeOK' /\ CredInv'
      BY <1>0, CredUnchanged
<1>1. CASE Begin
  <2>1. wanted' \in [MappingIds -> SUBSET Repos]
        BY <1>1 DEF Begin
  <2>2. m' \in 1 .. Mappings + 1 /\ pc' = "mapping"
        BY <1>1 DEF Begin
  <2>3. TypeOK'
    <3>1. /\ refs' = {} /\ ref' = {} /\ tried' = {} /\ synced' = {} /\ dropped' = {}
          /\ failed' = FALSE /\ existing' = existing /\ spent' = spent
          BY <1>1 DEF Begin, Reset
    <3>2. CredTypeOK' /\ existing' \subseteq Paths /\ spent' \in 0 .. Lifetime
          BY <1>1, <1>0, <1>a, <3>1 DEF Begin, TypeInv, TypeOK
    <3>3. m' \in 0 .. Mappings + 1
          BY <2>2
    <3> QED BY <2>1, <2>2, <3>1, <3>2, <3>3 DEF TypeOK
  <2>4. MappingInv'
        BY <2>2 DEF MappingInv, AtWork
  <2> QED BY <1>1, <1>a, <2>3, <2>4 DEF TypeInv, Begin
<1>2. CASE RefreshSource
  <2>0. m \in MappingIds /\ spent' = 0
        BY <1>2, Zenon DEF RefreshSource
  <2>1. m \in MappingIds /\ spent' \in 0 .. Lifetime
        BY <2>0
  <2>2. CASE Refresh("source") /\ GoOn("target auth")
        BY <1>0, <2>1, <2>2, RefreshSucceeds, GoOnTypes DEF AtWork, Sides
  <2>3. CASE RefreshFails("source") /\ GiveUp("auth")
        BY <1>a, <2>1, <2>3, GiveUpTypes DEF RefreshFails
  <2> QED BY <1>2, <2>2, <2>3 DEF RefreshSource
<1>3. CASE RefreshTarget
  <2>1. m \in MappingIds /\ spent' \in 0 .. Lifetime
        BY <1>0, <1>3 DEF RefreshTarget, TypeInv, MappingInv, AtWork
  <2>2. CASE Refresh("target") /\ GoOn("list")
        BY <1>0, <2>1, <2>2, RefreshSucceeds, GoOnTypes DEF AtWork, Sides
  <2>3. CASE RefreshFails("target") /\ GiveUp("auth")
        BY <1>a, <2>1, <2>3, GiveUpTypes DEF RefreshFails
  <2> QED BY <1>3, <2>2, <2>3 DEF RefreshTarget
<1>4. CASE MappingRefs
  <2>1. m \in MappingIds /\ spent' \in 0 .. Lifetime
        BY <1>0, <1>4 DEF MappingRefs, TypeInv, MappingInv, AtWork
  <2>2. ASSUME ListerRefreshes PROVE CredTypeOK' /\ CredInv'
        BY <1>0, <1>a, <2>2, RefreshSucceeds DEF ListerRefreshes, Sides
  <2>3. CASE GiveUp("list") /\ ListerRefreshes
        BY <2>1, <2>2, <2>3, GiveUpTypes
  <2>4. ASSUME NEW found \in Found,
               /\ refs' = found
               /\ wanted' = [wanted EXCEPT ![m] = found]
               /\ pc' = "ref"
               /\ ListerRefreshes
               /\ UNCHANGED <<m, ref, failed, existing, resultVars>>
        PROVE  TypeInv'
    <3>1. found \subseteq Repos
          BY <2>1, FromAssumption DEF Found
    <3> QED BY <2>1, <2>2, <2>4, <3>1
            DEF TypeInv, TypeOK, MappingInv, AtWork, resultVars
  <2> QED BY <1>4, <2>3, <2>4 DEF MappingRefs
<1>5. CASE MappingDone
      BY <1>5, <1>a DEF TypeInv, TypeOK, MappingInv, AtWork, MappingDone,
                        NextMapping, resultVars, MappingIds
<1>6. CASE TakeRef
      BY <1>6, <1>a DEF TypeInv, TypeOK, MappingInv, AtWork, TakeRef, Remaining,
                        resultVars
<1>7. CASE Describe
  <2>1. m \in MappingIds /\ CredTypeOK' /\ CredInv' /\ spent' \in 0 .. Lifetime
        BY <1>0, <1>a, <1>7 DEF Describe, TypeInv, MappingInv, AtWork
  <2>2. CASE GoOn("relay")
        BY <2>1, <2>2, GoOnTypes DEF AtWork
  <2>3. CASE GoOn("create")
        BY <2>1, <2>3, GoOnTypes DEF AtWork
  <2>4. CASE GiveUp("target")
        BY <2>1, <2>4, GiveUpTypes
  <2> QED BY <1>7, <2>2, <2>3, <2>4 DEF Describe, DescribeFails
<1>8. CASE Create
  <2>1. m \in MappingIds /\ CredTypeOK' /\ CredInv' /\ spent' \in 0 .. Lifetime
        BY <1>0, <1>a, <1>8 DEF Create, TypeInv, MappingInv, AtWork
  <2>2. CASE GiveUp("target")
        BY <2>1, <2>2, GiveUpTypes
  <2>3. CASE ~GiveUp("target")
    <3>1. Target \subseteq Paths
      <4>1. ref \subseteq Repos /\ m \in MappingIds
            BY <2>1 DEF TypeInv, TypeOK
      <4>2. To[m] \in [Repos -> Paths]
            BY <4>1, ToAssumption
      <4> QED BY <4>1, <4>2 DEF Target
    <3> QED BY <1>8, <2>1, <2>3, <3>1
            DEF Create, TypeInv, TypeOK, MappingInv, AtWork, refVars, resultVars
  <2> QED BY <2>2, <2>3
<1>9. CASE RelaySync
      BY <1>9, <1>a DEF TypeInv, TypeOK, MappingInv, AtWork, RelaySync
<1>10. CASE Finish
      BY <1>10, <1>a DEF TypeInv, TypeOK, MappingInv, AtWork, Finish, GoOn, refVars,
                         resultVars
<1>11. CASE Others
      BY <1>11, <1>a DEF TypeInv, TypeOK, MappingInv, AtWork, Others, refVars,
                         resultVars
<1>12. CASE Pass
  <2>1. CredTypeOK' /\ CredInv'
        BY <1>0, <1>12, AgeKeeps DEF Pass
  <2>2. spent' \in 0 .. Lifetime
        BY <1>0, <1>12 DEF Pass
  <2> QED BY <1>12, <2>1, <2>2
          DEF TypeInv, TypeOK, MappingInv, AtWork, Pass, refVars, resultVars
<1>13. CASE UNCHANGED vars
      BY <1>13, <1>a DEF TypeInv, TypeOK, MappingInv, AtWork, vars, refVars, resultVars
<1> QED BY <1>1, <1>2, <1>3, <1>4, <1>5, <1>6, <1>7, <1>8, <1>9, <1>10, <1>11,
           <1>12, <1>13 DEF Next, SyncTask, CreateECRTarget

\* All variables of the sync of a task keep their types, whatever the mappings
\* and the locations.
THEOREM TypeCorrect == Spec => []TypeOK
<1>1. TypeInv => TypeOK
      BY DEF TypeInv
<1> QED BY <1>1, InitTypeInv, NextTypeInv, PTL DEF Spec

-----------------------------------------------------------------------------
(* The credentials at the call of the relay.                               *)

\* Once both locations have been refreshed, or found not to need it, the time
\* their credentials have left and the time spent on the mapping add up to more
\* than the margin.
Outlives(s) == Refresher(loc[s]) = "none" \/ life[s] + spent > Margin(s)

Refreshed ==
    /\ pc \in AtWork => Outlives("source")
    /\ pc \in AtWork \ {"target auth"} => Outlives("target")

\* Steps that take no time may refresh one side.
Renewing == UNCHANGED credVars \/ \E o \in Sides : Refresh(o)

LEMMA TypeFacts == TypeInv => CredTypeOK /\ CredInv /\ spent \in Nat
<1>1. TypeInv => CredTypeOK /\ CredInv /\ spent \in 0 .. Lifetime
      BY DEF TypeInv, TypeOK
<1> QED BY <1>1, LifetimeAssumption

LEMMA OutlivesStays ==
    ASSUME TypeInv, NEW s \in Sides, Outlives(s), UNCHANGED spent, Renewing
    PROVE  Outlives(s)'
<1> USE DEF Outlives
<1>0. CredTypeOK /\ CredInv /\ spent \in Nat
      BY TypeFacts
<1>1. CASE UNCHANGED credVars
      BY <1>1 DEF credVars, Margin
<1>2. ASSUME NEW o \in Sides, Refresh(o) PROVE Outlives(s)'
  <2>1. /\ loc' = loc /\ CredTypeOK'
        /\ Refresher(loc[o]) = "none" \/ life'[o] > Margin(o)
        /\ s # o => life'[s] = life[s]
        BY <1>0, <1>2, RefreshSucceeds
  <2>2. Margin(s)' = Margin(s) /\ Margin(s) \in Int /\ life'[s] \in Nat
        BY <1>0, <2>1, MarginIsShort, LifetimeAssumption DEF Margin, CredTypeOK
  <2> QED BY <1>0, <2>1, <2>2
<1> QED BY <1>1, <1>2 DEF Renewing

LEMMA RefreshOutlives ==
    ASSUME TypeInv, NEW s \in Sides, spent' \in Nat, Refresh(s)
    PROVE  Outlives(s)'
<1>1. CredTypeOK /\ CredInv
      BY DEF TypeInv, TypeOK
<1>2. /\ loc' = loc /\ CredTypeOK'
      /\ Refresher(loc[s]) = "none" \/ life'[s] > Margin(s)
      BY <1>1, RefreshSucceeds
<1>3. Margin(s)' = Margin(s) /\ Margin(s) \in Int /\ life'[s] \in Nat
      BY <1>1, <1>2, MarginIsShort, LifetimeAssumption DEF Margin, CredTypeOK
<1> QED BY <1>2, <1>3 DEF Outlives

LEMMA PassOutlives ==
    ASSUME TypeInv, NEW s \in Sides, Outlives(s), Pass
    PROVE  Outlives(s)'
<1>1. CredTypeOK /\ spent \in 0 .. Lifetime
      BY DEF TypeInv, TypeOK
<1>2. /\ loc' = loc
      /\ life'[s] = (IF life[s] > 0 THEN life[s] - 1 ELSE 0)
      /\ spent' = (IF spent < Lifetime THEN spent + 1 ELSE spent)
      BY DEF Pass, Age
<1>3. Margin(s)' = Margin(s) /\ Margin(s) \in Int /\ Margin(s) < Lifetime
      BY <1>1, <1>2, MarginIsShort DEF Margin, CredTypeOK
<1>4. life[s] \in Nat
      BY <1>1, LifetimeAssumption DEF CredTypeOK
<1>5. life[s] + spent > Margin(s) => life'[s] + spent' > Margin(s)
      BY <1>1, <1>2, <1>3, <1>4, LifetimeAssumption
<1> QED BY <1>2, <1>3, <1>5 DEF Outlives

LEMMA NextRefreshed == TypeInv /\ Refreshed /\ [Next]_vars => Refreshed'
<1> SUFFICES ASSUME TypeInv, Refreshed, [Next]_vars PROVE Refreshed'
    OBVIOUS
<1>0. "source" \in Sides /\ "target" \in Sides
      BY DEF Sides
<1>1. ASSUME pc' \notin AtWork PROVE Refreshed'
      BY <1>1 DEF Refreshed
<1>2. ASSUME UNCHANGED spent, Renewing,
             pc' \in AtWork => pc \in AtWork \ {"target auth"}
      PROVE  Refreshed'
      BY <1>0, <1>2, OutlivesStays DEF Refreshed
<1>3. ASSUME NEW step, GiveUp(step) PROVE Refreshed'
      BY <1>1, <1>3 DEF GiveUp, NextMapping, AtWork
<1>4. CASE RefreshSource
  <2>1. CASE Refresh("source") /\ GoOn("target auth")
    <3>1. spent' \in Nat
      <4>1. spent' = 0
            BY <1>4, Zenon DEF RefreshSource
      <4> QED BY <4>1
    <3>2. Outlives("source")'
          BY <1>0, <2>1, <3>1, RefreshOutlives
    <3>3. pc' = "target auth"
          BY <2>1, Zenon DEF GoOn
    <3> QED BY <3>2, <3>3 DEF Refreshed, AtWork
  <2> QED BY <1>3, <1>4, <2>1 DEF RefreshSource
<1>5. CASE RefreshTarget
  <2>1. CASE Refresh("target") /\ GoOn("list")
    <3>1. UNCHANGED spent /\ pc = "target auth"
          BY <1>5, Zenon DEF RefreshTarget
    <3>2. spent \in Nat
          BY TypeFacts
    <3>3. Outlives("target")'
          BY <1>0, <2>1, <3>1, <3>2, RefreshOutlives
    <3>4. Outlives("source")
          BY <3>1 DEF Refreshed, AtWork
    <3>5. Renewing
          BY <1>0, <2>1 DEF Renewing
    <3>6. Outlives("source")'
          BY <1>0, <3>1, <3>4, <3>5, OutlivesStays
    <3> QED BY <3>3, <3>6 DEF Refreshed
  <2> QED BY <1>3, <1>5, <2>1 DEF RefreshTarget
<1>6. CASE MappingRefs
  <2>1. UNCHANGED spent /\ pc = "list"
        BY <1>6, Zenon DEF MappingRefs
  <2>2. ListerRefreshes
        BY <1>6, Zenon DEF MappingRefs
  <2>3. Renewing
        BY <1>0, <2>2, Zenon DEF ListerRefreshes, Renewing
  <2> QED BY <1>2, <2>1, <2>3 DEF AtWork
<1>7. CASE Pass
  <2>1. UNCHANGED pc
        BY <1>7 DEF Pass
  <2> QED BY <1>0, <1>7, <2>1, PassOutlives DEF Refreshed
<1>8. ASSUME UNCHANGED credVars, UNCHANGED spent,
             pc' \in AtWork => pc \in AtWork \ {"target auth"}
      PROVE  Refreshed'
      BY <1>2, <1>8, Zenon DEF Renewing
<1>9. CASE Begin \/ MappingDone \/ Finish
      BY <1>1, <1>9 DEF Begin, MappingDone, NextMapping, Finish, GoOn, AtWork
<1>10. CASE TakeRef
      BY <1>8, <1>10 DEF TakeRef, AtWork
<1>11. CASE Describe
      BY <1>8, <1>11 DEF Describe, AtWork
<1>12. CASE Create
      BY <1>8, <1>12 DEF Create, AtWork
<1>13. CASE RelaySync
      BY <1>8, <1>13 DEF RelaySync, AtWork
<1>14. CASE Others \/ UNCHANGED vars
  <2>1. UNCHANGED <<credVars, spent, pc>>
        BY <1>14 DEF Others, vars
  <2>2. CASE pc \in AtWork \ {"target auth"} \/ pc \notin AtWork
        BY <1>8, <2>1, <2>2
  <2>3. CASE pc = "target auth"
    <3>1. Outlives("source")'
          BY <1>0, <2>1, <2>3, OutlivesStays DEF Refreshed, AtWork, Renewing
    <3> QED BY <2>1, <2>3, <3>1 DEF Refreshed
  <2> QED BY <2>2, <2>3 DEF AtWork
<1> QED BY <1>4, <1>5, <1>6, <1>7, <1>9, <1>10, <1>11, <1>12, <1>13, <1>14
        DEF Next, SyncTask, CreateECRTarget

\* For any mappings, locations, intervals and lifetimes: the relay is called
\* with credentials that are still accepted, unless the mapping has taken longer
\* than the interval leaves of the lifetime.
THEOREM CredentialsAreGood == Spec => []CredentialsLast
<1>1. Init => Refreshed
      BY DEF Init, Refreshed, AtWork
<1>2. TypeInv /\ Refreshed => CredentialsLast
  <2> SUFFICES ASSUME TypeInv, Refreshed, pc = "relay", NEW s \in Sides,
                      Refresher(loc[s]) # "none", life[s] <= 0
               PROVE  spent > Margin(s)
      BY MarginIsShort, LifetimeAssumption DEF CredentialsLast, TypeInv, TypeOK, CredTypeOK
  <2>1. Outlives(s)
        BY DEF Refreshed, AtWork, Sides
  <2>2. life[s] = 0 /\ spent \in Nat
        BY LifetimeAssumption DEF TypeInv, TypeOK, CredTypeOK
  <2> QED BY <2>1, <2>2 DEF Outlives
<1> QED BY <1>1, <1>2, InitTypeInv, NextTypeInv, NextRefreshed, PTL DEF Spec

-----------------------------------------------------------------------------
(* The target of an image that the relay is called with.                   *)

\* For any targets and mappings: an image is relayed to a repository that exists,
\* if the target is an ECR, no matter what others do between runs.
THEOREM TargetsExist == Spec => []TargetExists
<1>1. Init => TargetExists
      BY DEF Init, TargetExists
<1>2. TargetExists /\ [Next]_vars => TargetExists'
  <2> SUFFICES ASSUME TargetExists, [Next]_vars, pc' = "relay", loc'["target"].ecr,
                      NEW r \in ref'
               PROVE  To[m'][r] \in existing'
      BY DEF TargetExists
  <2>1. CASE TakeRef
    <3>1. loc' = loc /\ pc' = IF loc["target"].ecr THEN "describe" ELSE "relay"
          BY <2>1 DEF TakeRef, credVars
    <3> QED BY <3>1
  <2>2. CASE Describe
    <3>1. pc = "describe" /\ (GoOn(IF Target \subseteq existing THEN "relay" ELSE "create")
                              \/ GiveUp("target"))
          BY <2>2, Zenon DEF Describe, DescribeFails
    <3>2. CASE GiveUp("target")
          BY <3>2 DEF GiveUp, NextMapping
    <3>3. CASE GoOn(IF Target \subseteq existing THEN "relay" ELSE "create")
      <4>1. Target \subseteq existing /\ ref' = ref /\ m' = m /\ existing' = existing
            BY <3>3 DEF GoOn, refVars
      <4> QED BY <4>1 DEF Target
    <3> QED BY <3>1, <3>2, <3>3
  <2>3. CASE Create
    <3>1. CASE GiveUp("target")
          BY <3>1 DEF GiveUp, NextMapping
    <3>2. CASE /\ existing' = existing \cup Target
               /\ UNCHANGED <<m, refVars, failed, wanted, resultVars>>
          BY <3>2 DEF Target, refVars
    <3> QED BY <2>3, <3>1, <3>2 DEF Create
  <2>4. CASE Others \/ Pass \/ UNCHANGED vars
    <3>1. /\ pc = "relay" /\ ref' = ref /\ m' = m /\ loc' = loc
          /\ existing \subseteq existing'
          BY <2>4 DEF Others, Pass, Age, vars, refVars, credVars
    <3> QED BY <3>1 DEF TargetExists
  <2>5. ASSUME NEW step, GiveUp(step) PROVE FALSE
        BY <2>5 DEF GiveUp, NextMapping
  <2>6. CASE Begin \/ MappingDone \/ RelaySync \/ Finish
        BY <2>6 DEF Begin, MappingDone, NextMapping, RelaySync, Finish, GoOn
  <2>7. CASE RefreshSource
    <3>1. CASE GoOn("target auth")
          BY <3>1 DEF GoOn
    <3> QED BY <2>5, <2>7, <3>1, Zenon DEF RefreshSource
  <2>8. CASE RefreshTarget
    <3>1. CASE GoOn("list")
          BY <3>1 DEF GoOn
    <3> QED BY <2>5, <2>8, <3>1, Zenon DEF RefreshTarget
  <2>9. CASE MappingRefs
    <3>1. pc' = "ref" \/ GiveUp("list")
          BY <2>9, Zenon DEF MappingRefs
    <3> QED BY <2>5, <3>1
  <2> QED BY <2>1, <2>2, <2>3, <2>4, <2>6, <2>7, <2>8, <2>9
          DEF Next, SyncTask, CreateECRTarget
<1> QED BY <1>1, <1>2, PTL DEF Spec

-----------------------------------------------------------------------------
(* What a run has done, and what it knows of it. None of FailedIsExact and *)
(* EveryImageHasItsTurn is inductive: it takes that an image is tried once *)
(* only, and that what is left of a mapping is in refs and ref.            *)

AtImage == {"describe", "create", "relay"}
AtImages == {"ref"} \cup AtImage

\* There is an image at hand in the steps that are about one.
RefInv ==
    /\ pc \in AtImage => \E r \in Repos : ref = {r}
    /\ pc \notin AtImage => ref = {}
    /\ refs \cap ref = {}

\* An image that was tried belongs to a mapping so far, and is done with.
TriedInv ==
    \A i \in MappingIds, r \in Repos :
        <<i, r>> \in tried =>
            /\ r \in wanted[i]
            /\ i <= m
            /\ i = m => pc \in AtImages /\ r \notin refs \cup ref

\* The images of the current mapping have been tried or are still to come.
CoverInv ==
    pc \in AtImages =>
        /\ refs \cup ref \subseteq wanted[m]
        /\ \A r \in wanted[m] : r \in refs \cup ref \/ <<m, r>> \in tried
        /\ m \in Regexp \/ wanted[m] = From[m]

\* The flag tells whether anything has gone wrong so far.
FailInv == failed <=> dropped # {} \/ synced # tried

\* Between runs the last one is over, if there was any.
IdleInv ==
    pc = "idle" =>
        \/ m = Mappings + 1
        \/ ~failed /\ \A i \in MappingIds : wanted[i] = {}

RunInv ==
    RefInv /\ TriedInv /\ CoverInv /\ EveryImageHasItsTurn /\ FailInv /\ IdleInv

LEMMA InitRunInv == Init => RunInv
<1> SUFFICES ASSUME Init PROVE RunInv
    OBVIOUS
<1> USE MappingsAssumption DEF Init, AtImage, AtImages
<1>1. RefInv /\ TriedInv /\ CoverInv /\ FailInv
      BY DEF RefInv, TriedInv, CoverInv, FailInv
<1>2. EveryImageHasItsTurn
      BY DEF EveryImageHasItsTurn, MappingIds
<1>3. IdleInv
      BY DEF IdleInv
<1> QED BY <1>1, <1>2, <1>3 DEF RunInv

\* The variables that the invariant is about
runVars == <<pc, m, refVars, failed, wanted, resultVars>>

LEMMA RunUnchanged == RunInv /\ UNCHANGED runVars => RunInv'
BY DEF RunInv, RefInv, TriedInv, CoverInv, EveryImageHasItsTurn, FailInv, IdleInv,
       runVars, refVars, resultVars, Wanted

\* Giving up the current mapping, at whatever step
LEMMA GiveUpKeeps ==
    ASSUME TypeInv, RunInv, m \in MappingIds, NEW step, GiveUp(step)
    PROVE  RunInv'
<1> USE MappingsAssumption DEF GiveUp, NextMapping, RunInv
<1>1. m \in Int /\ MappingIds \subseteq Int
      BY DEF MappingIds
<1>2. RefInv'
      BY DEF RefInv, AtImage
<1>3. TriedInv'
      BY <1>1 DEF TriedInv, AtImages, AtImage
<1>4. CoverInv' /\ IdleInv'
      BY DEF CoverInv, AtImages, AtImage, IdleInv
<1>5. ASSUME NEW i \in MappingIds, i < m + 1
      PROVE  \/ \E d \in dropped' : d[1] = i
             \/ /\ \A r \in wanted[i] : <<i, r>> \in tried
                /\ i \in Regexp \/ wanted[i] = From[i]
  <2>1. CASE i < m
    <3>1. dropped \subseteq dropped'
          OBVIOUS
    <3> QED BY <2>1, <3>1 DEF EveryImageHasItsTurn
  <2>2. CASE i = m
    <3>1. <<m, step>> \in dropped' /\ <<m, step>>[1] = i
          BY <2>2
    <3> QED BY <3>1
  <2> QED BY <1>1, <1>5, <2>1, <2>2
<1>6. EveryImageHasItsTurn'
      BY <1>5 DEF EveryImageHasItsTurn
<1>7. FailInv'
      BY DEF FailInv
<1> QED BY <1>2, <1>3, <1>4, <1>6, <1>7

\* The step to the next part of a mapping, before any of its images
LEMMA GoOnKeeps ==
    ASSUME RunInv, NEW place \in {"target auth", "list"}, GoOn(place),
           pc \in {"mapping", "target auth"}
    PROVE  RunInv'
<1> USE DEF GoOn, refVars, resultVars, RunInv, AtImage, AtImages
<1>1. RefInv'
      BY DEF RefInv
<1>2. TriedInv'
      BY DEF TriedInv
<1>3. CoverInv' /\ IdleInv' /\ FailInv'
      BY DEF CoverInv, IdleInv, FailInv
<1>4. EveryImageHasItsTurn'
      BY DEF EveryImageHasItsTurn
<1> QED BY <1>1, <1>2, <1>3, <1>4

\* The same from one step about an image to another
LEMMA ImageKeeps ==
    ASSUME RunInv, pc \in AtImage, pc' \in AtImage,
           UNCHANGED <<m, refVars, failed, wanted, resultVars>>
    PROVE  RunInv'
<1> USE DEF refVars, resultVars, RunInv, AtImage, AtImages
<1>1. RefInv'
      BY DEF RefInv
<1>2. TriedInv'
      BY DEF TriedInv
<1>3. CoverInv' /\ IdleInv' /\ FailInv'
      BY DEF CoverInv, IdleInv, FailInv
<1>4. EveryImageHasItsTurn'
      BY DEF EveryImageHasItsTurn
<1> QED BY <1>1, <1>2, <1>3, <1>4

LEMMA NextRunInv == TypeInv /\ RunInv /\ [Next]_vars => RunInv'
<1> SUFFICES ASSUME TypeInv, RunInv, [Next]_vars PROVE RunInv'
    OBVIOUS
<1> USE MappingsAssumption
<1>0. /\ pc \in AtWork => m \in MappingIds
      /\ refs \subseteq Repos /\ ref \subseteq Repos
      /\ tried \subseteq MappingIds \X Repos /\ synced \subseteq tried
      /\ wanted \in [MappingIds -> SUBSET Repos]
      /\ m \in Int /\ MappingIds \subseteq Int
  <2>1. m \in 0 .. Mappings + 1
        BY DEF TypeInv, TypeOK
  <2>2. m \in Int /\ MappingIds \subseteq Int
        BY <2>1 DEF MappingIds
  <2> QED BY <2>2 DEF TypeInv, TypeOK, MappingInv
<1>a. ASSUME m \in MappingIds, NEW step, GiveUp(step) PROVE RunInv'
      BY <1>a, GiveUpKeeps
<1>1. CASE Begin
  <2>1. /\ pc' = "mapping" /\ m' = 1 /\ refs' = {} /\ ref' = {} /\ failed' = FALSE
        /\ tried' = {} /\ synced' = {} /\ dropped' = {}
        BY <1>1 DEF Begin, Reset
  <2>2. RefInv' /\ TriedInv' /\ CoverInv' /\ FailInv' /\ IdleInv'
        BY <2>1 DEF RefInv, TriedInv, CoverInv, FailInv, IdleInv, AtImages, AtImage
  <2>3. EveryImageHasItsTurn'
        BY <2>1 DEF EveryImageHasItsTurn, MappingIds
  <2> QED BY <2>2, <2>3 DEF RunInv
<1>2. CASE RefreshSource
  <2>1. m \in MappingIds /\ pc = "mapping"
        BY <1>2, Zenon DEF RefreshSource
  <2>2. CASE GoOn("target auth")
        BY <2>1, <2>2, GoOnKeeps
  <2> QED BY <1>a, <1>2, <2>1, <2>2, Zenon DEF RefreshSource
<1>3. CASE RefreshTarget
  <2>1. pc = "target auth"
        BY <1>3, Zenon DEF RefreshTarget
  <2>2. m \in MappingIds
        BY <1>0, <2>1 DEF AtWork
  <2>3. CASE GoOn("list")
        BY <2>1, <2>3, GoOnKeeps
  <2> QED BY <1>a, <1>3, <2>2, <2>3, Zenon DEF RefreshTarget
<1>4. CASE MappingRefs
  <2>1. pc = "list"
        BY <1>4, Zenon DEF MappingRefs
  <2>2. m \in MappingIds
        BY <1>0, <2>1 DEF AtWork
  <2>3. ASSUME NEW found \in Found,
               /\ refs' = found
               /\ wanted' = [wanted EXCEPT ![m] = found]
               /\ pc' = "ref"
               /\ UNCHANGED <<m, ref, failed, existing, resultVars>>
        PROVE  RunInv'
    <3> USE DEF RunInv, AtImages, AtImage, resultVars
    <3>1. ref = {} /\ RefInv'
          BY <2>1, <2>3 DEF RefInv
    <3>2. /\ wanted'[m] = found
          /\ \A i \in MappingIds : i # m => wanted'[i] = wanted[i]
          BY <1>0, <2>2, <2>3
    <3>3. TriedInv'
          BY <1>0, <2>1, <2>2, <2>3, <3>2 DEF TriedInv
    <3>4. m \in Regexp \/ found = From[m]
          BY <2>3 DEF Found
    <3>5. CoverInv' /\ IdleInv' /\ FailInv'
          BY <2>3, <3>1, <3>2, <3>4 DEF CoverInv, IdleInv, FailInv
    <3>6. EveryImageHasItsTurn'
          BY <1>0, <2>3, <3>2 DEF EveryImageHasItsTurn
    <3> QED BY <3>1, <3>3, <3>5, <3>6
  <2>4. \/ GiveUp("list")
        \/ \E found \in Found :
              /\ refs' = found
              /\ wanted' = [wanted EXCEPT ![m] = found]
              /\ pc' = "ref"
              /\ UNCHANGED <<m, ref, failed, existing, resultVars>>
        BY <1>4, Zenon DEF MappingRefs
  <2> QED BY <1>a, <2>2, <2>3, <2>4, Zenon
<1>5. CASE MappingDone
  <2>1. /\ pc = "ref" /\ refs = {} /\ pc' = "mapping" /\ m' = m + 1
        /\ refs' = {} /\ ref' = {}
        /\ UNCHANGED <<failed, wanted, tried, synced, dropped>>
        BY <1>5 DEF MappingDone, NextMapping, resultVars
  <2> USE <2>1 DEF RunInv, AtImages, AtImage
  <2>2. m \in MappingIds /\ ref = {}
        BY <1>0 DEF AtWork, RefInv
  <2>3. RefInv' /\ CoverInv' /\ IdleInv' /\ FailInv'
        BY DEF RefInv, CoverInv, IdleInv, FailInv
  <2>4. TriedInv'
        BY <1>0 DEF TriedInv
  <2>5. ASSUME NEW i \in MappingIds, i < m + 1
        PROVE  \/ \E d \in dropped : d[1] = i
               \/ /\ \A r \in wanted[i] : <<i, r>> \in tried
                  /\ i \in Regexp \/ wanted[i] = From[i]
    <3>1. CASE i < m
          BY <3>1 DEF EveryImageHasItsTurn
    <3>2. CASE i = m
          BY <2>2, <3>2 DEF CoverInv
    <3> QED BY <1>0, <2>5, <3>1, <3>2
  <2>6. EveryImageHasItsTurn'
        BY <2>5 DEF EveryImageHasItsTurn
  <2> QED BY <2>3, <2>4, <2>6
<1>6. CASE TakeRef
  <2>1. PICK r \in refs : ref' = {r} /\ refs' = refs \ {r}
        BY <1>6 DEF TakeRef, Remaining
  <2>2. /\ pc = "ref" /\ pc' \in AtImage
        /\ UNCHANGED <<m, failed, wanted, tried, synced, dropped>>
        BY <1>6 DEF TakeRef, resultVars, AtImage
  <2> USE <2>1, <2>2 DEF RunInv, AtImages, AtImage
  <2>3. RefInv'
        BY <1>0 DEF RefInv
  <2>4. ref = {} /\ refs' \cup ref' = refs \cup ref
        BY DEF RefInv
  <2>5. TriedInv'
        BY <2>4 DEF TriedInv
  <2>6. CoverInv' /\ IdleInv' /\ FailInv'
        BY <2>4 DEF CoverInv, IdleInv, FailInv
  <2>7. EveryImageHasItsTurn'
        BY DEF EveryImageHasItsTurn
  <2> QED BY <2>3, <2>5, <2>6, <2>7
<1>7. CASE Describe \/ Create
  <2>1. pc \in AtImage
        BY <1>7 DEF Describe, Create, AtImage
  <2>2. m \in MappingIds
        BY <1>0, <2>1 DEF AtWork, AtImage
  <2>3. \/ GiveUp("target")
        \/ /\ pc' \in AtImage
           /\ UNCHANGED <<m, refVars, failed, wanted, resultVars>>
    <3>1. CASE Describe
          BY <3>1 DEF Describe, DescribeFails, GoOn, AtImage
    <3>2. CASE Create
          BY <3>2 DEF Create, AtImage
    <3> QED BY <1>7, <3>1, <3>2
  <2>4. CASE /\ pc' \in AtImage
             /\ UNCHANGED <<m, refVars, failed, wanted, resultVars>>
        BY <2>1, <2>4, ImageKeeps
  <2> QED BY <1>a, <2>2, <2>3, <2>4, Zenon
<1>8. CASE RelaySync
  <2>1. /\ pc = "relay" /\ pc' = "ref" /\ ref' = {}
        /\ tried' = tried \cup ({m} \X ref)
        /\ UNCHANGED <<m, refs, wanted, dropped>>
        BY <1>8 DEF RelaySync
  <2>2. \/ synced' = synced \cup ({m} \X ref) /\ failed' = failed
        \/ failed' = TRUE /\ synced' = synced
        BY <1>8 DEF RelaySync
  <2> USE <2>1 DEF RunInv, AtImages, AtImage
  <2>3. PICK r \in Repos : ref = {r}
        BY DEF RefInv
  <2>4. m \in MappingIds /\ tried' = tried \cup {<<m, r>>} /\ <<m, r>> \notin tried
    <3>1. m \in MappingIds
          BY <1>0 DEF AtWork
    <3> QED BY <2>3, <3>1 DEF TriedInv
  <2>5. RefInv' /\ IdleInv'
        BY DEF RefInv, IdleInv
  <2>6. TriedInv'
        BY <1>0, <2>3, <2>4 DEF TriedInv, CoverInv, RefInv
  <2>7. CoverInv'
        BY <2>3, <2>4 DEF CoverInv
  <2>8. EveryImageHasItsTurn'
    <3>1. tried \subseteq tried'
          OBVIOUS
    <3> QED BY <3>1 DEF EveryImageHasItsTurn
  <2>9. FailInv'
    <3>1. <<m, r>> \notin synced
          BY <1>0, <2>4
    <3>2. CASE failed' = TRUE /\ synced' = synced
          BY <2>4, <3>1, <3>2 DEF FailInv
    <3>3. CASE synced' = synced \cup ({m} \X ref) /\ failed' = failed
      <4>1. synced' = synced \cup {<<m, r>>}
            BY <2>3, <3>3
      <4>2. synced' = tried' <=> synced = tried
            BY <2>4, <3>1, <4>1
      <4> QED BY <3>3, <4>2 DEF FailInv
    <3> QED BY <2>2, <3>2, <3>3
  <2> QED BY <2>5, <2>6, <2>7, <2>8, <2>9
<1>9. CASE Finish
  <2>1. /\ pc = "mapping" /\ pc' = "idle" /\ m = Mappings + 1
        /\ UNCHANGED <<m, refVars, failed, wanted, resultVars>>
    <3>1. m \in 1 .. Mappings + 1 /\ m \notin 1 .. Mappings
          BY <1>9 DEF Finish, TypeInv, MappingInv, MappingIds
    <3>2. m = Mappings + 1
          BY <3>1
    <3> QED BY <1>9, <3>2 DEF Finish, GoOn
  <2> USE <2>1 DEF RunInv, AtImages, AtImage, refVars, resultVars
  <2>2. RefInv' /\ CoverInv' /\ IdleInv' /\ FailInv'
        BY DEF RefInv, CoverInv, IdleInv, FailInv
  <2>3. TriedInv' /\ EveryImageHasItsTurn'
        BY DEF TriedInv, EveryImageHasItsTurn
  <2> QED BY <2>2, <2>3
<1>10. CASE Others \/ Pass \/ UNCHANGED vars
  <2>1. UNCHANGED runVars
        BY <1>10 DEF Others, Pass, vars, runVars
  <2> QED BY <2>1, RunUnchanged
<1> QED BY <1>1, <1>2, <1>3, <1>4, <1>5, <1>6, <1>7, <1>8, <1>9, <1>10
        DEF Next, SyncTask, CreateECRTarget

\* For any mappings: once the run is past a mapping, all its images have had
\* their turn, or a step of its own has failed.
THEOREM ImagesHaveTheirTurn == Spec => []EveryImageHasItsTurn
<1>1. RunInv => EveryImageHasItsTurn
      BY DEF RunInv
<1> QED BY <1>1, InitTypeInv, NextTypeInv, InitRunInv, NextRunInv, PTL DEF Spec

\* For any mappings: after a run the flag of the task tells exactly whether a
\* mapping was given up or an image not synced in that run.
THEOREM FailureIsExact == Spec => []FailedIsExact
<1>1. TypeInv /\ RunInv => FailedIsExact
  <2> SUFFICES ASSUME TypeInv, RunInv, pc = "idle"
               PROVE  failed <=> dropped # {} \/ synced # Wanted
      BY DEF FailedIsExact
  <2>1. /\ tried \subseteq MappingIds \X Repos
        /\ wanted \in [MappingIds -> SUBSET Repos]
        BY DEF TypeInv, TypeOK
  <2>2. failed <=> dropped # {} \/ synced # tried
        BY DEF RunInv, FailInv
  <2>3. tried \subseteq Wanted
        BY <2>1 DEF RunInv, TriedInv, Wanted
  <2>4. ASSUME dropped = {} PROVE Wanted \subseteq tried
    <3>1. SUFFICES ASSUME NEW i \in MappingIds, NEW r \in wanted[i]
                   PROVE  <<i, r>> \in tried
          BY <2>1 DEF Wanted
    <3>2. m = Mappings + 1
          BY <3>1 DEF RunInv, IdleInv
    <3>3. i < m
          BY <3>2, MappingsAssumption DEF MappingIds
    <3> QED BY <2>4, <3>3 DEF RunInv, EveryImageHasItsTurn
  <2> QED BY <2>2, <2>3, <2>4
<1> QED BY <1>1, InitTypeInv, NextTypeInv, InitRunInv, NextRunInv, PTL DEF Spec
-----------------------------------------------------------------------------
(* A run goes forward.                                                     *)

LEMMA Places ==
    /\ pc = "mapping" => Stage = 0
    /\ pc = "target auth" => Stage = 1
    /\ pc = "list" => Stage = 2
    /\ pc \in {"ref", "describe", "create", "relay"} => Stage = 3
    /\ pc = "describe" => Turn = 1
    /\ pc = "create" => Turn = 2
    /\ pc = "relay" => Turn = 3
    /\ pc = "ref" => Turn = 4
BY DEF Stage, Turn

LEMMA NextPlaces ==
    /\ pc' = "mapping" => Stage' = 0
    /\ pc' = "target auth" => Stage' = 1
    /\ pc' = "list" => Stage' = 2
    /\ pc' \in {"ref", "describe", "create", "relay"} => Stage' = 3
    /\ pc' = "idle" => Stage' = 4
    /\ pc' = "create" => Turn' = 2
    /\ pc' = "relay" => Turn' = 3
    /\ pc' = "ref" => Turn' = 4
BY DEF Stage, Turn

\* A mapping that is given up or done
LEMMA LaterMapping == TypeInv /\ m' = m + 1 => Forward
<1> SUFFICES ASSUME TypeInv, m' = m + 1 PROVE Forward
    OBVIOUS
<1>1. m \in 0 .. Mappings + 1
      BY DEF TypeInv, TypeOK
<1>2. m' > m
      BY <1>1, MappingsAssumption
<1> QED BY <1>2 DEF Forward

LEMMA LaterStage == m' = m /\ Stage' > Stage => Forward
BY DEF Forward

LEMMA LaterTurn ==
    m' = m /\ Stage' = Stage /\ refs' = refs /\ Turn' > Turn => Forward
BY DEF Forward

LEMMA StepForward == TypeInv /\ SyncTask => Forward
<1> SUFFICES ASSUME TypeInv, SyncTask PROVE Forward
    OBVIOUS
<1>1. \A step : GiveUp(step) => m' = m + 1
      BY DEF GiveUp, NextMapping
<1>2. CASE RefreshSource
  <2>1. CASE m' = m + 1
        BY <2>1, LaterMapping
  <2>2. CASE pc = "mapping" /\ pc' = "target auth" /\ m' = m
    <3>1. Stage = 0
          BY <2>2, Places
    <3>2. Stage' = 1
          BY <2>2, NextPlaces
    <3>3. Stage' > Stage
          BY <3>1, <3>2
    <3> QED BY <2>2, <3>3, LaterStage
  <2> QED BY <1>1, <1>2, <2>1, <2>2 DEF RefreshSource, GoOn
<1>3. CASE RefreshTarget
  <2>1. CASE m' = m + 1
        BY <2>1, LaterMapping
  <2>2. CASE pc = "target auth" /\ pc' = "list" /\ m' = m
    <3>1. Stage = 1
          BY <2>2, Places
    <3>2. Stage' = 2
          BY <2>2, NextPlaces
    <3>3. Stage' > Stage
          BY <3>1, <3>2
    <3> QED BY <2>2, <3>3, LaterStage
  <2> QED BY <1>1, <1>3, <2>1, <2>2 DEF RefreshTarget, GoOn
<1>4. CASE MappingRefs
  <2>1. CASE m' = m + 1
        BY <2>1, LaterMapping
  <2>2. CASE pc = "list" /\ pc' = "ref" /\ m' = m
    <3>1. Stage = 2
          BY <2>2, Places
    <3>2. Stage' = 3
          BY <2>2, NextPlaces
    <3>3. Stage' > Stage
          BY <3>1, <3>2
    <3> QED BY <2>2, <3>3, LaterStage
  <2> QED BY <1>1, <1>4, <2>1, <2>2 DEF MappingRefs
<1>5. CASE MappingDone
  <2>1. m' = m + 1
        BY <1>5 DEF MappingDone, NextMapping
  <2> QED BY <2>1, LaterMapping
<1>6. CASE TakeRef
  <2>1. PICK r \in refs : refs' = refs \ {r}
        BY <1>6 DEF TakeRef, Remaining
  <2>2. pc = "ref" /\ pc' \in {"describe", "relay"} /\ m' = m
        BY <1>6 DEF TakeRef
  <2>3. Stage' = Stage
        BY <2>2, Places, NextPlaces
  <2>4. refs' \subseteq refs /\ refs' # refs
        BY <2>1
  <2> QED BY <2>2, <2>3, <2>4 DEF Forward
<1>7. CASE Describe
  <2>1. CASE m' = m + 1
        BY <2>1, LaterMapping
  <2>2. CASE pc = "describe" /\ pc' \in {"relay", "create"} /\ m' = m /\ refs' = refs
    <3>1. Stage = 3 /\ Turn = 1
          BY <2>2, Places
    <3>2. Stage' = 3 /\ Turn' \in {2, 3}
          BY <2>2, NextPlaces
    <3>3. Turn' > Turn /\ Stage' = Stage /\ m' = m /\ refs' = refs
          BY <2>2, <3>1, <3>2
    <3> QED BY <3>3, LaterTurn
  <2> QED BY <1>1, <1>7, <2>1, <2>2 DEF Describe, DescribeFails, GoOn, refVars
<1>8. CASE Create
  <2>1. CASE m' = m + 1
        BY <2>1, LaterMapping
  <2>2. CASE pc = "create" /\ pc' = "relay" /\ m' = m /\ refs' = refs
    <3>1. Stage = 3 /\ Turn = 2
          BY <2>2, Places
    <3>2. Stage' = 3 /\ Turn' = 3
          BY <2>2, NextPlaces
    <3> QED BY <2>2, <3>1, <3>2, LaterTurn
  <2> QED BY <1>1, <1>8, <2>1, <2>2 DEF Create, refVars
<1>9. CASE RelaySync
  <2>1. pc = "relay" /\ pc' = "ref" /\ m' = m /\ refs' = refs
        BY <1>9 DEF RelaySync
  <2> QED BY <2>1, Places, NextPlaces, LaterTurn
<1>10. CASE Finish
  <2>1. pc = "mapping" /\ pc' = "idle" /\ m' = m
        BY <1>10 DEF Finish, GoOn
  <2> QED BY <2>1, Places, NextPlaces, LaterStage
<1> QED BY <1>2, <1>3, <1>4, <1>5, <1>6, <1>7, <1>8, <1>9, <1>10
        DEF SyncTask, CreateECRTarget

\* For any mappings, whichever steps fail and in whichever order: no run goes
\* round in circles.
THEOREM RunsAdvance == Spec => RunsForward
<1> DEFINE Advances == pc # "idle" /\ <<pc, m>>' # <<pc, m>> => Forward
<1>1. TypeInv /\ [Next]_vars => [Advances]_vars
  <2> SUFFICES ASSUME TypeInv, Next, pc # "idle", <<pc, m>>' # <<pc, m>>
               PROVE  Forward
      BY DEF Advances
  <2>1. ~Begin
        BY DEF Begin
  <2>2. ~Others /\ ~Pass
        BY DEF Others, Pass
  <2> QED BY <2>1, <2>2, StepForward DEF Next
<1> QED BY InitTypeInv, NextTypeInv, <1>1, PTL DEF Spec, RunsForward
=============================================================================
