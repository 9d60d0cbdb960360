---------------------------- MODULE DeployProofs ----------------------------
(***************************************************************************)
(* Theorems about Deploy, for any number of pushes, runs started again,    *)
(* versions kept, power cuts and outages, and any reads of :latest that    *)
(* fail.                                                                   *)
(***************************************************************************)
EXTENDS Deploy, FiniteSetTheorems, TLAPS

Pushes == Publishing!Pushes
NoVersion == Publishing!NoVersion
None == Updating!None
Torn == Updating!Torn

-----------------------------------------------------------------------------
(* The invariant.  The publish group lets one job at a time build, check    *)
(* and move, so that the version it built is the last one there is, and     *)
(* what it saw of :latest, unless the read failed, still holds when it      *)
(* moves it.                                                                *)

NotBuilt == {p \in Pushes : run[p] \in {"none", "testing", "waiting", "building"}}

PublishTypes == Publishing!TypeOK /\ built \in Nat

JobsInv ==
  /\ \A p \in Pushes :
       run[p] \in {"waiting", "building", "checking", "moving"} => p \in affecting
  /\ \A p, q \in Publishing!Publishing : p = q
  /\ \A p \in Pushes :
       run[p] \in {"checking", "moving"} => built \in DOMAIN registry /\ registry[built] = p

\* A build takes a push that has none yet, or a run started again.
BuildsInv == built + Cardinality(NotBuilt) <= MaxPushes + reruns

LatestInv ==
  /\ ~overlooked => \A p \in Pushes :
       run[p] = "moving" /\ latest # NoVersion => registry[latest] <= p
  /\ ~tagPruned /\ latest = NoVersion => \A p \in Pushes : run[p] # "published"
  /\ Publishing!LatestIsNewestPublished

PublishInv == PublishTypes /\ JobsInv /\ BuildsInv /\ LatestInv

\* Files: a torn one is written again before it is used.
FilesInv ==
  /\ Updating!TypeOK
  /\ bin # Torn /\ running # Torn
  /\ new = Torn => pc \in {"idle", "export"}
  /\ prev = Torn => bin # None /\ pc \in {"idle", "export", "keep"}
  /\ pc # "idle" => digest # None
  /\ pc \in {"keep", "swap"} => new = digest

\* While the power stays on, a checked image is in service or kept to go back to.
ServiceInv ==
  powerCuts = 0 =>
    /\ pc \in {"restart", "check", "record", "clear", "reject", "rollBack"} => bin = digest
    /\ pc \in {"check", "record", "clear", "reject", "rollBack"} => running = bin
    /\ pc \in {"record", "clear"} => digest \in good
    /\ pc = "clear" => current = digest
    /\ current # None =>
         /\ current \in good
         /\ pc \in {"idle", "export", "keep"} => running = current /\ bin = current
         /\ pc \in {"swap", "restart", "check", "record", "reject", "rollBack"} => prev = current
         /\ pc = "restartOld" => bin = current

\* A version that :latest was on, for as long as it can be downloaded.
Behind(v) ==
  v \in DOMAIN registry =>
    /\ latest # NoVersion /\ v <= latest
    /\ ~overlooked => registry[v] <= registry[latest]

ForwardInv ==
  /\ current <= built /\ digest <= built
  /\ Behind(current)
  /\ pc # "idle" => Behind(digest)
  /\ pc = "export" /\ ~overlooked /\ current \in DOMAIN registry /\ digest \in DOMAIN registry
       => registry[current] <= registry[digest]

IInv == PublishInv /\ FilesInv /\ ServiceInv /\ ForwardInv

-----------------------------------------------------------------------------
(* Publishing. *)

USE DEF Pushes, Publishing!Pushes, NoVersion, Publishing!NoVersion

LEMMA FinitePushes ==
  ASSUME NEW S, S \subseteq Pushes
  PROVE  IsFiniteSet(S) /\ Cardinality(S) \in Nat
<1>1. IsFiniteSet(Pushes)
  BY FS_Interval, DeployAssumption
<1> QED BY <1>1, FS_Subset, FS_CardinalityType

\* A step after which no more pushes wait to be built than before it.
LEMMA NoMoreToBuild ==
  ASSUME NotBuilt' \subseteq NotBuilt
  PROVE  Cardinality(NotBuilt') <= Cardinality(NotBuilt)
<1>1. NotBuilt \subseteq Pushes
  BY DEF NotBuilt
<1> QED BY <1>1, FinitePushes, FS_Subset

\* The counts are natural numbers.
LEMMA Counts ==
  ASSUME PublishTypes
  PROVE  /\ Cardinality(NotBuilt) \in Nat /\ Cardinality(NotBuilt') \in Nat
         /\ built \in Nat /\ reruns \in Nat /\ MaxPushes \in Nat /\ MaxReruns \in Nat
<1>1. NotBuilt \subseteq Pushes /\ NotBuilt' \subseteq Pushes
  BY DEF NotBuilt
<1>2. Cardinality(NotBuilt) \in Nat /\ Cardinality(NotBuilt') \in Nat
  BY <1>1, FinitePushes
<1>3. built \in Nat /\ reruns \in Nat /\ MaxPushes \in Nat /\ MaxReruns \in Nat
  BY DeployAssumption DEF PublishTypes, Publishing!TypeOK
<1> QED BY <1>2, <1>3

\* A step of one run that only moves it on, to a phase it is ready for.
LEMMA GoesKeepsPublishInv ==
  ASSUME PublishInv, NEW p \in Pushes, NEW phase, run' = [run EXCEPT ![p] = phase],
         UNCHANGED <<affecting, registry, built, latest, reruns, tagPruned>>,
         overlooked' \in BOOLEAN, overlooked => overlooked',
         phase \in {"testing", "skipped", "failed", "building", "moving", "published"},
         phase = "testing" => run[p] = "none",
         phase = "building" => /\ p \in affecting /\ Publishing!Publishing = {}
                               /\ run[p] \in {"testing", "waiting"},
         phase = "moving" => /\ run[p] = "checking"
                             /\ latest # NoVersion /\ ~overlooked' => registry[latest] <= p,
         phase = "published" => /\ run[p] = "checking"
                                /\ latest # NoVersion /\ p <= registry[latest]
  PROVE  PublishInv'
<1> USE DEF PublishInv
<1>1. /\ run'[p] = phase /\ \A q \in Pushes : q # p => run'[q] = run[q]
      /\ run \in [Pushes -> Publishing!Phases]
  BY DEF PublishTypes, Publishing!TypeOK
<1>2. PublishTypes'
  BY <1>1 DEF PublishTypes, Publishing!TypeOK, Publishing!Phases
<1>3. JobsInv'
  BY <1>1 DEF JobsInv, Publishing!Publishing
<1>4. BuildsInv'
  <2>1. NotBuilt' \subseteq NotBuilt
    BY <1>1 DEF NotBuilt
  <2>2. Cardinality(NotBuilt') <= Cardinality(NotBuilt)
    BY <2>1, NoMoreToBuild
  <2> QED BY <2>2, Counts DEF BuildsInv
<1>5. LatestInv'
  BY <1>1 DEF LatestInv, Publishing!LatestIsNewestPublished
<1> QED BY <1>2, <1>3, <1>4, <1>5

LEMMA AsksStep ==
  ASSUME PublishInv, NEW p \in Pushes, p \in affecting, run[p] = "testing", Publishing!Asks(p),
         UNCHANGED <<affecting, registry, built, latest, reruns, tagPruned, overlooked>>
  PROVE  PublishInv'
<1>1. CASE Publishing!Publishing = {}
  BY <1>1, GoesKeepsPublishInv DEF Publishing!Asks, Publishing!Goes,
     PublishInv, PublishTypes, Publishing!TypeOK
<1>2. CASE Publishing!Publishing # {}
  <2> USE DEF PublishInv
  <2>1. run' = [q \in Pushes |-> IF q = p THEN "waiting"
                                 ELSE IF q \in Publishing!Waiting THEN "cancelled" ELSE run[q]]
    BY <1>2 DEF Publishing!Asks
  <2>2. /\ run'[p] = "waiting"
        /\ \A q \in Pushes : q # p =>
             run'[q] = run[q] \/ (run[q] = "waiting" /\ run'[q] = "cancelled")
        /\ run \in [Pushes -> Publishing!Phases]
    <3>1. run \in [Pushes -> Publishing!Phases]
      BY DEF PublishTypes, Publishing!TypeOK
    <3>2. \A q \in Pushes : q \in Publishing!Waiting <=> run[q] = "waiting"
      BY DEF Publishing!Waiting
    <3>3. \A q \in Pushes :
            run'[q] = IF q = p THEN "waiting"
                      ELSE IF q \in Publishing!Waiting THEN "cancelled" ELSE run[q]
      BY <2>1
    <3>4. run'[p] = "waiting"
      BY <3>3
    <3>5. ASSUME NEW q \in Pushes, q # p
          PROVE  run'[q] = run[q] \/ (run[q] = "waiting" /\ run'[q] = "cancelled")
      <4>1. run'[q] = IF q \in Publishing!Waiting THEN "cancelled" ELSE run[q]
        BY <3>3, <3>5
      <4> QED BY <3>2, <4>1
    <3> QED BY <3>1, <3>4, <3>5
  <2>3. PublishTypes'
    <3>1. run' \in [Pushes -> Publishing!Phases]
      BY <2>1, <2>2 DEF Publishing!Phases
    <3> QED BY <3>1 DEF PublishTypes, Publishing!TypeOK
  <2>4. JobsInv'
    BY <2>2 DEF JobsInv, Publishing!Publishing
  <2>5. BuildsInv'
    <3>1. NotBuilt' \subseteq NotBuilt
      BY <2>2 DEF NotBuilt
    <3>2. Cardinality(NotBuilt') <= Cardinality(NotBuilt)
      BY <3>1, NoMoreToBuild
    <3> QED BY <3>2, Counts DEF BuildsInv
  <2>6. LatestInv'
    BY <2>2 DEF LatestInv, Publishing!LatestIsNewestPublished
  <2> QED BY <2>3, <2>4, <2>5, <2>6
<1> QED BY <1>1, <1>2

LEMMA BuildStep ==
  ASSUME PublishInv, NEW p \in Pushes, Publishing!Build(p)
  PROVE  PublishInv'
<1> USE DEF PublishInv
<1>1. /\ run[p] = "building" /\ built' = built + 1
      /\ DOMAIN registry' = DOMAIN registry \cup {built'} /\ registry'[built'] = p
      /\ \A v \in DOMAIN registry : v # built' => registry'[v] = registry[v]
      /\ run' = [run EXCEPT ![p] = "checking"]
      /\ UNCHANGED <<affecting, latest, reruns, tagPruned, overlooked>>
  BY DEF Publishing!Build, Publishing!Goes, Publishing!histories
<1>2. /\ run'[p] = "checking" /\ \A q \in Pushes : q # p => run'[q] = run[q]
      /\ run \in [Pushes -> Publishing!Phases]
      /\ built \in Nat /\ DOMAIN registry \subseteq 1..built /\ built + 1 \notin DOMAIN registry
      /\ latest \in DOMAIN registry \cup {NoVersion}
  BY <1>1 DEF PublishTypes, Publishing!TypeOK
<1>3. PublishTypes'
  <2>1. run' \in [Pushes -> Publishing!Phases]
    BY <1>1, <1>2 DEF Publishing!Phases
  <2>2. p \in affecting
    BY <1>1 DEF JobsInv
  <2>3. \A v \in DOMAIN registry' : registry'[v] \in affecting
    BY <1>1, <1>2, <2>2 DEF PublishTypes, Publishing!TypeOK
  <2>4. DOMAIN registry' \subseteq 1..built'
    BY <1>1, <1>2
  <2> QED BY <1>1, <1>2, <2>1, <2>3, <2>4 DEF PublishTypes, Publishing!TypeOK
<1>4. JobsInv'
  BY <1>1, <1>2 DEF JobsInv, Publishing!Publishing
<1>5. BuildsInv'
  <2>1. NotBuilt' = NotBuilt \ {p} /\ p \in NotBuilt /\ NotBuilt \subseteq Pushes
    BY <1>1, <1>2 DEF NotBuilt
  <2>2. Cardinality(NotBuilt') = Cardinality(NotBuilt) - 1
    BY <2>1, FinitePushes, FS_RemoveElement
  <2> QED BY <1>1, <2>2, Counts DEF BuildsInv
<1>6. LatestInv'
  <2>1. latest # NoVersion => registry'[latest] = registry[latest]
    BY <1>1, <1>2
  <2> QED BY <1>1, <1>2, <2>1 DEF LatestInv, Publishing!LatestIsNewestPublished
<1> QED BY <1>3, <1>4, <1>5, <1>6

\* The job moves :latest to the version it has built, the last there is.
LEMMA MovesToLastBuilt ==
  ASSUME PublishInv, NEW p \in Pushes, Publishing!Move(p)
  PROVE  /\ latest' = built /\ built \in DOMAIN registry /\ registry[built] = p
         /\ built # NoVersion
         /\ latest # NoVersion /\ ~overlooked => registry[latest] <= p
<1>1. /\ run[p] = "moving" /\ latest' = Publishing!Max(Publishing!VersionsOf(p))
      /\ built \in DOMAIN registry /\ registry[built] = p
      /\ DOMAIN registry \subseteq 1..built /\ built \in Nat
      /\ latest # NoVersion /\ ~overlooked => registry[latest] <= p
  BY DEF Publishing!Move, PublishInv, PublishTypes, Publishing!TypeOK, JobsInv, LatestInv
<1>2. /\ built \in Publishing!VersionsOf(p)
      /\ \A v \in Publishing!VersionsOf(p) : v \in 1..built
  BY <1>1 DEF Publishing!VersionsOf
<1>3. Publishing!Max(Publishing!VersionsOf(p)) = built
  BY <1>1, <1>2 DEF Publishing!Max
<1> QED BY <1>1, <1>3

LEMMA MoveStep ==
  ASSUME PublishInv, NEW p \in Pushes, Publishing!Move(p)
  PROVE  PublishInv'
<1> USE DEF PublishInv
<1>1. /\ run[p] = "moving" /\ run' = [run EXCEPT ![p] = "published"]
      /\ UNCHANGED <<affecting, registry, built, reruns, tagPruned, overlooked>>
  BY DEF Publishing!Move, Publishing!Goes, Publishing!histories
<1>2. /\ run'[p] = "published" /\ \A q \in Pushes : q # p => run'[q] = run[q]
      /\ run \in [Pushes -> Publishing!Phases]
      /\ \A v \in DOMAIN registry : registry[v] \in Pushes
      /\ latest \in DOMAIN registry \cup {NoVersion}
  BY <1>1 DEF PublishTypes, Publishing!TypeOK
<1>3. PublishTypes'
  BY <1>1, <1>2, MovesToLastBuilt DEF PublishTypes, Publishing!TypeOK, Publishing!Phases
<1>4. JobsInv'
  BY <1>1, <1>2 DEF JobsInv, Publishing!Publishing
<1>5. BuildsInv'
  <2>1. NotBuilt' \subseteq NotBuilt
    BY <1>1, <1>2 DEF NotBuilt
  <2>2. Cardinality(NotBuilt') <= Cardinality(NotBuilt)
    BY <2>1, NoMoreToBuild
  <2> QED BY <1>1, <2>2, Counts DEF BuildsInv
<1>6. LatestInv'
  <2>1. /\ latest' # NoVersion /\ registry'[latest'] = p
        /\ latest # NoVersion /\ ~overlooked => registry[latest] <= p
    BY <1>1, MovesToLastBuilt
  <2>2. \A q \in Pushes : q # p => run'[q] # "moving"
    BY <1>1, <1>2 DEF JobsInv, Publishing!Publishing
  <2>3. Publishing!LatestIsNewestPublished'
    BY <1>1, <1>2, <2>1 DEF LatestInv, Publishing!LatestIsNewestPublished
  <2> QED BY <1>2, <2>1, <2>2, <2>3 DEF LatestInv
<1> QED BY <1>3, <1>4, <1>5, <1>6

LEMMA RerunStep ==
  ASSUME PublishInv, NEW p \in Pushes, Publishing!Rerun(p)
  PROVE  PublishInv'
<1> USE DEF PublishInv
<1>1. /\ run[p] \in {"published", "failed", "cancelled"} /\ reruns < MaxReruns
      /\ reruns' = reruns + 1 /\ run' = [run EXCEPT ![p] = "testing"]
      /\ UNCHANGED <<affecting, registry, built, latest, tagPruned, overlooked>>
  BY DEF Publishing!Rerun, Publishing!Goes, Publishing!histories
<1>2. /\ run'[p] = "testing" /\ \A q \in Pushes : q # p => run'[q] = run[q]
      /\ run \in [Pushes -> Publishing!Phases]
  BY <1>1 DEF PublishTypes, Publishing!TypeOK
<1>3. PublishTypes'
  BY <1>1, <1>2, DeployAssumption DEF PublishTypes, Publishing!TypeOK, Publishing!Phases
<1>4. JobsInv'
  BY <1>1, <1>2 DEF JobsInv, Publishing!Publishing
<1>5. BuildsInv'
  <2>1. NotBuilt' = NotBuilt \cup {p} /\ p \notin NotBuilt /\ NotBuilt \subseteq Pushes
    BY <1>1, <1>2 DEF NotBuilt
  <2>2. Cardinality(NotBuilt') = Cardinality(NotBuilt) + 1
    BY <2>1, FinitePushes, FS_AddElement
  <2> QED BY <1>1, <2>2, Counts DEF BuildsInv
<1>6. LatestInv'
  BY <1>1, <1>2 DEF LatestInv, Publishing!LatestIsNewestPublished
<1> QED BY <1>3, <1>4, <1>5, <1>6
\* The prune keeps the versions above any it keeps, and so the last one built.
LEMMA Counting ==
  \A S : Publishing!Cardinality(S) = Cardinality(S)
BY DEF Publishing!Cardinality, Cardinality

LEMMA PruneKeeps ==
  ASSUME PublishInv, Publishing!Prune
  PROVE  /\ \E kept \in SUBSET DOMAIN registry :
              /\ registry' = [v \in kept |-> registry[v]]
              /\ latest' = IF latest \in kept THEN latest ELSE NoVersion
              /\ \A v \in kept, u \in DOMAIN registry : u >= v => u \in kept
              /\ built \in DOMAIN registry => built \in kept
         /\ tagPruned' = (tagPruned \/ latest' # latest)
         /\ UNCHANGED <<affecting, run, built, reruns, overlooked>>
<1> DEFINE Above(v) == {u \in DOMAIN registry : u > v}
           kept == {v \in DOMAIN registry : Cardinality(Above(v)) < MinVersions}
<1>1. built \in Nat /\ DOMAIN registry \subseteq 1..built
  BY DEF PublishInv, PublishTypes, Publishing!TypeOK
<1>2. IsFiniteSet(DOMAIN registry)
  <2>1. IsFiniteSet(1..built)
    BY <1>1, FS_Interval
  <2> QED BY <1>1, <2>1, FS_Subset
<1>3. ASSUME NEW v \in kept, NEW u \in DOMAIN registry, u >= v
      PROVE  u \in kept
  <2>1. Above(u) \subseteq Above(v) /\ Above(v) \subseteq DOMAIN registry
    BY <1>1, <1>3
  <2>2. IsFiniteSet(Above(v))
    BY <1>2, <2>1, FS_Subset
  <2>3. /\ Cardinality(Above(u)) <= Cardinality(Above(v))
        /\ Cardinality(Above(u)) \in Nat /\ Cardinality(Above(v)) \in Nat
    BY <2>1, <2>2, FS_Subset, FS_CardinalityType
  <2> HIDE DEF Above
  <2> QED BY <1>3, <2>3, DeployAssumption
<1>4. built \in DOMAIN registry => built \in kept
  <2>1. Above(built) = {}
    BY <1>1
  <2>2. Cardinality(Above(built)) = 0
    BY <2>1, FS_EmptySet
  <2> HIDE DEF Above
  <2> QED BY <2>2, DeployAssumption
<1>5. /\ registry' = [v \in kept |-> registry[v]]
      /\ latest' = IF latest \in kept THEN latest ELSE NoVersion
      /\ tagPruned' = (tagPruned \/ latest' # latest)
      /\ UNCHANGED <<affecting, run, built, reruns, overlooked>>
  BY Counting DEF Publishing!Prune
<1>6. kept \in SUBSET DOMAIN registry
  OBVIOUS
<1> HIDE DEF kept
<1> QED BY <1>3, <1>4, <1>5, <1>6

LEMMA PruneStep ==
  ASSUME PublishInv, Publishing!Prune
  PROVE  PublishInv'
<1> USE DEF PublishInv
<1>1. PICK kept \in SUBSET DOMAIN registry :
        /\ registry' = [v \in kept |-> registry[v]]
        /\ latest' = IF latest \in kept THEN latest ELSE NoVersion
        /\ built \in DOMAIN registry => built \in kept
  BY PruneKeeps
<1>2. /\ tagPruned' = (tagPruned \/ latest' # latest)
      /\ UNCHANGED <<affecting, run, built, reruns, overlooked>>
  BY PruneKeeps
<1>3. /\ DOMAIN registry' = kept /\ \A v \in kept : registry'[v] = registry[v]
      /\ latest' # NoVersion => latest' = latest /\ latest \in kept
  BY <1>1
<1>4. /\ latest \in DOMAIN registry \cup {NoVersion} /\ tagPruned \in BOOLEAN
      /\ built \in Nat /\ DOMAIN registry \subseteq 1..built
      /\ \A v \in DOMAIN registry : registry[v] \in affecting
  BY DEF PublishTypes, Publishing!TypeOK
<1>5. PublishTypes'
  <2>1. latest' \in DOMAIN registry' \cup {NoVersion} /\ tagPruned' \in BOOLEAN
    BY <1>1, <1>2, <1>3, <1>4
  <2>2. DOMAIN registry' \subseteq 1..built' /\ \A v \in DOMAIN registry' : registry'[v] \in affecting'
    BY <1>1, <1>2, <1>3, <1>4
  <2> QED BY <1>2, <2>1, <2>2 DEF PublishTypes, Publishing!TypeOK
<1>6. JobsInv'
  BY <1>1, <1>2, <1>3 DEF JobsInv, Publishing!Publishing
<1>7. BuildsInv'
  BY <1>2 DEF BuildsInv, NotBuilt
<1>8. LatestInv'
  <2>1. latest' # NoVersion => registry'[latest'] = registry[latest] /\ latest # NoVersion
    BY <1>3
  <2>2. ~tagPruned' => ~tagPruned /\ latest' = latest
    BY <1>2, <1>4
  <2> QED BY <1>2, <2>1, <2>2, <1>3 DEF LatestInv, Publishing!LatestIsNewestPublished
<1> QED BY <1>5, <1>6, <1>7, <1>8

LEMMA PublishStep ==
  ASSUME PublishInv, [Publishing!Next]_<<publishing, latest>>
  PROVE  PublishInv'
<1>1. CASE UNCHANGED <<publishing, latest>>
  BY <1>1 DEF publishing, PublishInv, PublishTypes, Publishing!TypeOK, JobsInv, BuildsInv,
              NotBuilt, LatestInv, Publishing!LatestIsNewestPublished, Publishing!Publishing
<1>2. CASE Publishing!Prune
  BY <1>2, PruneStep
<1>3. ASSUME NEW p \in Pushes, Publishing!Job(p)
      PROVE  PublishInv'
  <2>1. CASE Publishing!Push(p)
    BY <2>1, GoesKeepsPublishInv DEF Publishing!Push, Publishing!Goes, Publishing!histories,
       PublishInv, PublishTypes, Publishing!TypeOK
  <2>2. CASE Publishing!TestsPass(p)
    <3>1. CASE p \in affecting
      BY <2>2, <3>1, AsksStep DEF Publishing!TestsPass, Publishing!histories
    <3>2. CASE p \notin affecting
      BY <2>2, <3>2, GoesKeepsPublishInv DEF Publishing!TestsPass, Publishing!Goes,
         Publishing!histories, PublishInv, PublishTypes, Publishing!TypeOK
    <3> QED BY <3>1, <3>2
  <2>3. CASE Publishing!Fail(p)
    BY <2>3, GoesKeepsPublishInv DEF Publishing!Fail, Publishing!Goes, Publishing!histories,
       PublishInv, PublishTypes, Publishing!TypeOK
  <2>4. CASE Publishing!Start(p)
    <3>1. p \in affecting
      BY <2>4 DEF Publishing!Start, PublishInv, JobsInv
    <3> QED BY <2>4, <3>1, GoesKeepsPublishInv DEF Publishing!Start, Publishing!Goes, Publishing!histories,
       PublishInv, PublishTypes, Publishing!TypeOK
  <2>5. CASE Publishing!Build(p)
    BY <2>5, BuildStep
  <2>6. CASE Publishing!Check(p)
    <3> DEFINE over == latest # NoVersion /\ registry[latest] > p
    <3>1. /\ run[p] = "checking"
          /\ UNCHANGED <<affecting, registry, built, latest, reruns, tagPruned>>
          /\ \/ /\ run' = [run EXCEPT ![p] = IF over THEN "published" ELSE "moving"]
                /\ overlooked' = overlooked
             \/ /\ run' = [run EXCEPT ![p] = "moving"]
                /\ overlooked' = (overlooked \/ over)
      BY <2>6 DEF Publishing!Check, Publishing!Goes, Publishing!IsOverNewer
    <3>2. /\ latest # NoVersion => registry[latest] \in Pushes
          /\ overlooked \in BOOLEAN
      BY DEF PublishInv, PublishTypes, Publishing!TypeOK
    <3>3. /\ over => latest # NoVersion /\ p <= registry[latest]
          /\ ~over /\ latest # NoVersion => registry[latest] <= p
          /\ over \in BOOLEAN
      BY <3>2
    <3> HIDE DEF over
    <3>4. CASE over /\ overlooked' = overlooked /\ run' = [run EXCEPT ![p] = "published"]
      BY <3>1, <3>2, <3>3, <3>4, GoesKeepsPublishInv
    <3>5. CASE ~over /\ overlooked' = overlooked /\ run' = [run EXCEPT ![p] = "moving"]
      BY <3>1, <3>2, <3>3, <3>5, GoesKeepsPublishInv
    <3>6. CASE overlooked' = (overlooked \/ over) /\ run' = [run EXCEPT ![p] = "moving"]
      <4>1. overlooked' \in BOOLEAN /\ (overlooked => overlooked') /\ (over => overlooked')
        BY <3>2, <3>3, <3>6
      <4> QED BY <3>1, <3>3, <3>6, <4>1, GoesKeepsPublishInv
    <3> QED BY <3>1, <3>3, <3>4, <3>5, <3>6
  <2>7. CASE Publishing!Move(p)
    BY <2>7, MoveStep
  <2>8. CASE Publishing!Rerun(p)
    BY <2>8, RerunStep
  <2> QED BY <1>3, <2>1, <2>2, <2>3, <2>4, <2>5, <2>6, <2>7, <2>8 DEF Publishing!Job
<1> QED BY <1>1, <1>2, <1>3 DEF Publishing!Next

LEMMA PublishInit ==
  ASSUME Publishing!Init
  PROVE  PublishInv
<1>1. /\ \A p \in Pushes : run[p] = "none"
      /\ DOMAIN registry = {} /\ built = 0 /\ latest = NoVersion
      /\ reruns = 0 /\ tagPruned = FALSE /\ overlooked = FALSE /\ affecting \subseteq Pushes
      /\ run \in [Pushes -> Publishing!Phases]
  BY DEF Publishing!Init, Publishing!Phases
<1>2. NotBuilt = Pushes
  BY <1>1 DEF NotBuilt
<1>3. Cardinality(NotBuilt) = MaxPushes
  BY <1>2, FS_Interval, DeployAssumption
<1>4. PublishTypes
  <2>1. reruns \in 0..MaxReruns
    BY <1>1, DeployAssumption
  <2> QED BY <1>1, <2>1 DEF PublishTypes, Publishing!TypeOK
<1>5. JobsInv /\ LatestInv
  BY <1>1 DEF JobsInv, LatestInv, Publishing!Publishing, Publishing!LatestIsNewestPublished
<1>6. BuildsInv
  BY <1>1, <1>3, DeployAssumption DEF BuildsInv
<1> QED BY <1>4, <1>5, <1>6 DEF PublishInv
\* Every version is an image the updater may download.
LEMMA VersionsAreImages ==
  ASSUME PublishInv
  PROVE  /\ DOMAIN registry \subseteq Updating!Images
         /\ latest \in Updating!Images \cup {None}
         /\ DOMAIN registry \subseteq Nat /\ latest \in Nat /\ built \in Nat
         /\ \A v \in DOMAIN registry : registry[v] \in Pushes /\ v <= built
<1>1. /\ DOMAIN registry \subseteq 1..built /\ built \in Nat
      /\ latest \in DOMAIN registry \cup {NoVersion} /\ reruns \in 0..MaxReruns
      /\ \A v \in DOMAIN registry : registry[v] \in Pushes
  BY DEF PublishInv, PublishTypes, Publishing!TypeOK
<1>2. built <= MaxImages
  <2>1. Cardinality(NotBuilt) \in Nat
    BY Counts DEF PublishInv
  <2> QED BY <1>1, <2>1, DeployAssumption DEF PublishInv, BuildsInv, MaxImages
<1>3. MaxImages \in Nat
  BY DeployAssumption DEF MaxImages
<1> QED BY <1>1, <1>2, <1>3 DEF Updating!Images, None, Updating!None

-----------------------------------------------------------------------------
(* The updater. *)

\* The files a guest has between None and Torn are images, and none of them is either.
LEMMA Images ==
  /\ None = 0 /\ Torn \in Nat /\ Torn # None
  /\ \A v \in Updating!Images : v # None /\ v # Torn /\ v \in Nat
BY DeployAssumption DEF None, Torn, Updating!None, Updating!Torn, Updating!Images, MaxImages

\* Publishing touches no file, and :latest stays on an image or on none.
LEMMA PublishKeepsFiles ==
  ASSUME PublishInv', FilesInv, ServiceInv, UNCHANGED updating
  PROVE  FilesInv' /\ ServiceInv'
<1>1. latest' \in Updating!Images \cup {None}
  <2>1. /\ DOMAIN registry' \subseteq 1..built' /\ built' \in Nat
        /\ latest' \in DOMAIN registry' \cup {NoVersion} /\ reruns' \in 0..MaxReruns
        /\ built' + Cardinality(NotBuilt') <= MaxPushes + reruns'
    BY DEF PublishInv, PublishTypes, Publishing!TypeOK, BuildsInv
  <2>2. NotBuilt' \subseteq Pushes
    BY DEF NotBuilt
  <2>3. Cardinality(NotBuilt') \in Nat
    BY <2>2, FinitePushes
  <2>4. built' <= MaxImages /\ MaxImages \in Nat
    BY <2>1, <2>3, DeployAssumption DEF MaxImages
  <2> QED BY <2>1, <2>4 DEF Updating!Images, None, Updating!None
<1>2. FilesInv'
  BY <1>1 DEF FilesInv, Updating!TypeOK, updating, None, Torn
<1>3. ServiceInv'
  BY DEF ServiceInv, updating
<1> QED BY <1>2, <1>3

LEMMA ScriptKeepsFiles ==
  ASSUME FilesInv, ServiceInv, Script
  PROVE  FilesInv' /\ ServiceInv'
<1> USE Images DEF FilesInv, ServiceInv, Updating!TypeOK, Updating!Steps, Updating!files,
                   Updating!world, None, Torn
<1>1. CASE Updating!Poll
  BY <1>1 DEF Updating!Poll
<1>2. CASE Updating!Export
  BY <1>2 DEF Updating!Export
<1>3. CASE Gone
  BY <1>3 DEF Gone, Updating!ExportFails
<1>4. CASE Updating!Keep
  BY <1>4 DEF Updating!Keep
<1>5. CASE Updating!Swap
  BY <1>5 DEF Updating!Swap
<1>6. CASE Updating!Restart
  BY <1>6 DEF Updating!Restart
<1>7. CASE Updating!Check
  BY <1>7 DEF Updating!Check
<1>8. CASE Updating!Record
  BY <1>8 DEF Updating!Record
<1>9. CASE Updating!Clear
  BY <1>9 DEF Updating!Clear
<1>10. CASE Updating!Reject
  BY <1>10 DEF Updating!Reject
<1>11. CASE Updating!RollBack
  BY <1>11 DEF Updating!RollBack
<1>12. CASE Updating!RestartOld
  BY <1>12 DEF Updating!RestartOld
<1> QED BY <1>1, <1>2, <1>3, <1>4, <1>5, <1>6, <1>7, <1>8, <1>9, <1>10, <1>11, <1>12
        DEF Script, Updating!Install, Updating!Settle

LEMMA AccidentKeepsFiles ==
  ASSUME FilesInv, ServiceInv, Accident
  PROVE  FilesInv' /\ ServiceInv'
<1> USE Images, DeployAssumption DEF FilesInv, ServiceInv, Updating!TypeOK, Updating!Steps,
                   Updating!files, Updating!world, None, Torn
<1>1. CASE Updating!Outage
  BY <1>1 DEF Updating!Outage, Updating!ExportFails
<1>2. CASE Updating!PowerCut
  BY <1>2 DEF Updating!PowerCut
<1> QED BY <1>1, <1>2 DEF Accident

-----------------------------------------------------------------------------
(* What is installed against what is published. *)

\* Whatever publishing does, a version that was behind :latest is so for as long as
\* it can be downloaded, and is built from the same push.
LEMMA PublishKeepsBehind ==
  ASSUME PublishInv, [Publishing!Next]_<<publishing, latest>>,
         NEW v \in Nat, v <= built, Behind(v), v \in DOMAIN registry'
  PROVE  /\ v \in DOMAIN registry /\ registry'[v] = registry[v]
         /\ latest' # NoVersion /\ v <= latest'
         /\ ~overlooked' => registry'[v] <= registry'[latest']
         /\ ~overlooked' => ~overlooked
<1> USE DEF Behind
<1>0. /\ DOMAIN registry \subseteq Nat /\ latest \in Nat /\ built \in Nat
      /\ \A u \in DOMAIN registry : registry[u] \in Nat
      /\ latest # NoVersion => latest \in DOMAIN registry
  BY VersionsAreImages, DeployAssumption DEF PublishInv, PublishTypes, Publishing!TypeOK
<1>1. CASE UNCHANGED <<registry, latest>> /\ (overlooked => overlooked')
  BY <1>1
<1>2. CASE Publishing!Prune
  <2>1. PICK kept \in SUBSET DOMAIN registry :
          /\ registry' = [u \in kept |-> registry[u]]
          /\ latest' = IF latest \in kept THEN latest ELSE NoVersion
          /\ \A w \in kept, u \in DOMAIN registry : u >= w => u \in kept
    BY <1>2, PruneKeeps
  <2>5. overlooked' = overlooked
    BY <1>2, PruneKeeps
  <2>2. v \in kept /\ registry'[v] = registry[v] /\ v \in DOMAIN registry
    BY <2>1
  <2>3. /\ latest # NoVersion /\ v <= latest
        /\ ~overlooked => registry[v] <= registry[latest]
    BY <2>2
  <2>4. latest \in kept
    BY <1>0, <2>1, <2>2, <2>3
  <2> QED BY <2>1, <2>2, <2>3, <2>4, <2>5
<1>3. ASSUME NEW p \in Pushes, Publishing!Build(p)
      PROVE  /\ v \in DOMAIN registry /\ registry'[v] = registry[v]
             /\ latest' # NoVersion /\ v <= latest'
             /\ ~overlooked' => registry'[v] <= registry'[latest']
             /\ overlooked' = overlooked
  BY <1>3 DEF Publishing!Build, Publishing!histories, PublishInv, PublishTypes, Publishing!TypeOK
<1>4. ASSUME NEW p \in Pushes, Publishing!Move(p)
      PROVE  /\ v \in DOMAIN registry /\ registry'[v] = registry[v]
             /\ latest' # NoVersion /\ v <= latest'
             /\ ~overlooked' => registry'[v] <= registry'[latest']
             /\ overlooked' = overlooked
  <2>1. /\ latest' = built /\ built # NoVersion /\ built \in DOMAIN registry
        /\ registry[built] = p /\ registry' = registry /\ overlooked' = overlooked
        /\ latest # NoVersion /\ ~overlooked => registry[latest] <= p
    BY <1>4, MovesToLastBuilt DEF Publishing!Move, Publishing!histories
  <2>2. /\ registry[v] \in Nat /\ registry[latest] \in Nat /\ p \in Nat
        /\ latest # NoVersion /\ (~overlooked => registry[v] <= registry[latest])
    BY <1>0, <2>1, DeployAssumption
  <2> QED BY <2>1, <2>2
<1>5. ASSUME NEW p \in Pushes, Publishing!Job(p)
      PROVE  \/ Publishing!Build(p) \/ Publishing!Move(p)
             \/ UNCHANGED <<registry, latest>> /\ (overlooked => overlooked')
  BY <1>5 DEF Publishing!Job, Publishing!Push, Publishing!TestsPass, Publishing!Fail,
              Publishing!Start, Publishing!Check, Publishing!Rerun, Publishing!histories
<1> QED BY <1>1, <1>2, <1>3, <1>4, <1>5 DEF Publishing!Next, publishing

LEMMA PublishKeepsForward ==
  ASSUME PublishInv, FilesInv, ForwardInv, [Publishing!Next]_<<publishing, latest>>,
         UNCHANGED updating
  PROVE  ForwardInv'
<1>1. built' \in Nat /\ built \in Nat /\ built <= built'
  <2>1. CASE UNCHANGED built
    BY <2>1, VersionsAreImages
  <2>2. ASSUME NEW p \in Pushes, Publishing!Build(p)
        PROVE  built' = built + 1
    BY <2>2 DEF Publishing!Build
  <2>3. ASSUME NEW p \in Pushes, Publishing!Job(p)
        PROVE  Publishing!Build(p) \/ UNCHANGED built
    BY <2>3 DEF Publishing!Job, Publishing!Push, Publishing!TestsPass, Publishing!Fail,
                Publishing!Start, Publishing!Check, Publishing!Rerun, Publishing!Move
  <2>4. CASE Publishing!Prune
    BY <2>4, <2>1 DEF Publishing!Prune
  <2> QED BY <2>1, <2>2, <2>3, <2>4, VersionsAreImages DEF Publishing!Next, publishing
<1>2. /\ current \in Nat /\ digest \in Nat /\ current' = current /\ digest' = digest
      /\ pc' = pc
  BY Images DEF FilesInv, Updating!TypeOK, updating, None, Updating!None
<1>3. /\ current <= built /\ digest <= built /\ Behind(current)
      /\ pc # "idle" => Behind(digest)
  BY DEF ForwardInv
<1>4. current \in DOMAIN registry' =>
        /\ current \in DOMAIN registry /\ registry'[current] = registry[current]
        /\ latest' # NoVersion /\ current <= latest'
        /\ ~overlooked' => registry'[current] <= registry'[latest'] /\ ~overlooked
  BY <1>2, <1>3, PublishKeepsBehind
<1>5. pc # "idle" /\ digest \in DOMAIN registry' =>
        /\ digest \in DOMAIN registry /\ registry'[digest] = registry[digest]
        /\ latest' # NoVersion /\ digest <= latest'
        /\ ~overlooked' => registry'[digest] <= registry'[latest'] /\ ~overlooked
  BY <1>2, <1>3, PublishKeepsBehind
<1>6. Behind(current)' /\ (pc' # "idle" => Behind(digest)')
  BY <1>2, <1>4, <1>5 DEF Behind
<1>7. current' <= built' /\ digest' <= built'
  BY <1>1, <1>2, <1>3
<1>8. pc' = "export" /\ ~overlooked' /\ current' \in DOMAIN registry' /\ digest' \in DOMAIN registry'
        => registry'[current'] <= registry'[digest']
  BY <1>2, <1>4, <1>5 DEF ForwardInv
<1> QED BY <1>6, <1>7, <1>8 DEF ForwardInv

\* The script takes up :latest, and installs what it took up.
LEMMA UpdaterKeepsForward ==
  ASSUME PublishInv, FilesInv, ForwardInv, Script \/ Accident
  PROVE  ForwardInv'
<1>1. /\ UNCHANGED <<registry, built, latest, overlooked>>
      /\ latest \in Nat /\ built \in Nat /\ latest <= built /\ 0 \notin DOMAIN registry
      /\ latest # NoVersion => latest \in DOMAIN registry
      /\ \A v \in DOMAIN registry : v \in Nat /\ registry[v] \in Nat
  <2>1. UNCHANGED <<publishing, latest>>
    BY DEF Script, Accident, Updating!Poll, Updating!Export, Gone, Updating!ExportFails,
           Updating!Install, Updating!Settle, Updating!Keep, Updating!Swap, Updating!Restart,
           Updating!Check, Updating!Record, Updating!Clear, Updating!Reject,
           Updating!RollBack, Updating!RestartOld, Updating!Outage, Updating!PowerCut,
           Updating!world
  <2> QED BY <2>1, VersionsAreImages, DeployAssumption
          DEF publishing, PublishInv, PublishTypes, Publishing!TypeOK
<1>2. CASE Updating!Poll
  BY <1>1, <1>2 DEF Updating!Poll, Updating!files, Updating!None, ForwardInv, Behind
<1>3. CASE Updating!Record
  BY <1>1, <1>3 DEF Updating!Record, ForwardInv, Behind
<1>4. CASE Updating!PowerCut
  BY <1>1, <1>4 DEF Updating!PowerCut, Updating!None, ForwardInv, Behind
<1>5. CASE UNCHANGED <<current, digest>> /\ pc # "idle" /\ pc' # "export"
  BY <1>1, <1>5 DEF ForwardInv, Behind
<1>6. Updating!Poll \/ Updating!Record \/ Updating!PowerCut
        \/ (UNCHANGED <<current, digest>> /\ pc # "idle" /\ pc' # "export")
  BY DEF Script, Accident, Updating!Export, Gone, Updating!ExportFails,
         Updating!Install, Updating!Settle, Updating!Keep, Updating!Swap, Updating!Restart,
         Updating!Check, Updating!Clear, Updating!Reject,
         Updating!RollBack, Updating!RestartOld, Updating!Outage, Updating!files
<1> QED BY <1>2, <1>3, <1>4, <1>5, <1>6

-----------------------------------------------------------------------------
(* The whole. *)

LEMMA InitIInv == Init => IInv
<1> SUFFICES ASSUME Init PROVE IInv
  OBVIOUS
<1>1. PublishInv
  BY PublishInit DEF Init
<1>2. /\ bin = None /\ new = None /\ prev = None /\ current = None /\ failed = None
      /\ running = None /\ pc = "idle" /\ digest = None /\ powerCuts = 0 /\ outages = 0
      /\ good \subseteq Updating!Images
      /\ latest = 0 /\ built = 0 /\ DOMAIN registry = {}
  BY DEF Init, Updating!Fresh, Publishing!Init, None
<1>3. FilesInv /\ ServiceInv
  BY <1>2, Images, DeployAssumption
  DEF FilesInv, ServiceInv, Updating!TypeOK, Updating!Steps, None, Torn
<1>4. ForwardInv
  BY <1>2, Images DEF ForwardInv, Behind
<1> QED BY <1>1, <1>3, <1>4 DEF IInv

LEMMA NextIInv == IInv /\ [Next]_vars => IInv'
<1> SUFFICES ASSUME IInv, [Next]_vars PROVE IInv'
  OBVIOUS
<1> USE DEF IInv
<1>1. CASE Publish \/ UNCHANGED vars
  <2>1. [Publishing!Next]_<<publishing, latest>> /\ UNCHANGED updating
    BY <1>1 DEF Publish, vars, publishing
  <2>2. PublishInv'
    BY <2>1, PublishStep
  <2>3. FilesInv' /\ ServiceInv'
    BY <2>1, <2>2, PublishKeepsFiles
  <2> QED BY <2>1, <2>2, <2>3, PublishKeepsForward
<1>2. CASE Script \/ Accident
  <2>1. UNCHANGED <<publishing, latest>>
    BY <1>2 DEF Script, Accident, Updating!Poll, Updating!Export, Gone, Updating!ExportFails,
           Updating!Install, Updating!Settle, Updating!Keep, Updating!Swap, Updating!Restart,
           Updating!Check, Updating!Record, Updating!Clear, Updating!Reject,
           Updating!RollBack, Updating!RestartOld, Updating!Outage, Updating!PowerCut,
           Updating!world
  <2>2. PublishInv'
    BY <2>1, PublishStep
  <2>3. FilesInv' /\ ServiceInv'
    BY <1>2, ScriptKeepsFiles, AccidentKeepsFiles
  <2> QED BY <1>2, <2>2, <2>3, UpdaterKeepsForward
<1> QED BY <1>1, <1>2 DEF Next

LEMMA Invariant == Spec => []IInv
BY InitIInv, NextIInv, PTL DEF Spec

\* Every variable of the workflows and of the mini-PC keeps its type: no more
\* images than the runs can build, no power cut or outage beyond the bounds.
THEOREM TypeCorrect == Spec => []TypeOK
<1>1. IInv => TypeOK
  BY DEF IInv, PublishInv, PublishTypes, FilesInv, TypeOK
<1> QED BY <1>1, Invariant, PTL

\* The binary the service starts from is whole, wherever the power went
\* (cp to $BIN.new, then mv).
THEOREM BinaryCorrect == Spec => []BinaryIsWhole
<1>1. IInv => BinaryIsWhole
  BY DEF IInv, FilesInv, BinaryIsWhole, Updating!BinaryIsWhole, Torn
<1> QED BY <1>1, Invariant, PTL

\* While the power stays on, an idle script has left the service on the last image
\* that passed /health, whatever the registry offered and then pruned.
THEOREM RestsCorrect == Spec => []RestsOnCheckedImage
<1>1. IInv => RestsOnCheckedImage
  BY DEF IInv, ServiceInv, RestsOnCheckedImage, Updating!RestsOnCheckedImage, None
<1> QED BY <1>1, Invariant, PTL

\* No push that ended its publish job is newer than the one :latest was built
\* from, until the prune takes that version away or a failed read of :latest
\* hides it from the job of an older push.
THEOREM LatestCorrect == Spec => []LatestIsNewestPublished
<1>1. IInv => LatestIsNewestPublished
  BY DEF IInv, PublishInv, LatestInv, LatestIsNewestPublished
<1> QED BY <1>1, Invariant, PTL

\* An update never installs an older push over a newer one that can still be
\* downloaded, in whatever order the builds end and however long the script
\* takes, until a failed read of :latest has hidden the newer from the older.
THEOREM ForwardCorrect == Spec => UpdatesMoveForward
<1>1. ASSUME IInv, Next, pc = "export", pc' = "keep", current \in DOMAIN registry, ~overlooked
      PROVE  registry[digest] >= registry[current]
  <2>1. digest \in DOMAIN registry
    BY <1>1 DEF Next, Publish, updating, Script, Accident, Gone, Updating!Poll,
       Updating!ExportFails, Updating!Install, Updating!Settle, Updating!Keep, Updating!Swap,
       Updating!Restart, Updating!Check, Updating!Record, Updating!Clear, Updating!Reject,
       Updating!RollBack, Updating!RestartOld, Updating!Outage, Updating!PowerCut
  <2>2. registry[current] <= registry[digest]
    BY <1>1, <2>1 DEF IInv, ForwardInv
  <2>3. registry[current] \in Nat /\ registry[digest] \in Nat
    BY <1>1, <2>1, VersionsAreImages, DeployAssumption DEF IInv
  <2> QED BY <2>2, <2>3
<1>2. IInv /\ [Next]_vars
        => [pc = "export" /\ pc' = "keep" /\ current \in DOMAIN registry /\ ~overlooked
              => registry[digest] >= registry[current]]_vars
  BY <1>1
<1> QED BY <1>2, Invariant, PTL DEF Spec, UpdatesMoveForward

=============================================================================
