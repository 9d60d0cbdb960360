---------------------------- MODULE BackupProofs ----------------------------
(***************************************************************************)
(* Theorems about Backup, for any calendar of at most MaxDay days, any     *)
(* prune window of two days or more and any number of faults.              *)
(***************************************************************************)
EXTENDS Backup, FiniteSetTheorems, TLAPS

-----------------------------------------------------------------------------
(* The inductive invariant: what a run in progress knows.                   *)

\* A run passes one midnight at most.
RunIsRecent == pc # "idle" => ran \in {today - 1, today}

\* The snapshot was taken during the run.
SnapIsFresh == pc \notin {"idle", "vacuum"} => snap.taken \in ran..today

\* Past the gate it is sound.
SnapIsSound == pc \notin {"idle", "vacuum", "gate"} => snap.holds \in Sound

\* Once uploaded it stays on the remote while the script runs.
SnapIsUp ==
  pc \in {"first", "monthly", "prune", "ping"} => \E d \in DOMAIN daily : daily[d] = snap

\* $day holds the name of the upload that comes next.
DayIsTrue ==
  /\ pc = "daily" => snap.taken \in {day - 1, day}
  /\ pc = "monthly" => day + 1 \in Firsts /\ snap.taken \in {day, day + 1}

\* The night of the last success ping, or one after it, is on the remote.
GoodIsKept ==
  /\ good <= today
  /\ \E d \in DOMAIN daily : daily[d].taken >= good - 1

\* healthchecks.io does not miss the end of the grace.
AlarmInTime == alarm \/ today <= good + 2

Run == RunIsRecent /\ SnapIsFresh /\ SnapIsSound /\ SnapIsUp /\ DayIsTrue
Remote == OnlySoundSnapshots /\ NamesAreTrue /\ LastDaysAreKept
IInv == TypeOK /\ Run /\ Remote /\ GoodIsKept /\ AlarmInTime

-----------------------------------------------------------------------------
(* Facts about the calendar and the names.                                  *)

LEMMA MonthsFollow ==
  \A d \in Days : d + 1 \in Firsts => Month(d + 1) = Month(d) + 1
<1> SUFFICES ASSUME NEW d \in Days, d + 1 \in Firsts
             PROVE  Month(d + 1) = Month(d) + 1
    OBVIOUS
<1> DEFINE before == {f \in Firsts : f <= d}
<1>1. IsFiniteSet(Firsts)
  <2>1. IsFiniteSet(2..MaxDay) BY FS_Interval, BackupAssumption
  <2> QED BY <2>1, FS_Subset, BackupAssumption
<1>2. IsFiniteSet(before) BY <1>1, FS_Subset
<1>3. {f \in Firsts : f <= d + 1} = before \cup {d + 1}
  <2>1. d \in Int /\ \A f \in Firsts : f \in Int BY BackupAssumption DEF Days
  <2>2. \A f \in Firsts : f <= d + 1 <=> (f <= d \/ f = d + 1) BY <2>1
  <2> QED BY <2>2, Zenon
<1>4. d + 1 \notin before BY DEF Days
<1>5. Cardinality(before \cup {d + 1}) = Cardinality(before) + 1
      BY <1>2, <1>4, FS_AddElement
<1> QED BY <1>3, <1>5 DEF Month

LEMMA PutNames ==
  ASSUME NEW store, NEW name
  PROVE  /\ DOMAIN Put(store, name) = DOMAIN store \cup {name}
         /\ Put(store, name)[name] = snap
         /\ \A n \in DOMAIN store : n # name => Put(store, name)[n] = store[n]
BY DEF Put

LEMMA StopsIdle ==
  ASSUME Stop
  PROVE  Run' /\ pc' \in Steps /\ snap' \in Snapshots /\ day' \in Days
BY BackupAssumption DEF Stop, Run, RunIsRecent, SnapIsFresh, SnapIsSound, SnapIsUp,
   DayIsTrue, NoRun, Snapshots, Steps, Days, Contents

-----------------------------------------------------------------------------
(* One lemma per action.                                                    *)

LEMMA TickKeeps == ASSUME IInv, Tick PROVE IInv'
<1> USE DEF IInv
<1>1. TypeOK'
  <2>1. alarm' \in BOOLEAN BY Zenon DEF Tick
  <2>2. today' \in Days BY BackupAssumption DEF TypeOK, Tick, Days
  <2>3. /\ due' \in BOOLEAN
        /\ UNCHANGED <<up, db, daily, monthly, saved, pc, snap, day, ran, good, faults>>
        BY DEF Tick, remote, script
  <2> QED BY <2>1, <2>2, <2>3 DEF TypeOK
<1>2. Run'
      BY DEF TypeOK, Tick, remote, script, Run, RunIsRecent, SnapIsFresh,
         SnapIsSound, SnapIsUp, DayIsTrue, Days, Snapshots
<1>3. Remote'
      BY BackupAssumption DEF TypeOK, Tick, remote, Remote, OnlySoundSnapshots,
         NamesAreTrue, LastDaysAreKept, Days
<1>4. GoodIsKept' BY DEF TypeOK, Tick, remote, GoodIsKept, Days
<1>5. AlarmInTime'
  <2>1. CASE today' > good + 2 BY <2>1, Zenon DEF Tick, AlarmInTime
  <2>2. CASE ~(today' > good + 2) BY <2>2 DEF TypeOK, Tick, AlarmInTime, Days
  <2> QED BY <2>1, <2>2
<1> QED BY <1>1, <1>2, <1>3, <1>4, <1>5

LEMMA TimerFiresKeeps == ASSUME IInv, TimerFires PROVE IInv'
<1> USE DEF IInv
<1>1. TypeOK' BY DEF TypeOK, TimerFires, remote, watch, Steps
<1>2. Run'
      BY DEF TypeOK, TimerFires, Run, RunIsRecent, SnapIsFresh, SnapIsSound,
         SnapIsUp, DayIsTrue
<1>3. Remote' /\ GoodIsKept' /\ AlarmInTime'
      BY DEF TypeOK, TimerFires, remote, watch, Remote, OnlySoundSnapshots,
         NamesAreTrue, LastDaysAreKept, GoodIsKept, AlarmInTime
<1> QED BY <1>1, <1>2, <1>3

\* Nothing but the run, the database, the power and an alarm changes.
LEMMA RemoteStays ==
  ASSUME IInv, UNCHANGED <<today, remote, good>>, alarm' \in {alarm, TRUE}
  PROVE  Remote' /\ GoodIsKept' /\ AlarmInTime'
BY DEF IInv, TypeOK, remote, Remote, OnlySoundSnapshots, NamesAreTrue,
   LastDaysAreKept, GoodIsKept, AlarmInTime

LEMMA FailsKeeps ==
  ASSUME IInv, Fails, UNCHANGED remote, db' \in Contents \cup {"none"},
         faults' \in 0..MaxFaults
  PROVE  IInv'
<1>1. Run' /\ pc' \in Steps /\ snap' \in Snapshots /\ day' \in Days
      BY StopsIdle DEF Fails
<1>2. TypeOK' BY <1>1 DEF IInv, TypeOK, Fails, remote
<1>3. Remote' /\ GoodIsKept' /\ AlarmInTime' BY RemoteStays DEF Fails
<1> QED BY <1>1, <1>2, <1>3 DEF IInv

LEMMA VacuumKeeps == ASSUME IInv, Vacuum PROVE IInv'
<1>1. db' \in Contents BY DEF IInv, TypeOK, Vacuum, Opened, Contents
<1>2. CASE Fails /\ UNCHANGED faults
  BY <1>1, <1>2, FailsKeeps DEF IInv, TypeOK, Vacuum
<1>3. CASE /\ snap' = [taken |-> today, holds |-> db'] /\ pc' = "gate"
           /\ UNCHANGED <<today, up, day, due, ran, watch, faults>>
  <2>1. TypeOK'
        BY <1>1, <1>3 DEF IInv, TypeOK, Vacuum, remote, watch, Snapshots, Steps
  <2>2. Run'
        BY <1>3 DEF IInv, TypeOK, Vacuum, Run, RunIsRecent, SnapIsFresh, SnapIsSound,
           SnapIsUp, DayIsTrue, Days
  <2>3. Remote' /\ GoodIsKept' /\ AlarmInTime'
        BY <1>3, RemoteStays DEF Vacuum, watch
  <2> QED BY <2>1, <2>2, <2>3 DEF IInv
<1> QED BY <1>2, <1>3 DEF Vacuum

LEMMA GateKeeps == ASSUME IInv, Gate PROVE IInv'
<1>1. CASE Fails /\ UNCHANGED faults
  BY <1>1, FailsKeeps DEF IInv, TypeOK, Gate
<1>2. CASE /\ Passes(snap) /\ day' = today /\ pc' = "daily"
           /\ UNCHANGED <<today, up, snap, due, ran, watch, faults>>
  <2>1. TypeOK' BY <1>2 DEF IInv, TypeOK, Gate, remote, watch, Steps
  <2>2. Run'
        BY <1>2 DEF IInv, TypeOK, Gate, Passes, Run, RunIsRecent, SnapIsFresh,
           SnapIsSound, SnapIsUp, DayIsTrue, Days, Snapshots
  <2>3. Remote' /\ GoodIsKept' /\ AlarmInTime' BY <1>2, RemoteStays DEF Gate, watch
  <2> QED BY <2>1, <2>2, <2>3 DEF IInv
<1> QED BY <1>1, <1>2 DEF Gate

\* The upload takes the place of what had its name: the day's own earlier copy, which
\* it is no older than.
LEMMA UploadDailyKeeps == ASSUME IInv, UploadDaily PROVE IInv'
<1>1. /\ DOMAIN daily' = DOMAIN daily \cup {day}
      /\ daily'[day] = snap
      /\ \A d \in DOMAIN daily : d # day => daily'[d] = daily[d]
      BY PutNames DEF UploadDaily
<1>2. TypeOK'
      BY <1>1 DEF IInv, TypeOK, UploadDaily, watch, Steps
<1>3. Run'
      BY <1>1 DEF IInv, TypeOK, UploadDaily, Run, RunIsRecent, SnapIsFresh,
         SnapIsSound, SnapIsUp, DayIsTrue
<1>4. Remote'
  <2>1. OnlySoundSnapshots'
        BY <1>1 DEF IInv, UploadDaily, Run, SnapIsSound, Remote, OnlySoundSnapshots
  <2>2. NamesAreTrue'
        BY <1>1 DEF IInv, UploadDaily, Run, DayIsTrue, Remote, NamesAreTrue
  <2>3. LastDaysAreKept'
        BY <1>1 DEF IInv, UploadDaily, Remote, LastDaysAreKept
  <2> QED BY <2>1, <2>2, <2>3 DEF Remote
<1>5. GoodIsKept'
  <2>1. snap.taken >= good - 1
        BY DEF IInv, TypeOK, UploadDaily, Run, RunIsRecent, SnapIsFresh, GoodIsKept,
           Days, Snapshots
  <2>2. PICK d \in DOMAIN daily : daily[d].taken >= good - 1 BY DEF IInv, GoodIsKept
  <2>3. CASE d = day BY <1>1, <2>1 DEF IInv, UploadDaily, GoodIsKept, watch
  <2>4. CASE d # day BY <1>1, <2>2, <2>4 DEF IInv, UploadDaily, GoodIsKept, watch
  <2> QED BY <2>3, <2>4
<1>6. AlarmInTime' BY DEF IInv, UploadDaily, AlarmInTime, watch
<1> QED BY <1>2, <1>3, <1>4, <1>5, <1>6 DEF IInv

LEMMA FirstOfMonthKeeps == ASSUME IInv, FirstOfMonth PROVE IInv'
<1>1. TypeOK'
      BY BackupAssumption DEF IInv, TypeOK, FirstOfMonth, remote, watch, Steps, Days
<1>2. Run'
      BY DEF IInv, TypeOK, FirstOfMonth, remote, Run, RunIsRecent, SnapIsFresh,
         SnapIsSound, SnapIsUp, DayIsTrue, Days, Snapshots
<1>3. Remote' /\ GoodIsKept' /\ AlarmInTime' BY RemoteStays DEF FirstOfMonth, watch
<1> QED BY <1>1, <1>2, <1>3 DEF IInv

LEMMA UploadMonthlyKeeps == ASSUME IInv, UploadMonthly PROVE IInv'
<1>1. /\ DOMAIN monthly' = DOMAIN monthly \cup {Month(day)}
      /\ monthly'[Month(day)] = snap
      /\ \A m \in DOMAIN monthly : m # Month(day) => monthly'[m] = monthly[m]
      BY PutNames DEF UploadMonthly
<1>2. day + 1 \in Firsts /\ snap.taken \in {day, day + 1} /\ day \in Days
      BY DEF IInv, TypeOK, UploadMonthly, Run, DayIsTrue
<1>3. Month(day) \in Over
  <2>1. (day + 1) - 1 = day BY <1>2 DEF Days
  <2> QED BY <1>2, <2>1 DEF Over
<1>4. TypeOK'
      BY <1>1, <1>3 DEF IInv, TypeOK, UploadMonthly, watch, Steps
<1>5. Run'
      BY DEF IInv, TypeOK, UploadMonthly, Run, RunIsRecent, SnapIsFresh,
         SnapIsSound, SnapIsUp, DayIsTrue
<1>6. Remote'
  <2>1. OnlySoundSnapshots'
        BY <1>1 DEF IInv, UploadMonthly, Run, SnapIsSound, Remote, OnlySoundSnapshots
  <2>2. NamesAreTrue'
    <3>1. ASSUME NEW m \in DOMAIN monthly'
          PROVE  \E f \in Firsts : Month(f) = m + 1 /\ monthly'[m].taken \in {f - 1, f}
      <4>1. CASE m = Month(day)
        <5>1. Month(day + 1) = m + 1 BY <1>2, <4>1, MonthsFollow
        <5>2. monthly'[m].taken \in {(day + 1) - 1, day + 1}
              BY <1>1, <1>2, <4>1 DEF Days
        <5> QED BY <1>2, <5>1, <5>2
      <4>2. CASE m # Month(day)
            BY <1>1, <4>2 DEF IInv, Remote, NamesAreTrue
      <4> QED BY <4>1, <4>2
    <3> QED BY <3>1 DEF IInv, UploadMonthly, Remote, NamesAreTrue
  <2>3. LastDaysAreKept' BY DEF IInv, UploadMonthly, Remote, LastDaysAreKept
  <2> QED BY <2>1, <2>2, <2>3 DEF Remote
<1>7. GoodIsKept' /\ AlarmInTime'
      BY DEF IInv, UploadMonthly, GoodIsKept, AlarmInTime, watch
<1> QED BY <1>4, <1>5, <1>6, <1>7 DEF IInv

\* What a prune may leave: the young dailies and, of the others, any.
LEMMA YoungStay ==
  ASSUME IInv, NEW some \in SUBSET (DOMAIN daily \ Young), Keep(Young \cup some),
         pc = "prune", UNCHANGED <<today, monthly, saved>>
  PROVE  /\ Remote'
         /\ DOMAIN daily' \subseteq DOMAIN daily
         /\ \A d \in DOMAIN daily' : daily'[d] = daily[d]
         /\ \E d \in DOMAIN daily' : daily'[d] = snap
         /\ snap.taken >= today - 1
<1>1. /\ DOMAIN daily' = Young \cup some
      /\ \A d \in DOMAIN daily' : daily'[d] = daily[d]
      BY DEF Keep
<1>2. DOMAIN daily' \subseteq DOMAIN daily BY <1>1 DEF Young
<1>3. snap.taken >= today - 1 /\ snap.taken \in Int
      BY DEF IInv, TypeOK, Run, RunIsRecent, SnapIsFresh, Days, Snapshots
<1>4. \E d \in DOMAIN daily' : daily'[d] = snap
  <2>1. PICK d \in DOMAIN daily : daily[d] = snap BY DEF IInv, Run, SnapIsUp
  <2>2. snap.taken > today - Window BY <1>3, BackupAssumption DEF IInv, TypeOK, Days
  <2>3. d \in Young BY <2>1, <2>2 DEF Young
  <2> QED BY <1>1, <2>1, <2>3
<1>5. LastDaysAreKept'
  <2> SUFFICES ASSUME NEW d \in saved, d > today - Window + 1
               PROVE  d \in DOMAIN daily'
      BY DEF LastDaysAreKept
  <2>1. d \in DOMAIN daily BY DEF IInv, Remote, LastDaysAreKept
  <2>2. daily[d].taken >= d - 1 /\ daily[d].taken \in Int /\ d \in Int
        BY <2>1 DEF IInv, TypeOK, Remote, NamesAreTrue, Snapshots, Days
  <2>3. daily[d].taken > today - Window
        BY <2>2, BackupAssumption DEF IInv, TypeOK, Days
  <2> QED BY <1>1, <2>1, <2>3 DEF Young
<1>6. Remote' BY <1>1, <1>2, <1>5 DEF IInv, Remote, OnlySoundSnapshots, NamesAreTrue
<1> QED BY <1>1, <1>2, <1>3, <1>4, <1>6

LEMMA GoodStays ==
  ASSUME IInv, \E d \in DOMAIN daily' : daily'[d] = snap, snap.taken >= today - 1,
         UNCHANGED <<today, good>>
  PROVE  GoodIsKept'
BY DEF IInv, TypeOK, GoodIsKept, Days, Snapshots

LEMMA PruneKeeps == ASSUME IInv, Prune PROVE IInv'
<1>1. PICK some \in SUBSET (DOMAIN daily \ (Young \cup Old)) : Keep(Young \cup some)
      BY DEF Prune
<1>2. some \in SUBSET (DOMAIN daily \ Young) OBVIOUS
<1>3. /\ Remote'
      /\ DOMAIN daily' \subseteq DOMAIN daily
      /\ \A d \in DOMAIN daily' : daily'[d] = daily[d]
      /\ \E d \in DOMAIN daily' : daily'[d] = snap
      /\ snap.taken >= today - 1
      BY <1>1, <1>2, YoungStay DEF Prune
<1>4. TypeOK' BY <1>3 DEF IInv, TypeOK, Prune, watch, Steps
<1>5. Run'
      BY <1>3 DEF IInv, Prune, Run, RunIsRecent, SnapIsFresh, SnapIsSound, SnapIsUp,
         DayIsTrue
<1>6. GoodIsKept' BY <1>3, GoodStays DEF Prune, watch
<1>7. AlarmInTime' BY DEF IInv, Prune, AlarmInTime, watch
<1> QED BY <1>3, <1>4, <1>5, <1>6, <1>7 DEF IInv

LEMMA PingKeeps == ASSUME IInv, Ping PROVE IInv'
<1>1. Run' /\ pc' \in Steps /\ snap' \in Snapshots /\ day' \in Days
      BY StopsIdle DEF Ping
<1>2. TypeOK' BY <1>1 DEF IInv, TypeOK, Ping, remote, watch
<1>3. Remote' BY DEF IInv, Ping, remote, Remote, OnlySoundSnapshots, NamesAreTrue,
         LastDaysAreKept
<1>4. \E d \in DOMAIN daily' : daily'[d].taken >= today - 1
      BY DEF IInv, TypeOK, Ping, remote, Run, RunIsRecent, SnapIsFresh, SnapIsUp, Days,
         Snapshots
<1>5. GoodIsKept'
  <2>1. CASE good' = today BY <1>4, <2>1 DEF IInv, TypeOK, Ping, GoodIsKept, Days
  <2>2. CASE UNCHANGED good BY <2>2 DEF IInv, Ping, remote, GoodIsKept
  <2> QED BY <2>1, <2>2 DEF Ping, watch
<1>6. AlarmInTime' BY DEF IInv, TypeOK, Ping, AlarmInTime, watch, Days
<1> QED BY <1>1, <1>2, <1>3, <1>5, <1>6 DEF IInv

LEMMA BreaksKeeps == ASSUME IInv, Breaks PROVE IInv'
<1>1. Run' /\ pc' \in Steps /\ snap' \in Snapshots /\ day' \in Days
      BY StopsIdle DEF Breaks, Fails
<1>2. faults' \in 0..MaxFaults
      BY BackupAssumption DEF IInv, TypeOK, Breaks, Fault
<1>3. CASE UNCHANGED daily
  <2>1. UNCHANGED remote BY <1>3 DEF Breaks, remote
  <2> QED BY <1>2, <2>1, FailsKeeps DEF IInv, TypeOK, Breaks
<1>4. CASE pc = "prune" /\ \E some \in SUBSET (DOMAIN daily \ Young) :
                             Keep(Young \cup some)
  <2>1. /\ Remote'
        /\ DOMAIN daily' \subseteq DOMAIN daily
        /\ \A d \in DOMAIN daily' : daily'[d] = daily[d]
        /\ \E d \in DOMAIN daily' : daily'[d] = snap
        /\ snap.taken >= today - 1
        BY <1>4, YoungStay DEF Breaks, Fails
  <2>2. TypeOK' BY <1>1, <1>2, <2>1 DEF IInv, TypeOK, Breaks, Fails
  <2>3. GoodIsKept' BY <2>1, GoodStays DEF Breaks, Fails
  <2>4. AlarmInTime'
    <3>1. UNCHANGED <<today, good>> BY DEF Breaks, Fails
    <3>2. alarm => alarm' BY Zenon DEF Breaks, Fails
    <3> QED BY <3>1, <3>2 DEF IInv, AlarmInTime
  <2> QED BY <1>1, <2>1, <2>2, <2>3, <2>4 DEF IInv
<1> QED BY <1>3, <1>4 DEF Breaks

LEMMA AroundKeeps ==
  ASSUME IInv, PowerCut \/ Boot \/ LoseFile \/ AppStarts \/ Restore PROVE IInv'
<1>1. UNCHANGED <<today, remote, due, ran, watch>>
      BY DEF PowerCut, Boot, LoseFile, AppStarts, Restore
<1>2. Remote' /\ GoodIsKept' /\ AlarmInTime' BY <1>1, RemoteStays DEF watch
<1>3. faults' \in 0..MaxFaults
      BY BackupAssumption DEF IInv, TypeOK, PowerCut, Boot, LoseFile, AppStarts,
         Restore, Fault
<1>4. up' \in BOOLEAN /\ db' \in Contents \cup {"none"}
      BY DEF IInv, TypeOK, PowerCut, Boot, LoseFile, AppStarts, Restore, Contents
<1>5. Run' /\ pc' \in Steps /\ snap' \in Snapshots /\ day' \in Days
  <2>1. CASE Stop BY <2>1, StopsIdle
  <2>2. CASE UNCHANGED script
        BY <1>1, <2>2 DEF script, remote, IInv, TypeOK, Run, RunIsRecent, SnapIsFresh,
           SnapIsSound, SnapIsUp, DayIsTrue
  <2> QED BY <2>1, <2>2 DEF PowerCut, Boot, LoseFile, AppStarts, Restore
<1>6. TypeOK' BY <1>1, <1>3, <1>4, <1>5 DEF IInv, TypeOK, remote, watch
<1> QED BY <1>2, <1>5, <1>6 DEF IInv

LEMMA StutterKeeps == ASSUME IInv, UNCHANGED vars PROVE IInv'
<1> USE DEF IInv, vars, remote, script, watch
<1>1. TypeOK' BY DEF TypeOK
<1>2. Run' BY DEF Run, RunIsRecent, SnapIsFresh, SnapIsSound, SnapIsUp, DayIsTrue
<1>3. Remote' /\ GoodIsKept' /\ AlarmInTime' BY RemoteStays DEF TypeOK
<1> QED BY <1>1, <1>2, <1>3

LEMMA InitIsGood == Init => IInv
<1> SUFFICES ASSUME Init PROVE IInv OBVIOUS
<1>1. DOMAIN daily = {1} /\ daily[1] = [taken |-> 1, holds |-> "ledger"]
      /\ DOMAIN monthly = {}
      BY DEF Init
<1>2. TypeOK
  <2>1. 1 \in Days /\ 0 \in 0..MaxFaults BY BackupAssumption DEF Days
  <2>2. [taken |-> 1, holds |-> "ledger"] \in Snapshots BY <2>1 DEF Snapshots, Contents
  <2> QED BY <1>1, <2>1, <2>2 DEF Init, TypeOK, NoRun, Contents, Steps
<1>3. Run BY DEF Init, Run, RunIsRecent, SnapIsFresh, SnapIsSound, SnapIsUp, DayIsTrue
<1>4. Remote
      BY <1>1 DEF Init, Remote, OnlySoundSnapshots, NamesAreTrue, LastDaysAreKept, Sound
<1>5. GoodIsKept /\ AlarmInTime BY <1>1 DEF Init, GoodIsKept, AlarmInTime
<1> QED BY <1>2, <1>3, <1>4, <1>5 DEF IInv

LEMMA Inductive == Spec => []IInv
<1>1. IInv /\ [Next]_vars => IInv'
  <2> SUFFICES ASSUME IInv, [Next]_vars PROVE IInv' OBVIOUS
  <2>1. CASE Tick BY <2>1, TickKeeps
  <2>2. CASE TimerFires BY <2>2, TimerFiresKeeps
  <2>3. CASE Vacuum BY <2>3, VacuumKeeps
  <2>4. CASE Gate BY <2>4, GateKeeps
  <2>5. CASE UploadDaily BY <2>5, UploadDailyKeeps
  <2>6. CASE FirstOfMonth BY <2>6, FirstOfMonthKeeps
  <2>7. CASE UploadMonthly BY <2>7, UploadMonthlyKeeps
  <2>8. CASE Prune BY <2>8, PruneKeeps
  <2>9. CASE Ping BY <2>9, PingKeeps
  <2>10. CASE Breaks BY <2>10, BreaksKeeps
  <2>11. CASE PowerCut \/ Boot \/ LoseFile \/ AppStarts \/ Restore BY <2>11, AroundKeeps
  <2>12. CASE UNCHANGED vars BY <2>12, StutterKeeps
  <2> QED
      BY <2>1, <2>2, <2>3, <2>4, <2>5, <2>6, <2>7, <2>8, <2>9, <2>10, <2>11, <2>12
      DEF Next, Script, Accident
<1> QED BY <1>1, InitIsGood, PTL DEF Spec

-----------------------------------------------------------------------------
\* TypeOK: every name on the remote is a day of the calendar or a month that ended.
THEOREM TypeCorrect == Spec => []TypeOK
<1>1. IInv => TypeOK BY DEF IInv
<1> QED BY <1>1, Inductive, PTL

\* OnlySoundSnapshots: whatever becomes of the database file and whenever, no
\* damaged or unmigrated snapshot gets past the script's gate.
THEOREM SoundCorrect == Spec => []OnlySoundSnapshots
<1>1. IInv => OnlySoundSnapshots BY DEF IInv, Remote
<1> QED BY <1>1, Inductive, PTL

\* DailiesNeverRunOut: no number of failed nights or cut-off prunes empties daily/.
THEOREM DailiesCorrect == Spec => []DailiesNeverRunOut
<1>1. IInv => DailiesNeverRunOut BY DEF IInv, GoodIsKept, DailiesNeverRunOut
<1> QED BY <1>1, Inductive, PTL

\* LastDaysAreKept: with a prune window of any length from two days, the script's
\* upload, prune and a run over midnight keep the last days' dailies.
THEOREM LastDaysCorrect == Spec => []LastDaysAreKept
<1>1. IInv => LastDaysAreKept BY DEF IInv, Remote
<1> QED BY <1>1, Inductive, PTL

\* NamesAreTrue: the two times the script reads the date never name a snapshot
\* more than the one midnight wrong.
THEOREM NamesCorrect == Spec => []NamesAreTrue
<1>1. IInv => NamesAreTrue BY DEF IInv, Remote
<1> QED BY <1>1, Inductive, PTL

\* RecentOrAlarmed: the dead-man's switch notices every way the nights may fail.
THEOREM RecentCorrect == Spec => []RecentOrAlarmed
<1>1. IInv => RecentOrAlarmed
      BY DEF IInv, TypeOK, GoodIsKept, AlarmInTime, RecentOrAlarmed, Days, Snapshots
<1> QED BY <1>1, Inductive, PTL

=============================================================================
