------------------------------- MODULE Backup -------------------------------
(***************************************************************************)
(* The nightly backup of the mini-PC (deploy/minipc/guest/life-ledger-     *)
(* backup.sh with its timer) against the file at DB_PATH, which the app    *)
(* opens and migrates, and the snapshots kept on the remote.  Days are     *)
(* numbered; a run may begin at any time of a day and pass one midnight.   *)
(***************************************************************************)
EXTENDS Integers, FiniteSets

CONSTANTS
  MaxDay,      \* bound: the last day
  Firsts,      \* the days that are the 1st of a month
  Window,      \* the prune deletes what is this many days old or older
  MaxFaults    \* bound: power cuts, lost files, failed steps

ASSUME BackupAssumption ==
  /\ MaxDay \in Nat \ {0} /\ Firsts \subseteq 2..MaxDay
  /\ Window \in Nat \ {0, 1} /\ MaxFaults \in Nat

Days == 1..MaxDay
Month(day) == Cardinality({f \in Firsts : f <= day})
Over == {Month(f - 1) : f \in Firsts}   \* the months that end

(* What a database file holds: "zero" no schema at all, "blank" the schema  *)
(* and no record, "damaged" what integrity_check refuses.                   *)
Contents == {"zero", "blank", "ledger", "damaged"}
Sound == {"blank", "ledger"}
Snapshots == [taken : Days, holds : Contents]

VARIABLES
  today,
  up,        \* the guest is running
  db,        \* the file at DB_PATH
  daily,     \* daily/ on the remote: the day in the name -> the snapshot
  monthly,   \* monthly/: the month in the name -> the snapshot
  pc, snap, day,   \* the script: where it is, $snap and $day
  due,       \* the timer has elapsed and has not started the script yet
  ran,       \* the day the script last started
  good,      \* the day of the last success ping
  alarm,     \* healthchecks.io holds the check to be down, and has mailed
  saved,     \* history: the days whose daily/ was ever uploaded
  faults

remote == <<daily, monthly, saved>>
watch == <<good, alarm>>
script == <<pc, snap, day>>
vars == <<today, up, db, remote, script, due, ran, watch, faults>>

Steps == {"idle", "vacuum", "gate", "daily", "first", "monthly", "prune", "ping"}

TypeOK ==
  /\ today \in Days /\ up \in BOOLEAN
  /\ db \in Contents \cup {"none"}
  /\ DOMAIN daily \subseteq Days
  /\ \A d \in DOMAIN daily : daily[d] \in Snapshots
  /\ DOMAIN monthly \subseteq Over
  /\ \A m \in DOMAIN monthly : monthly[m] \in Snapshots
  /\ pc \in Steps /\ snap \in Snapshots /\ day \in Days
  /\ due \in BOOLEAN /\ ran \in Days /\ good \in Days /\ alarm \in BOOLEAN
  /\ saved \subseteq Days
  /\ faults \in 0..MaxFaults

NoRun == [taken |-> 1, holds |-> "ledger"]

\* The setup's real run has just put the first snapshot on the remote.
Init ==
  /\ today = 1 /\ up = TRUE /\ db = "ledger"
  /\ daily = [d \in {1} |-> [taken |-> 1, holds |-> "ledger"]]
  /\ monthly = [m \in {} |-> NoRun]
  /\ pc = "idle" /\ snap = NoRun /\ day = 1
  /\ due = FALSE /\ ran = 1 /\ good = 1 /\ alarm = FALSE
  /\ saved = {1} /\ faults = 0

Fault == faults < MaxFaults /\ faults' = faults + 1

-----------------------------------------------------------------------------
(* The timer and healthchecks.io.                                           *)

\* 03:00 comes every day; the run of the night before is over by then.  A check
\* that has had no success for its period and its grace is down.
Tick ==
  /\ today < MaxDay /\ (pc = "idle" \/ ran = today)
  /\ today' = today + 1 /\ due' = TRUE
  /\ alarm' = (alarm \/ today' > good + 2)
  /\ UNCHANGED <<up, db, remote, script, ran, good, faults>>

\* Also what Persistent= starts when the guest comes back.
TimerFires ==
  /\ up /\ due /\ pc = "idle"
  /\ pc' = "vacuum" /\ due' = FALSE /\ ran' = today
  /\ UNCHANGED <<today, up, db, remote, snap, day, watch, faults>>

-----------------------------------------------------------------------------
(* The script, one action per command that takes time.                      *)

Stop == pc' = "idle" /\ snap' = NoRun /\ day' = 1

\* Bug: whatever ended the script, it pings.
FailsQuietly ==
  /\ Stop
  /\ good' = today /\ alarm' = FALSE
  /\ UNCHANGED <<today, up, due, ran>>

\* fail: ping /fail, which itself may not get through.
Fails ==
  /\ Stop
  /\ alarm' \in {alarm, TRUE}
  /\ UNCHANGED <<today, up, due, ran, good>>

\* sqlite3 makes the file it is told to open when there is none.
Opened == IF db = "none" THEN "zero" ELSE db

\* VACUUM INTO reads the whole file: damage may stop it or go into the copy.
Vacuum ==
  /\ pc = "vacuum"
  /\ db' = Opened
  /\ \/ /\ snap' = [taken |-> today, holds |-> db'] /\ pc' = "gate"
        /\ UNCHANGED <<today, up, day, due, ran, watch, faults>>
     \/ db' = "damaged" /\ Fails /\ UNCHANGED faults
  /\ UNCHANGED remote

\* Bug: integrity_check alone.
SoundOnly(s) == s.holds # "damaged"

\* PRAGMA integrity_check says ok and goose_db_version is at least 1.
Passes(s) == s.holds \in Sound

\* Bug: the date is read once, when the script starts.
GateNamesStart ==
  /\ pc = "gate"
  /\ IF Passes(snap)
     THEN /\ day' = ran /\ pc' = "daily"
          /\ UNCHANGED <<today, up, snap, due, ran, watch, faults>>
     ELSE Fails /\ UNCHANGED faults
  /\ UNCHANGED <<db, remote>>

\* Bug: the prune comes before the upload, to make room.
GatePrunes ==
  /\ pc = "gate" /\ Passes(snap)
  /\ daily' = [d \in {e \in DOMAIN daily : daily[e].taken > today - Window} |-> daily[d]]
  /\ day' = today /\ pc' = "daily"
  /\ UNCHANGED <<today, up, db, monthly, saved, snap, due, ran, watch, faults>>

\* The day in the name is read here, after the snapshot was taken.
Gate ==
  /\ pc = "gate"
  /\ IF Passes(snap)
     THEN /\ day' = today /\ pc' = "daily"
          /\ UNCHANGED <<today, up, snap, due, ran, watch, faults>>
     ELSE Fails /\ UNCHANGED faults
  /\ UNCHANGED <<db, remote>>

Put(store, name) ==
  [n \in DOMAIN store \cup {name} |-> IF n = name THEN snap ELSE store[n]]

UploadDaily ==
  /\ pc = "daily"
  /\ daily' = Put(daily, day) /\ saved' = saved \cup {day}
  /\ pc' = "first"
  /\ UNCHANGED <<today, up, db, monthly, snap, day, due, ran, watch, faults>>

\* The date is read again for the question and for the month of yesterday.
FirstOfMonth ==
  /\ pc = "first"
  /\ IF today \in Firsts
     THEN pc' = "monthly" /\ day' = today - 1
     ELSE pc' = "prune" /\ UNCHANGED day
  /\ UNCHANGED <<today, up, db, remote, snap, due, ran, watch, faults>>

UploadMonthly ==
  /\ pc = "monthly"
  /\ monthly' = Put(monthly, Month(day))
  /\ pc' = "prune"
  /\ UNCHANGED <<today, up, db, daily, saved, snap, day, due, ran, watch, faults>>

\* Bug: one day less.
YoungerStill == {d \in DOMAIN daily : daily[d].taken > today - Window + 1}

Young == {d \in DOMAIN daily : daily[d].taken > today - Window}
Old == {d \in DOMAIN daily : daily[d].taken < today - Window}

\* Those of exactly Window days may be an hour short of them or past them; one
\* that fails half-way has deleted some of the old ones.
Keep(days) == daily' = [d \in days |-> daily[d]]

Prune ==
  /\ pc = "prune"
  /\ \E some \in SUBSET (DOMAIN daily \ (Young \cup Old)) : Keep(Young \cup some)
  /\ pc' = "ping"
  /\ UNCHANGED <<today, up, db, monthly, saved, snap, day, due, ran, watch, faults>>

\* The success ping may not get through either; the script ends well all the same.
Ping ==
  /\ pc = "ping" /\ Stop
  /\ \/ good' = today /\ alarm' = FALSE
     \/ UNCHANGED watch
  /\ UNCHANGED <<today, up, db, remote, due, ran, faults>>

Script == \/ Vacuum \/ Gate \/ UploadDaily \/ FirstOfMonth
          \/ UploadMonthly \/ Prune \/ Ping

-----------------------------------------------------------------------------
(* What goes wrong, and the way back.                                       *)

\* The busy timeout, a full disk, rclone: the ERR trap ends the script.
Breaks ==
  /\ pc \in {"vacuum", "gate", "daily", "monthly", "prune"}
  /\ Fault /\ Fails
  /\ \/ UNCHANGED daily
     \/ pc = "prune" /\ \E some \in SUBSET (DOMAIN daily \ Young) :
                          Keep(Young \cup some)
  /\ UNCHANGED <<db, monthly, saved>>

\* Bug: Persistent=false.
PowerCutForgets ==
  /\ up /\ Fault
  /\ up' = FALSE /\ Stop /\ due' = FALSE
  /\ UNCHANGED <<today, db, remote, ran, watch>>

\* The script leaves nothing behind: its directory is under /run.
PowerCut ==
  /\ up /\ Fault
  /\ up' = FALSE /\ Stop
  /\ UNCHANGED <<today, db, remote, due, ran, watch>>

Boot ==
  /\ ~up /\ up' = TRUE
  /\ UNCHANGED <<today, db, remote, script, due, ran, watch, faults>>

\* The drive died or the guest was made anew, or the file was damaged.
LoseFile ==
  /\ db # "none" /\ Fault
  /\ db' \in {"none", "damaged"} /\ db' # db
  /\ UNCHANGED <<today, up, remote, script, due, ran, watch>>

\* systemd asserts that the file exists; Open migrates a file with no schema.
AppStarts ==
  /\ up /\ db = "zero"
  /\ db' = "blank"
  /\ UNCHANGED <<today, up, remote, script, due, ran, watch, faults>>

\* The restore runbook: a snapshot that passes the gate is put in place.
Restore ==
  /\ up /\ db # "ledger"
  /\ \/ \E d \in DOMAIN daily : daily[d].holds = "ledger"
     \/ \E m \in DOMAIN monthly : monthly[m].holds = "ledger"
  /\ db' = "ledger"
  /\ UNCHANGED <<today, up, remote, script, due, ran, watch, faults>>

Accident == Breaks \/ PowerCut \/ LoseFile

Next == Tick \/ TimerFires \/ Script \/ Accident \/ Boot \/ AppStarts \/ Restore

Spec == Init /\ [][Next]_vars

\* Power comes back, the timer starts what is due, a command of the script ends.
\* Nobody has to restore, and no day has to come.
FairSpec == Spec /\ WF_vars(Boot) /\ WF_vars(TimerFires) /\ WF_vars(Script)

-----------------------------------------------------------------------------
\* No file that is damaged or was never migrated reaches the remote, whatever
\* became of DB_PATH before or during the run ("no upload": the integrity gate).
OnlySoundSnapshots ==
  /\ \A d \in DOMAIN daily : daily[d].holds \in Sound
  /\ \A m \in DOMAIN monthly : monthly[m].holds \in Sound

\* Nights that fail, however many in a row, leave the snapshots of the last good
\* night: the prune comes after an upload that is younger than its window
\* ("stale-but-present, never missing").
DailiesNeverRunOut == DOMAIN daily # {}

\* Every daily of the last Window - 1 days is there, whatever ran, failed or was
\* cut off since: no prune and no later upload takes its place.
LastDaysAreKept ==
  \A d \in saved : d > today - Window + 1 => d \in DOMAIN daily

\* A name tells when the snapshot was taken, although the script reads the date
\* after taking it, twice, with an upload in between: a daily is of its day or of
\* the midnight before, a month-end of the month's last day or the 1st after it.
NamesAreTrue ==
  /\ \A d \in DOMAIN daily : daily[d].taken \in {d - 1, d}
  /\ \A m \in DOMAIN monthly :
       \E f \in Firsts : Month(f) = m + 1 /\ monthly[m].taken \in {f - 1, f}

\* The newest snapshot is not more than two days and a midnight old unless the
\* dead-man's switch has mailed, even when no ping gets through (ADR-0014: RPO).
RecentOrAlarmed ==
  alarm \/ \E d \in DOMAIN daily : daily[d].taken >= today - 3

\* A night the guest slept through is made up when the power is back.
NightIsMadeUp == due ~> (pc = "vacuum" /\ ran = today)

\* The service file: "a missing DB must fail loudly here, never silently start
\* empty".
LedgerNeverStartsEmpty == [][db' = "blank" => db = "blank"]_vars

\* ADR-0014: "month-ends forever".  A month with a good night after its end has
\* its month-end.
MonthEndsAreKept ==
  \A f \in Firsts : good >= f /\ pc = "idle" => Month(f) - 1 \in DOMAIN monthly

\* The gate against an "empty or unmigrated DB": no blank ledger is uploaded.
NoBlankUploaded == \A d \in DOMAIN daily : daily[d].holds # "blank"

=============================================================================
