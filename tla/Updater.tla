------------------------------- MODULE Updater -------------------------------
(***************************************************************************)
(* The updater of the mini-PC (deploy/minipc/guest/life-ledger-update.sh): *)
(* a timer runs the script, which compares the digest of :latest with the  *)
(* last one installed, swaps the binary, restarts the service and rolls    *)
(* back when /health does not answer.  The power may go at any step.       *)
(***************************************************************************)
EXTENDS Integers

CONSTANTS
  MaxImages,      \* bound: images ever pushed
  MaxPowerCuts,   \* bound: power cuts
  MaxOutages      \* bound: downloads that fail

Images == 1..MaxImages
None == 0               \* no such file, or an empty one
Torn == MaxImages + 1   \* a binary cut off half-way through its copy

VARIABLES
  latest,                 \* the image :latest names
  good,                   \* the images whose binary answers /health
  bin, new, prev,         \* $BIN, $BIN.new, $BIN.prev
  current, failed,        \* current.digest, failed.digest
  running,                \* the binary the service runs
  pc, digest,             \* where the script is, and its $digest
  powerCuts, outages

files == <<bin, new, prev, current, failed>>
world == <<latest, good, powerCuts, outages>>
vars == <<files, world, running, pc, digest>>

Steps == {"idle", "export", "keep", "swap", "restart", "check", "record",
          "clear", "reject", "rollBack", "restartOld"}

TypeOK ==
  /\ latest \in Images \cup {None} /\ good \subseteq Images
  /\ {bin, new, prev} \subseteq Images \cup {None, Torn}
  /\ {current, failed, digest} \subseteq Images \cup {None}
  /\ running \in Images \cup {None, Torn}
  /\ pc \in Steps
  /\ powerCuts \in 0..MaxPowerCuts /\ outages \in 0..MaxOutages

\* A guest just bootstrapped: no binary yet.
Fresh ==
  /\ bin = None /\ new = None /\ prev = None
  /\ current = None /\ failed = None
  /\ running = None
  /\ pc = "idle" /\ digest = None
  /\ powerCuts = 0 /\ outages = 0

Init == latest = 1 /\ good \in SUBSET Images /\ Fresh

-----------------------------------------------------------------------------
(* The script.  cp and > write a file in place, mv replaces it at once.     *)

\* The timer fires, :latest exists, and its digest is neither installed nor known
\* to fail.
Poll ==
  /\ pc = "idle" /\ latest # None /\ latest \notin {current, failed}
  /\ digest' = latest /\ pc' = "export"
  /\ UNCHANGED <<files, world, running>>

Export ==
  /\ pc = "export"
  /\ new' = digest /\ pc' = "keep"
  /\ UNCHANGED <<bin, prev, current, failed, world, running, digest>>

\* Bug: a predecessor already kept is not replaced.
KeepOnce ==
  /\ pc = "keep"
  /\ prev' = IF bin # None /\ prev = None THEN bin ELSE prev
  /\ pc' = "swap"
  /\ UNCHANGED <<bin, new, current, failed, world, running, digest>>

\* Bug: the digest is marked as failed until it is known to be healthy.
KeepMarked ==
  /\ pc = "keep"
  /\ prev' = IF bin # None THEN bin ELSE prev
  /\ failed' = digest /\ pc' = "swap"
  /\ UNCHANGED <<bin, new, current, world, running, digest>>

Keep ==
  /\ pc = "keep"
  /\ prev' = IF bin # None THEN bin ELSE prev
  /\ pc' = "swap"
  /\ UNCHANGED <<bin, new, current, failed, world, running, digest>>

Swap ==
  /\ pc = "swap"
  /\ bin' = new /\ new' = None /\ pc' = "restart"
  /\ UNCHANGED <<prev, current, failed, world, running, digest>>

Restart ==
  /\ pc = "restart"
  /\ running' = bin /\ pc' = "check"
  /\ UNCHANGED <<files, world, digest>>

\* healthy: twenty tries at /health.
Check ==
  /\ pc = "check"
  /\ pc' = IF running \in good THEN "record" ELSE "reject"
  /\ UNCHANGED <<files, world, running, digest>>

Record ==
  /\ pc = "record"
  /\ current' = digest /\ pc' = "clear"
  /\ UNCHANGED <<bin, new, prev, failed, world, running, digest>>

Clear ==
  /\ pc = "clear"
  /\ failed' = None /\ pc' = "idle"
  /\ UNCHANGED <<bin, new, prev, current, world, running, digest>>

Reject ==
  /\ pc = "reject"
  /\ failed' = digest /\ pc' = "rollBack"
  /\ UNCHANGED <<bin, new, prev, current, world, running, digest>>

\* Bug: the file is put back, the service goes on with the other one.
RollBackFileOnly ==
  /\ pc = "rollBack"
  /\ bin' = IF prev # None THEN prev ELSE bin
  /\ prev' = None /\ pc' = "idle"
  /\ UNCHANGED <<new, current, failed, world, running, digest>>

\* With no predecessor (a first install) the bad binary stays.
RollBack ==
  /\ pc = "rollBack"
  /\ IF prev # None
     THEN bin' = prev /\ prev' = None /\ pc' = "restartOld"
     ELSE pc' = "idle" /\ UNCHANGED <<bin, prev>>
  /\ UNCHANGED <<new, current, failed, world, running, digest>>

RestartOld ==
  /\ pc = "restartOld"
  /\ running' = bin /\ pc' = "idle"
  /\ UNCHANGED <<files, world, digest>>

-----------------------------------------------------------------------------
\* The publish workflow moves :latest, only ever forward.
Push ==
  /\ latest < MaxImages
  /\ latest' = latest + 1
  /\ UNCHANGED <<files, good, powerCuts, outages, running, pc, digest>>

\* crane fails and set -e ends the script.
ExportFails ==
  /\ pc = "export" /\ pc' = "idle"
  /\ UNCHANGED <<files, latest, good, powerCuts, running, digest>>

Outage ==
  /\ ExportFails
  /\ outages < MaxOutages /\ outages' = outages + 1

\* The guest boots again with what is on its disk.  A file that was being
\* written may be left cut off, a digest file empty.
PowerCut ==
  /\ powerCuts < MaxPowerCuts
  /\ powerCuts' = powerCuts + 1
  /\ pc' = "idle" /\ running' = bin
  /\ \/ UNCHANGED <<new, prev, current, failed>>
     \/ pc = "export" /\ new' = Torn /\ UNCHANGED <<prev, current, failed>>
     \/ pc = "keep" /\ bin # None
          /\ prev' = Torn /\ UNCHANGED <<new, current, failed>>
     \/ pc = "record" /\ current' = None /\ UNCHANGED <<new, prev, failed>>
     \/ pc = "reject" /\ failed' = None /\ UNCHANGED <<new, prev, current>>
  /\ UNCHANGED <<bin, latest, good, outages, digest>>

Install == Keep \/ Swap \/ Restart \/ Check
Settle == Record \/ Clear \/ Reject \/ RollBack \/ RestartOld

Next == Poll \/ Export \/ Install \/ Settle \/ Push \/ Outage \/ PowerCut

Spec == Init /\ [][Next]_vars

\* The timer keeps firing and a script that runs ends.
FairSpec == Spec /\ WF_vars(Poll \/ Export \/ Install \/ Settle)

-----------------------------------------------------------------------------
\* The binary the service starts from is whole, wherever the power went: it is
\* only ever replaced by mv, and a predecessor torn by a cut is copied again
\* before it could be rolled back to.
BinaryIsWhole == bin # Torn /\ running # Torn

\* While the power stays on, the service is back on the last image that passed
\* /health whenever the script is not running, however many bad images were
\* pushed since (ADR-0011: "if /health fails it rolls back").
RestsOnCheckedImage ==
  powerCuts = 0 /\ pc = "idle" /\ current # None
    => running = current /\ bin = current /\ current \in good

\* Once :latest stays on an image that works, the service comes to run it for
\* good: no power cut or failed download on the way makes the script give up.
GoodLatestIsServed == <>[](latest \in good => running = latest)

\* A bad image never stays in service once one has passed the check.
BadImageIsRolledBack == <>[](current # None => running \in good)

=============================================================================
