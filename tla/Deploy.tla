------------------------------- MODULE Deploy -------------------------------
(***************************************************************************)
(* From a push to the service: the workflows of Publish move :latest, and  *)
(* the Updater of the mini-PC polls it.  A digest is a package version, so *)
(* an image the weekly prune has deleted can no longer be downloaded.      *)
(***************************************************************************)
EXTENDS Integers, FiniteSets

CONSTANTS MaxPushes, MaxReruns, MinVersions, MaxPowerCuts, MaxOutages

ASSUME DeployAssumption ==
  /\ MaxPushes \in Nat \ {0} /\ MaxReruns \in Nat /\ MinVersions \in Nat \ {0}
  /\ MaxPowerCuts \in Nat /\ MaxOutages \in Nat

VARIABLES
  affecting, run, registry, built, latest, reruns,             \* Publish
  tagPruned, overlooked,
  good, bin, new, prev, current, failed, running,               \* Updater
  pc, digest, powerCuts, outages

MaxImages == MaxPushes + MaxReruns   \* every build of a run is an image

Publishing == INSTANCE Publish
Updating == INSTANCE Updater

publishing == <<affecting, run, registry, built, reruns, tagPruned, overlooked>>
updating == <<good, bin, new, prev, current, failed, running,
              pc, digest, powerCuts, outages>>
vars == <<publishing, updating, latest>>

\* The guest is bootstrapped with an empty registry.
Init ==
  /\ Publishing!Init
  /\ good \in SUBSET Updating!Images
  /\ Updating!Fresh

Publish == Publishing!Next /\ UNCHANGED updating

\* The script is let down by the registry: the image has been pruned.
Gone ==
  /\ Updating!ExportFails /\ digest \notin DOMAIN registry
  /\ UNCHANGED outages

Script ==
  /\ \/ Updating!Poll
     \/ Updating!Export /\ digest \in DOMAIN registry
     \/ Gone
     \/ Updating!Install
     \/ Updating!Settle
  /\ UNCHANGED publishing

Accident == (Updating!Outage \/ Updating!PowerCut) /\ UNCHANGED publishing

Next == Publish \/ Script \/ Accident

Spec == Init /\ [][Next]_vars

\* The timer keeps firing and a script that runs ends; nothing else is sure.
FairSpec == Spec /\ WF_vars(Script)

-----------------------------------------------------------------------------
\* An update never installs an older push over a newer one, whatever order the
\* builds end in and however long the script takes, unless the prune has deleted
\* the image in service or a read that failed hid a newer push from the job of an
\* older one (ci-cd.yml: "the move step also refuses to go backwards").
UpdatesMoveForward ==
  [][pc = "export" /\ pc' = "keep" /\ current \in DOMAIN registry /\ ~overlooked
     => registry[digest] >= registry[current]]_vars

\* The parts' own properties, which survive the composition.
TypeOK == Publishing!TypeOK /\ Updating!TypeOK
BinaryIsWhole == Updating!BinaryIsWhole
RestsOnCheckedImage == Updating!RestsOnCheckedImage
LatestIsNewestPublished == Publishing!LatestIsNewestPublished
GoodLatestIsServed == Updating!GoodLatestIsServed

=============================================================================
