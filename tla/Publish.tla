------------------------------- MODULE Publish -------------------------------
(***************************************************************************)
(* The publishing of images: the publish job of .github/workflows/ci-cd.yml *)
(* and the weekly prune of ghcr-cleanup.yml, over a main branch that only  *)
(* grows.  Pushes are numbered in merge order; each has a workflow run.    *)
(* A concurrency group lets one publish job run and one wait: a job that   *)
(* comes to wait cancels the one that waited (GitHub's default).           *)
(***************************************************************************)
EXTENDS Integers, FiniteSets, FiniteSetsExt

CONSTANTS
  MaxPushes, MaxReruns,   \* bounds: pushes to main, runs started again
  MinVersions                    \* min-versions-to-keep

Pushes == 1..MaxPushes
NoVersion == 0

VARIABLES
  affecting,   \* the pushes that changed a file of the image
  run,         \* where the workflow run of each push is
  registry,    \* package version -> the push its manifest was built from
  built,       \* versions ever pushed
  latest,      \* the version tagged :latest
  reruns,
  tagPruned,   \* history: the prune has taken the version :latest was on
  overlooked   \* history: a read that failed hid a newer push at :latest

vars == <<affecting, run, registry, built, latest, reruns, tagPruned, overlooked>>
histories == <<tagPruned, overlooked>>

Phases == {"none", "testing", "waiting", "building", "checking", "moving",
           "published", "skipped", "failed", "cancelled"}

TypeOK ==
  /\ affecting \subseteq Pushes
  /\ run \in [Pushes -> Phases]
  /\ DOMAIN registry \subseteq 1..built
  /\ \A v \in DOMAIN registry : registry[v] \in affecting
  /\ latest \in DOMAIN registry \cup {NoVersion}
  /\ reruns \in 0..MaxReruns
  /\ tagPruned \in BOOLEAN /\ overlooked \in BOOLEAN

Init ==
  /\ affecting \in SUBSET Pushes
  /\ run = [p \in Pushes |-> "none"]
  /\ registry = [v \in {} |-> 0] /\ built = 0
  /\ latest = NoVersion
  /\ reruns = 0 /\ tagPruned = FALSE /\ overlooked = FALSE

Goes(p, phase) == run' = [run EXCEPT ![p] = phase]

-----------------------------------------------------------------------------
Push(p) ==
  /\ run[p] = "none" /\ \A q \in 1..(p - 1) : run[q] # "none"
  /\ Goes(p, "testing")
  /\ UNCHANGED <<affecting, registry, built, latest, reruns, histories>>

Waiting == {p \in Pushes : run[p] = "waiting"}
Publishing == {p \in Pushes : run[p] \in {"building", "checking", "moving"}}

\* Bug: no concurrency group.
AsksAtOnce(p) == Goes(p, "building")

\* The publish job runs if the group is free, else waits in the one place there is.
Asks(p) ==
  IF Publishing = {}
  THEN Goes(p, "building")
  ELSE run' = [q \in Pushes |-> IF q = p THEN "waiting"
                                ELSE IF q \in Waiting THEN "cancelled" ELSE run[q]]

\* test and changes are done.  A job that waits starts before another can ask.
TestsPass(p) ==
  /\ run[p] = "testing" /\ (Waiting = {} \/ Publishing # {})
  /\ IF p \in affecting THEN Asks(p) ELSE Goes(p, "skipped")
  /\ UNCHANGED <<affecting, registry, built, latest, reruns, histories>>

\* A job fails, or is cancelled by hand.
Fail(p) ==
  /\ run[p] \in {"testing", "building", "checking", "moving"}
  /\ Goes(p, "failed")
  /\ UNCHANGED <<affecting, registry, built, latest, reruns, histories>>

Start(p) ==
  /\ run[p] = "waiting" /\ Publishing = {}
  /\ Goes(p, "building")
  /\ UNCHANGED <<affecting, registry, built, latest, reruns, histories>>

\* Pushes the image as :<sha> only.
Build(p) ==
  /\ run[p] = "building"
  /\ built' = built + 1
  /\ registry' = [v \in DOMAIN registry \cup {built'} |->
                    IF v = built' THEN p ELSE registry[v]]
  /\ Goes(p, "checking")
  /\ UNCHANGED <<affecting, latest, reruns, histories>>

\* :latest was built from a push p does not descend from.
IsOverNewer(p) == latest # NoVersion /\ registry[latest] > p

\* Bug: whatever was built last is :latest.
CheckNothing(p) ==
  /\ run[p] = "checking"
  /\ Goes(p, "moving")
  /\ UNCHANGED <<affecting, registry, built, latest, reruns, histories>>

\* Left where it is when :latest is newer.  When the read of :latest fails (or its
\* image names no commit of the branch), the job goes on to move it: "fail toward
\* publishing".
Check(p) ==
  /\ run[p] = "checking"
  /\ \/ /\ Goes(p, IF IsOverNewer(p) THEN "published" ELSE "moving")
        /\ UNCHANGED overlooked
     \/ /\ Goes(p, "moving")
        /\ overlooked' = (overlooked \/ IsOverNewer(p))
  /\ UNCHANGED <<affecting, registry, built, latest, reruns, tagPruned>>

\* What :<sha> names: the last version built from p.
VersionsOf(p) == {v \in DOMAIN registry : registry[v] = p}

Move(p) ==
  /\ run[p] = "moving" /\ VersionsOf(p) # {}
  /\ latest' = Max(VersionsOf(p))
  /\ Goes(p, "published")
  /\ UNCHANGED <<affecting, registry, built, reruns, histories>>

Rerun(p) ==
  /\ run[p] \in {"published", "failed", "cancelled"} /\ reruns < MaxReruns
  /\ reruns' = reruns + 1
  /\ Goes(p, "testing")
  /\ UNCHANGED <<affecting, registry, built, latest, histories>>

\* The action looks at the age of a version and at no tag.
Prune ==
  /\ LET kept == {v \in DOMAIN registry :
                    Cardinality({u \in DOMAIN registry : u > v}) < MinVersions}
     IN  /\ kept # DOMAIN registry
         /\ registry' = [v \in kept |-> registry[v]]
         /\ latest' = IF latest \in kept THEN latest ELSE NoVersion
         /\ tagPruned' = (tagPruned \/ latest' # latest)
  /\ UNCHANGED <<affecting, run, built, reruns, overlooked>>

Job(p) == \/ Push(p) \/ TestsPass(p) \/ Fail(p) \/ Start(p)
          \/ Build(p) \/ Check(p) \/ Move(p) \/ Rerun(p)

Next == Prune \/ \E p \in Pushes : Job(p)

Spec == Init /\ [][Next]_vars

-----------------------------------------------------------------------------
\* No push that ended its publish job is newer than what :latest was built from,
\* until the prune takes that version away or a read that failed hides it from
\* the job of an older push.
LatestIsNewestPublished ==
  \/ tagPruned \/ overlooked \/ latest = NoVersion
  \/ \A p \in Pushes : run[p] = "published" => p <= registry[latest]

\* The move step "refuses to go backwards" (ci-cd.yml:122-123), reads that fail
\* included.
MoveRefusesToGoBack ==
  [][latest # NoVersion /\ latest' # NoVersion
     => registry'[latest'] >= registry[latest]]_vars

\* :latest sits on the version built last, which the prune never takes
\* (ghcr-cleanup.yml).
LatestIsNewestBuild ==
  latest # NoVersion /\ Publishing = {} /\ (\A p \in Pushes : run[p] # "failed")
    => latest = Max(DOMAIN registry)

\* When everything has ended and nothing failed, :latest is the newest push that
\* changed the image.
NewestPushIsPublished ==
  (\A p \in Pushes : run[p] \in {"none", "published", "skipped", "cancelled"})
    => \A p \in affecting :
         run[p] # "none" => latest # NoVersion /\ registry[latest] >= p

=============================================================================
