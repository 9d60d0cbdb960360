----------------------------- MODULE LoginLimit -----------------------------
(***************************************************************************)
(* The in-memory fixed-window limiter of the login POST                    *)
(* (internal/auth/ratelimit.go).  Allow holds the mutex from end to end;   *)
(* time passes between calls; the process may be restarted.                *)
(***************************************************************************)
EXTENDS Integers, FiniteSets

CONSTANTS
  Clients,          \* source addresses
  MaxAttempts,      \* loginMaxAttempts
  Window,           \* loginWindow
  SweepThreshold,   \* sweepThreshold
  MaxTime           \* bound: the last instant

ASSUME LoginLimitAssumption ==
  /\ MaxAttempts \in Nat \ {0} /\ Window \in Nat \ {0}
  /\ SweepThreshold \in Nat \ {0} /\ MaxTime \in Nat

VARIABLES
  now,
  hits,     \* client -> [count, resetAt]
  answer    \* what the last Allow returned

vars == <<now, hits, answer>>

TypeOK ==
  /\ now \in 0..MaxTime
  /\ DOMAIN hits \subseteq Clients
  /\ \A c \in DOMAIN hits :
       hits[c] \in [count : 1..MaxAttempts, resetAt : Window..(MaxTime + Window)]
  /\ answer \in {"none", "permitted", "refused"}

Init == now = 0 /\ hits = [c \in {} |-> 0] /\ answer = "none"

-----------------------------------------------------------------------------
\* now.After(resetAt): the last instant still belongs to the window.
Elapsed(hw) == now > hw.resetAt

\* Bug: a flood drops every window, live ones too.
SweptAll ==
  IF Cardinality(DOMAIN hits) >= SweepThreshold THEN [c \in {} |-> 0] ELSE hits

\* Bug: the sweep comes one key too late.
SweptLate ==
  IF Cardinality(DOMAIN hits) > SweepThreshold
  THEN [c \in {d \in DOMAIN hits : ~Elapsed(hits[d])} |-> hits[c]]
  ELSE hits

\* A map at the threshold loses every elapsed window first.
Swept ==
  IF Cardinality(DOMAIN hits) >= SweepThreshold
  THEN [c \in {d \in DOMAIN hits : ~Elapsed(hits[d])} |-> hits[c]]
  ELSE hits

SetHit(map, c, hw) ==
  [d \in DOMAIN map \cup {c} |-> IF d = c THEN hw ELSE map[d]]

Allow(c) ==
  /\ IF c \notin DOMAIN Swept \/ Elapsed(Swept[c])
     THEN /\ hits' = SetHit(Swept, c, [count |-> 1, resetAt |-> now + Window])
          /\ answer' = "permitted"
     ELSE IF Swept[c].count >= MaxAttempts
     THEN hits' = Swept /\ answer' = "refused"
     ELSE hits' = [Swept EXCEPT ![c].count = @ + 1] /\ answer' = "permitted"
  /\ UNCHANGED now

Tick ==
  /\ now < MaxTime
  /\ now' = now + 1
  /\ UNCHANGED <<hits, answer>>

\* The map lives in the process.
Restart ==
  /\ hits' = [c \in {} |-> 0]
  /\ UNCHANGED <<now, answer>>

Next == Tick \/ Restart \/ \E c \in Clients : Allow(c)

Spec == Init /\ [][Next]_vars

-----------------------------------------------------------------------------
Live == {c \in DOMAIN hits : ~Elapsed(hits[c])}

\* The limiter keeps the promise, sweeps included: dropping entries when the
\* map is full never renews a live window, keeping elapsed ones never refuses
\* anybody, and a refusal never lengthens the cooldown.
Budget == INSTANCE LoginBudget WITH
            spent <- [c \in Live |-> hits[c].count],
            until <- [c \in Live |-> hits[c].resetAt]

BudgetSpec == Budget!Spec

\* A flood of addresses leaves no more than the threshold in memory, unless that
\* many are really active (ratelimit.go: "the map settles back to the count of
\* genuinely-active clients").
FloodIsSwept ==
  [][(\E c \in Clients : Allow(c))
     => \/ Cardinality(DOMAIN hits') <= SweepThreshold
        \/ DOMAIN hits' = Live']_vars

=============================================================================
