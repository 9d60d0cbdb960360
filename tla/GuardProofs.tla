---------------------------- MODULE GuardProofs ----------------------------
(***************************************************************************)
(* Theorems about LoginLimit, for any set of clients, any limit, window    *)
(* and sweep threshold, and then about Guard, for any length of the day    *)
(* and of a session too, and any number of signing secrets.                *)
(***************************************************************************)
EXTENDS Guard, FiniteSetTheorems, TLAPS

USE LoginLimitAssumption, GuardAssumption  \* the constants are numbers, in every step

-----------------------------------------------------------------------------
(* The sweep.                                                               *)

\* What the sweep leaves is part of the map as it was, live windows and all.
LEMMA SweepKeepsLive ==
  /\ DOMAIN Swept \subseteq DOMAIN hits
  /\ \A c \in DOMAIN Swept : Swept[c] = hits[c]
  /\ Live \subseteq DOMAIN Swept
<1>1. CASE Cardinality(DOMAIN hits) >= SweepThreshold
  BY <1>1 DEF Swept, Live
<1>2. CASE ~(Cardinality(DOMAIN hits) >= SweepThreshold)
  BY <1>2 DEF Swept, Live
<1> QED BY <1>1, <1>2

-----------------------------------------------------------------------------
(* Type correctness.                                                        *)

\* The three answers of Allow, each with the map it leaves.
LEMMA AllowCases ==
  ASSUME NEW c, Allow(c)
  PROVE  /\ now' = now
         /\ \/ /\ c \notin Live
               /\ hits' = SetHit(Swept, c, [count |-> 1, resetAt |-> now + Window])
               /\ answer' = "permitted"
            \/ /\ c \in Live /\ hits[c].count >= MaxAttempts
               /\ hits' = Swept /\ answer' = "refused"
            \/ /\ c \in Live /\ ~(hits[c].count >= MaxAttempts)
               /\ hits' = [Swept EXCEPT ![c].count = @ + 1]
               /\ answer' = "permitted"
<1>1. c \in Live <=> c \in DOMAIN Swept /\ ~Elapsed(Swept[c])
  BY SweepKeepsLive DEF Live
<1>2. c \in Live => Swept[c] = hits[c]
  BY <1>1, SweepKeepsLive
<1> QED BY <1>1, <1>2 DEF Allow

Hit == [count : 1..MaxAttempts, resetAt : Window..(MaxTime + Window)]

\* Every step keeps the map a function of clients to windows.
LEMMA TypeStep == TypeOK /\ [Next]_vars => TypeOK'
<1> SUFFICES ASSUME TypeOK, [Next]_vars PROVE TypeOK'
  OBVIOUS
<1> USE DEF TypeOK
<1>1. CASE Tick
  BY <1>1 DEF Tick
<1>2. CASE Restart
  BY <1>2 DEF Restart
<1>3. CASE \E c \in Clients : Allow(c)
  <2> PICK c \in Clients : Allow(c)
    BY <1>3
  <2>1. /\ DOMAIN Swept \subseteq Clients
        /\ \A d \in DOMAIN Swept : Swept[d] \in Hit
    BY SweepKeepsLive DEF Hit
  <2>2. CASE hits' = SetHit(Swept, c, [count |-> 1, resetAt |-> now + Window])
    <3>1. [count |-> 1, resetAt |-> now + Window] \in Hit
      BY DEF Hit
    <3> QED BY <2>1, <2>2, <3>1, AllowCases DEF SetHit, Hit
  <2>3. CASE hits' = Swept
    BY <2>1, <2>3, AllowCases DEF Hit
  <2>4. CASE /\ c \in Live /\ ~(hits[c].count >= MaxAttempts)
             /\ hits' = [Swept EXCEPT ![c].count = @ + 1]
    <3>1. c \in DOMAIN Swept /\ Swept[c] = hits[c]
      BY <2>4, SweepKeepsLive
    <3>2. [Swept[c] EXCEPT !.count = @ + 1] \in Hit
      BY <2>1, <2>4, <3>1 DEF Hit
    <3>3. DOMAIN hits' = DOMAIN Swept
          /\ \A d \in DOMAIN hits' : hits'[d] \in Hit
      BY <2>1, <2>4, <3>1, <3>2
    <3> QED BY <2>1, <3>3, AllowCases DEF Hit
  <2> QED BY <2>2, <2>3, <2>4, AllowCases
<1>4. CASE UNCHANGED vars
  BY <1>4 DEF vars
<1> QED BY <1>1, <1>2, <1>3, <1>4 DEF Next

\* TypeOK holds in every state: a count never passes the limit (ratelimit.go,
\* Allow: max attempts a window) and no window ends beyond the time bound's.
THEOREM TypeCorrect == Spec => []TypeOK
<1>1. Init => TypeOK
  BY DEF Init, TypeOK
<1> QED BY <1>1, TypeStep, PTL DEF Spec

-----------------------------------------------------------------------------
(* The limiter implements the budget of LoginBudget.                        *)

SpentOf == [c \in Live |-> hits[c].count]
UntilOf == [c \in Live |-> hits[c].resetAt]

\* A new window joins the live ones, which stay as they were.
LEMMA FreshWindow ==
  ASSUME TypeOK, NEW c, now' = now,
         hits' = SetHit(Swept, c, [count |-> 1, resetAt |-> now + Window])
  PROVE  /\ Live' = Live \cup {c}
         /\ hits'[c] = [count |-> 1, resetAt |-> now + Window]
         /\ \A d \in Live : d # c => hits'[d] = hits[d]
<1>1. /\ DOMAIN hits' = DOMAIN Swept \cup {c}
      /\ hits'[c] = [count |-> 1, resetAt |-> now + Window]
      /\ \A d \in DOMAIN Swept : d # c => hits'[d] = hits[d]
  BY SweepKeepsLive DEF SetHit
<1>2. c \in Live'
  <2>1. now \in Nat /\ ~(now > now + Window)
    BY DEF TypeOK
  <2> QED BY <1>1, <2>1 DEF Live, Elapsed
<1>3. \A d \in DOMAIN Swept : d # c => (d \in Live' <=> d \in Live)
  BY <1>1, SweepKeepsLive DEF Live, Elapsed
<1>4. Live' \subseteq DOMAIN Swept \cup {c}
  BY <1>1 DEF Live
<1> QED BY <1>1, <1>2, <1>3, <1>4, SweepKeepsLive

\* A refusal, swept map and all, leaves the live windows as they were.
LEMMA SameWindows ==
  ASSUME now' = now, hits' = Swept
  PROVE  Live' = Live /\ \A d \in Live : hits'[d] = hits[d]
<1>1. Live' = {c \in DOMAIN Swept : ~Elapsed(Swept[c])}
  BY DEF Live, Elapsed
<1>2. \A c \in DOMAIN Swept : Elapsed(Swept[c]) <=> Elapsed(hits[c])
  BY SweepKeepsLive
<1> QED BY <1>1, <1>2, SweepKeepsLive DEF Live

\* One more attempt in a live window changes its count only.
LEMMA SpentWindow ==
  ASSUME TypeOK, NEW c \in Live, now' = now,
         hits' = [Swept EXCEPT ![c].count = @ + 1]
  PROVE  /\ Live' = Live
         /\ hits'[c] = [hits[c] EXCEPT !.count = @ + 1]
         /\ \A d \in Live : d # c => hits'[d] = hits[d]
<1>1. c \in DOMAIN Swept /\ Swept[c] = hits[c]
  BY SweepKeepsLive
<1>2. /\ DOMAIN hits' = DOMAIN Swept
      /\ hits'[c] = [hits[c] EXCEPT !.count = @ + 1]
      /\ \A d \in DOMAIN Swept : d # c => hits'[d] = hits[d]
  BY <1>1, SweepKeepsLive
<1>3. hits'[c].resetAt = hits[c].resetAt
  <2>1. hits[c] \in Hit
    BY DEF TypeOK, Live, Hit
  <2> QED BY <1>2, <2>1 DEF Hit
<1>4. \A d \in DOMAIN Swept : hits'[d].resetAt = hits[d].resetAt
  BY <1>2, <1>3
<1>5. Live' = {d \in DOMAIN Swept : ~Elapsed(hits[d])}
  BY <1>2, <1>4 DEF Live, Elapsed
<1> QED BY <1>2, <1>5, SweepKeepsLive DEF Live

\* The attempts and the last instants of the live windows, as LoginBudget sees them.
Spent == [c \in Live |-> hits[c].count]
Until == [c \in Live |-> hits[c].resetAt]

\* A live window takes one attempt after another up to the limit.
LEMMA SpentStep ==
  ASSUME TypeOK, NEW c \in Live, now' = now,
         hits' = [Swept EXCEPT ![c].count = @ + 1]
  PROVE  Spent' = [Spent EXCEPT ![c] = @ + 1] /\ Until' = Until
<1>1. /\ Live' = Live
      /\ hits'[c] = [hits[c] EXCEPT !.count = @ + 1]
      /\ \A d \in Live : d # c => hits'[d] = hits[d]
  BY SpentWindow, Zenon
<1>2. /\ hits'[c].count = hits[c].count + 1
      /\ hits'[c].resetAt = hits[c].resetAt
  <2>1. hits[c] \in Hit
    BY DEF TypeOK, Live, Hit
  <2> QED BY <1>1, <2>1 DEF Hit
<1>3. Until' = Until
  BY <1>1, <1>2 DEF Until
<1>4. Spent' = [d \in Live |-> hits'[d].count]
  BY <1>1 DEF Spent
<1>5. Spent' = [Spent EXCEPT ![c] = @ + 1]
  <2>1. Spent[c] = hits[c].count /\ hits'[c].count = Spent[c] + 1
    BY <1>2 DEF Spent
  <2>2. \A d \in Live : d # c => hits'[d].count = Spent[d]
    BY <1>1 DEF Spent
  <2>3. DOMAIN Spent = Live /\ Spent = [d \in Live |-> Spent[d]]
    BY DEF Spent
  <2> HIDE DEF Spent
  <2> QED BY <1>4, <2>1, <2>2, <2>3
<1> QED BY <1>3, <1>5

\* An attempt outside every live window opens one.
LEMMA FreshStep ==
  ASSUME TypeOK, NEW c, c \notin Live, now' = now,
         hits' = SetHit(Swept, c, [count |-> 1, resetAt |-> now + Window])
  PROVE  /\ Spent' = [d \in Live \cup {c} |-> IF d = c THEN 1 ELSE Spent[d]]
         /\ Until' = [d \in Live \cup {c} |-> IF d = c THEN now + Window ELSE Until[d]]
BY FreshWindow DEF Spent, Until

\* Time takes from the live windows those that end.
LEMMA TickStep ==
  ASSUME TypeOK, Tick
  PROVE  LET open == {c \in Live : now' <= Until[c]} IN
         /\ Spent' = [c \in open |-> Spent[c]]
         /\ Until' = [c \in open |-> Until[c]]
<1>1. \A c \in DOMAIN hits : hits[c].resetAt \in Int
  BY DEF TypeOK
<1>2. now' = now + 1 /\ hits' = hits /\ now \in Int
  BY DEF Tick, TypeOK
<1>3. Live' = {c \in Live : now' <= Until[c]}
  BY <1>1, <1>2 DEF Live, Elapsed, Until
<1> QED BY <1>2, <1>3 DEF Spent, Until

\* Every step of the limiter is a step of the budget, or none.
LEMMA BudgetStep ==
  TypeOK /\ [Next]_vars => [Budget!Next]_<<now, Spent, Until, answer>>
<1> SUFFICES ASSUME TypeOK, [Next]_vars
             PROVE  [Budget!Next]_<<now, Spent, Until, answer>>
  OBVIOUS
<1>1. CASE Tick
  <2>1. Budget!Lapse
    BY <1>1, TickStep DEF Budget!Lapse, Budget!Open, Tick, Spent, Until
  <2> QED BY <2>1 DEF Budget!Next
<1>2. CASE Restart
  <2>1. Live' = {}
    BY <1>2 DEF Restart, Live
  <2>2. Budget!Forget
    BY <1>2, <2>1 DEF Budget!Forget, Restart
  <2> QED BY <2>2 DEF Budget!Next
<1>3. CASE \E c \in Clients : Allow(c)
  <2> PICK c \in Clients : Allow(c)
    BY <1>3
  <2>0. DOMAIN Spent = Live /\ now' = now
    BY AllowCases DEF Spent
  <2>1. CASE /\ c \notin Live
             /\ hits' = SetHit(Swept, c, [count |-> 1, resetAt |-> now + Window])
             /\ answer' = "permitted"
    <3>1. Budget!Permit(c)
      BY <2>0, <2>1, FreshStep DEF Budget!Permit, Budget!Open, Spent, Until
    <3> QED BY <3>1 DEF Budget!Next
  <2>2. CASE /\ c \in Live /\ hits[c].count >= MaxAttempts
             /\ hits' = Swept /\ answer' = "refused"
    <3>1. Spent' = Spent /\ Until' = Until
      BY <2>0, <2>2, SameWindows DEF Spent, Until
    <3>2. hits[c].count = MaxAttempts
      BY <2>2 DEF TypeOK, Live
    <3>3. Budget!Refuse(c)
      BY <2>0, <2>2, <3>1, <3>2 DEF Budget!Refuse, Budget!Open, Spent, Until
    <3> QED BY <3>3 DEF Budget!Next
  <2>3. CASE /\ c \in Live /\ ~(hits[c].count >= MaxAttempts)
             /\ hits' = [Swept EXCEPT ![c].count = @ + 1]
             /\ answer' = "permitted"
    <3>1. Spent' = [Spent EXCEPT ![c] = @ + 1] /\ Until' = Until
      BY <2>0, <2>3, SpentStep
    <3>2. hits[c].count < MaxAttempts
      BY <2>3 DEF TypeOK, Live
    <3>3. Budget!Permit(c)
      BY <2>0, <2>3, <3>1, <3>2 DEF Budget!Permit, Budget!Open, Spent, Until
    <3> QED BY <3>3 DEF Budget!Next
  <2> QED BY <2>1, <2>2, <2>3, AllowCases
<1>4. CASE UNCHANGED vars
  <2>1. now' = now /\ hits' = hits /\ answer' = answer
    BY <1>4 DEF vars
  <2>2. Live' = Live
    BY <2>1 DEF Live, Elapsed
  <2> QED BY <2>1, <2>2 DEF Spent, Until
<1> QED BY <1>1, <1>2, <1>3, <1>4 DEF Next

\* The limiter implements the budget (ADR-0004): sweeping a full map never renews a
\* live window, keeping elapsed ones never refuses anybody, and a refusal never
\* lengthens the cooldown (ratelimit.go, Allow).
THEOREM BudgetCorrect == Spec => BudgetSpec
<1>1. Init => Budget!Init
  <2>1. Init => Live = {}
    BY DEF Init, Live
  <2> QED BY <2>1 DEF Init, Budget!Init
<1>2. TypeOK /\ [Next]_vars
      => [Budget!Next]_<<now, [c \in Live |-> hits[c].count],
                         [c \in Live |-> hits[c].resetAt], answer>>
  BY BudgetStep DEF Spent, Until
<1> QED BY <1>1, <1>2, TypeCorrect, PTL DEF Spec, BudgetSpec, Budget!Spec

-----------------------------------------------------------------------------
(* The size of the map.                                                     *)

Finite == IsFiniteSet(DOMAIN hits)

\* Allow adds one client at most, and a full map is swept before.
LEMMA AllowDomain ==
  ASSUME NEW c, Allow(c)
  PROVE  DOMAIN hits' = DOMAIN Swept \/ DOMAIN hits' = DOMAIN Swept \cup {c}
BY AllowCases DEF SetHit

\* The map stays finite.
LEMMA FiniteStep == Finite /\ [Next]_vars => Finite'
<1> SUFFICES ASSUME Finite, [Next]_vars PROVE Finite'
  OBVIOUS
<1>1. CASE Tick \/ UNCHANGED vars
  BY <1>1 DEF Tick, vars, Finite
<1>2. CASE Restart
  <2>1. DOMAIN hits' = {}
    BY <1>2 DEF Restart
  <2> QED BY <2>1, FS_EmptySet DEF Finite
<1>3. CASE \E c \in Clients : Allow(c)
  <2> PICK c \in Clients : Allow(c)
    BY <1>3
  <2>1. IsFiniteSet(DOMAIN Swept)
    BY SweepKeepsLive, FS_Subset DEF Finite
  <2>2. IsFiniteSet(DOMAIN Swept \cup {c})
    BY <2>1, FS_AddElement
  <2> QED BY <2>1, <2>2, AllowDomain DEF Finite
<1> QED BY <1>1, <1>2, <1>3 DEF Next

\* After a full map was swept it holds live windows only.
LEMMA SweptToLive ==
  ASSUME TypeOK, NEW c, Allow(c), Cardinality(DOMAIN hits) >= SweepThreshold
  PROVE  DOMAIN hits' = Live'
<1>1. DOMAIN Swept = Live
  BY DEF Swept, Live
<1>2. now' = now
  BY AllowCases
<1>3. CASE hits' = SetHit(Swept, c, [count |-> 1, resetAt |-> now + Window])
  BY <1>1, <1>2, <1>3, FreshWindow DEF SetHit
<1>4. CASE hits' = Swept
  BY <1>1, <1>2, <1>4, SameWindows
<1>5. CASE c \in Live /\ hits' = [Swept EXCEPT ![c].count = @ + 1]
  <2>1. Live' = Live
    BY <1>2, <1>5, SpentWindow, Zenon
  <2> QED BY <1>1, <1>5, <2>1
<1> QED BY <1>3, <1>4, <1>5, AllowCases

\* A flood of addresses leaves no more than the threshold in memory, unless that
\* many are really active (ratelimit.go, the comment above sweepThreshold).
THEOREM FloodCorrect == Spec => FloodIsSwept
<1>1. Init => Finite
  BY FS_EmptySet DEF Init, Finite
<1>2. TypeOK /\ Finite /\ [Next]_vars
      => [(\E c \in Clients : Allow(c))
          => \/ Cardinality(DOMAIN hits') <= SweepThreshold
             \/ DOMAIN hits' = Live']_vars
  <2> SUFFICES ASSUME TypeOK, Finite, NEW c \in Clients, Allow(c),
                      DOMAIN hits' # Live'
               PROVE  Cardinality(DOMAIN hits') <= SweepThreshold
    OBVIOUS
  <2>1. ~(Cardinality(DOMAIN hits) >= SweepThreshold)
    BY SweptToLive
  <2>2. DOMAIN Swept = DOMAIN hits
    BY <2>1 DEF Swept
  <2>3. Cardinality(DOMAIN hits) \in Nat
    BY FS_CardinalityType DEF Finite
  <2>4. Cardinality(DOMAIN hits \cup {c}) <= Cardinality(DOMAIN hits) + 1
    BY <2>3, FS_AddElement DEF Finite
  <2>5. Cardinality(DOMAIN hits) + 1 <= SweepThreshold
    BY <2>1, <2>3
  <2>6. CASE DOMAIN hits' = DOMAIN hits
    BY <2>3, <2>5, <2>6
  <2>7. CASE DOMAIN hits' = DOMAIN hits \cup {c}
    <3>1. Cardinality(DOMAIN hits \cup {c}) \in Nat
      BY FS_AddElement, FS_CardinalityType DEF Finite
    <3> QED BY <2>3, <2>4, <2>5, <2>7, <3>1
  <2> QED BY <2>2, <2>6, <2>7, AllowDomain
<1> QED BY <1>1, <1>2, TypeCorrect, FiniteStep, PTL DEF Spec, FloodIsSwept

-----------------------------------------------------------------------------
(* The limiter keeps its promise under the guard: a login is an attempt     *)
(* like any other, and the sessions never touch it.                         *)

LEMMA LimiterSteps == [GuardNext]_guardVars => [Next]_vars
<1>1. ASSUME NEW c \in Clients, Try(c) \/ \E user \in Sessions!Users : Login(c, user)
      PROVE  Next
  BY <1>1 DEF Try, Login, Next
<1>2. Use \/ Deliver => UNCHANGED vars
  BY DEF Use, Deliver, limiter, vars
<1>3. Wait \/ RestartServer \/ ChangeKey => Next
  BY DEF Wait, RestartServer, ChangeKey, Next
<1>4. UNCHANGED guardVars => UNCHANGED vars
  BY DEF guardVars, limiter, vars
<1> QED BY <1>1, <1>2, <1>3, <1>4 DEF GuardNext

LEMMA LimiterRuns == GuardSpec => Spec
<1>1. GuardInit => Init
  BY DEF GuardInit
<1> QED BY <1>1, LimiterSteps, PTL DEF GuardSpec, Spec

\* The limiter keeps each client's budget, and sweeps a flood, whatever logins,
\* visits, logouts and changes of key come between the attempts.
THEOREM GuardBudgetCorrect == GuardSpec => BudgetSpec /\ FloodIsSwept
BY LimiterRuns, BudgetCorrect, FloodCorrect, PTL

-----------------------------------------------------------------------------
(* Days.                                                                    *)

LEMMA Divides ==
  ASSUME NEW n \in Nat, NEW d \in Nat \ {0}
  PROVE  /\ n \div d \in Nat /\ n % d \in 0..(d - 1)
         /\ n = d * (n \div d) + (n % d)
OBVIOUS

LEMMA DivGrows ==
  ASSUME NEW m \in Nat, NEW n \in Nat, NEW d \in Nat \ {0}, m <= n
  PROVE  m \div d <= n \div d
<1>1. \A a, b \in Nat : a >= b + 1 => d * a >= d * b + d
  <2> SUFFICES ASSUME NEW a \in Nat, NEW b \in Nat, a >= b + 1
               PROVE  d * a >= d * b + d
    OBVIOUS
  <2>1. d * (a - (b + 1)) >= 0
    OBVIOUS
  <2> QED BY <2>1
<1>2. /\ m \div d \in Nat /\ m % d \in 0..(d - 1) /\ m = d * (m \div d) + (m % d)
      /\ n \div d \in Nat /\ n % d \in 0..(d - 1) /\ n = d * (n \div d) + (n % d)
  BY Divides
<1> DEFINE a == m \div d  b == n \div d
<1>3. a >= b + 1 => d * a >= d * b + d
  BY <1>1, <1>2
<1>4. /\ a \in Nat /\ b \in Nat /\ d * a \in Nat /\ d * b \in Nat
      /\ d * a <= m /\ n < d * b + d
  BY <1>2
<1> HIDE DEF a, b
<1>5. a <= b
  BY <1>3, <1>4
<1> QED BY <1>5 DEF a, b

LEMMA SameDay ==
  ASSUME NEW n \in Nat, NEW d \in Nat \ {0}, (n + 1) % d # 0
  PROVE  (n + 1) \div d = n \div d
OBVIOUS

-----------------------------------------------------------------------------
(* The session of a browser that waits for each answer.                     *)

\* What is on its way was issued today and, unless the secret has changed since,
\* answers the request of who is logged in.
ResponsesInv ==
  /\ IsFiniteSet(inFlight) /\ \A r, s \in inFlight : r = s
  /\ \A r \in inFlight :
       /\ r.cookie.key <= key
       /\ r.answers = "logout" <=> r.cookie = Sessions!NoCookie
       /\ r.cookie # Sessions!NoCookie => r.cookie.issued = today
       /\ r.answers = "visit" =>
            r.cookie.key < key \/ (session # "none" /\ r.cookie.user = session)

\* The browser's cookie is of the day of the last request and names who logged in.
CookieInv ==
  /\ cookie.key <= key
  /\ cookie.issued <= today /\ lastUse <= today
  /\ session = "none" => cookie = Sessions!NoCookie \/ cookie.key < key
  /\ session # "none" /\ cookie.key = key =>
       /\ cookie # Sessions!NoCookie /\ Sessions!UserOf(cookie) = session
       /\ cookie.issued = lastUse

SessionInv == SessionTypeOK /\ now \in 0..MaxTime /\ ResponsesInv /\ CookieInv

LEMMA Counting == \A S : Sessions!Cardinality(S) = Cardinality(S)
BY DEF Sessions!Cardinality, Cardinality

LEMMA DaysBounded ==
  ASSUME NEW n \in 0..MaxTime
  PROVE  n \div DayLength \in 0..MaxDay
<1>1. n \div DayLength <= MaxTime \div DayLength
  BY DivGrows
<1>2. n \div DayLength \in Nat /\ MaxTime \div DayLength \in Nat
  BY Divides
<1> QED BY <1>1, <1>2 DEF MaxDay

\* A cookie is none, or of one of the two users.
LEMMA CookieTypes ==
  ASSUME SessionTypeOK, now \in 0..MaxTime
  PROVE  /\ cookie.key \in Nat /\ cookie.issued \in Nat /\ cookie.key <= MaxKey
         /\ cookie # Sessions!NoCookie => Sessions!UserOf(cookie) \in Sessions!Users
         /\ today \in 0..MaxDay /\ key \in 1..MaxKey /\ lastUse \in 0..MaxDay
         /\ \A r \in inFlight :
              /\ r.cookie \in Sessions!Cookies
              /\ r.cookie.key \in Nat /\ r.cookie.issued \in Nat
BY DEF SessionTypeOK, Sessions!TypeOK, Sessions!Cookies, Sessions!NoCookie, Sessions!Users,
       Sessions!LegacyCookie, Sessions!UserOf

LEMMA SessionStart == GuardInit => SessionInv
<1> SUFFICES ASSUME GuardInit PROVE SessionInv
  OBVIOUS
<1>1. /\ now = 0 /\ key = 1 /\ inFlight = {} /\ lastUse = 0
      /\ \/ cookie = Sessions!NoCookie /\ session = "none"
         \/ cookie = Sessions!LegacyCookie /\ session = "javi"
  BY DEF GuardInit, Init, Sessions!Init
<1>2. now \in 0..MaxTime /\ today \in 0..MaxDay /\ 0 \in 0..MaxDay
  <2>1. now \in 0..MaxTime
    BY <1>1
  <2>2. today \in 0..MaxDay
    BY <2>1, DaysBounded DEF today
  <2>3. MaxDay \in Nat
    BY Divides DEF MaxDay
  <2> QED BY <2>1, <2>2, <2>3
<1>3. SessionTypeOK
  BY <1>1, <1>2 DEF SessionTypeOK, Sessions!TypeOK, Sessions!Cookies, Sessions!Users
<1>4. ResponsesInv
  BY <1>1, FS_EmptySet DEF ResponsesInv
<1>5. CookieInv
  BY <1>1, <1>2 DEF CookieInv, Sessions!NoCookie, Sessions!LegacyCookie, Sessions!UserOf,
                    Sessions!Users
<1> QED BY <1>2, <1>3, <1>4, <1>5 DEF SessionInv

\* A request is answered: the browser has no other on its way.
LEMMA RespondStep ==
  ASSUME MaxInFlight = 1, SessionInv, now' = now,
         NEW answers \in {"login", "visit", "logout"}, NEW c \in Sessions!Cookies,
         Sessions!Respond(answers, c),
         answers = "logout" <=> c = Sessions!NoCookie,
         c # Sessions!NoCookie => c.issued = today /\ c.key = key,
         answers = "visit" => session # "none" /\ c.user = session
  PROVE  SessionInv'
<1> DEFINE r == [answers |-> answers, cookie |-> c]
<1> USE DEF SessionInv
<1>1. /\ inFlight' = inFlight \cup {r}
      /\ UNCHANGED <<key, cookie, session, lastUse, today>>
  BY DEF Sessions!Respond
<1>2. inFlight = {}
  <2>1. Cardinality(inFlight) < 1 /\ IsFiniteSet(inFlight)
    BY Counting DEF Sessions!Respond, ResponsesInv
  <2> QED BY <2>1, FS_EmptySet, FS_CardinalityType
<1>3. inFlight' = {r} /\ r.answers = answers /\ r.cookie = c
  BY <1>1, <1>2
<1>4. r \in [answers : {"login", "visit", "logout"}, cookie : Sessions!Cookies]
  OBVIOUS
<1> HIDE DEF r
<1>5. SessionTypeOK'
  BY <1>1, <1>3, <1>4 DEF SessionTypeOK, Sessions!TypeOK
<1>6. ResponsesInv'
  <2>1. IsFiniteSet(inFlight')
    BY <1>3, FS_Singleton
  <2>2. c.key <= key
    BY CookieTypes DEF Sessions!NoCookie
  <2> QED BY <1>1, <1>3, <2>1, <2>2 DEF ResponsesInv
<1>7. CookieInv'
  BY <1>1 DEF CookieInv, Sessions!UserOf
<1> QED BY <1>5, <1>6, <1>7

LEMMA DeliverStep ==
  ASSUME SessionInv, now' = now, NEW r \in inFlight, Sessions!Deliver(r)
  PROVE  SessionInv'
<1> USE DEF SessionInv
<1>1. /\ inFlight' = inFlight \ {r} /\ cookie' = r.cookie
      /\ session' = CASE r.answers = "login" -> r.cookie.user
                      [] r.answers = "visit" -> session
                      [] r.answers = "logout" -> "none"
      /\ lastUse' = today /\ today' = today /\ key' = key
  BY DEF Sessions!Deliver, today
<1>2. /\ r.answers \in {"login", "visit", "logout"} /\ r.cookie \in Sessions!Cookies
      /\ r.cookie.key <= key /\ (r.answers = "logout" <=> r.cookie = Sessions!NoCookie)
      /\ r.cookie # Sessions!NoCookie => r.cookie.issued = today
      /\ r.answers = "visit" =>
           r.cookie.key < key \/ (session # "none" /\ r.cookie.user = session)
  BY DEF ResponsesInv, SessionTypeOK, Sessions!TypeOK
<1>3. inFlight' = {}
  BY <1>1 DEF ResponsesInv
<1>4. r.cookie # Sessions!NoCookie => r.cookie.user \in Sessions!Users
  BY <1>2 DEF Sessions!Cookies
<1>5. SessionTypeOK'
  BY <1>1, <1>2, <1>3, <1>4, CookieTypes DEF SessionTypeOK, Sessions!TypeOK
<1>6. ResponsesInv'
  BY <1>3, FS_EmptySet DEF ResponsesInv
<1>7. CookieInv'
  <2>1. CASE r.answers = "logout"
    BY <1>1, <1>2, <2>1, CookieTypes DEF CookieInv, Sessions!NoCookie
  <2>2. CASE r.answers # "logout"
    <3>1. /\ cookie' # Sessions!NoCookie /\ Sessions!UserOf(cookie)' = r.cookie.user
          /\ cookie'.issued = today /\ cookie'.key <= key
      BY <1>1, <1>2, <1>4, <2>2 DEF Sessions!UserOf
    <3>2. session' = "none" => cookie'.key < key
      BY <1>1, <1>2, <1>4, <2>2 DEF Sessions!Users
    <3>3. session' # "none" /\ cookie'.key = key => r.cookie.user = session'
      BY <1>1, <1>2, <2>2, CookieTypes
    <3>4. /\ today' = today /\ today \in Nat /\ lastUse' = today /\ key' = key
      BY <1>1, CookieTypes
    <3>5. session' # "none" /\ cookie'.key = key' =>
            /\ cookie' # Sessions!NoCookie /\ Sessions!UserOf(cookie)' = session'
            /\ cookie'.issued = lastUse'
      BY <3>1, <3>3, <3>4
    <3>6. session' = "none" => cookie' = Sessions!NoCookie \/ cookie'.key < key'
      BY <3>2, <3>4
    <3> QED BY <3>1, <3>4, <3>5, <3>6 DEF CookieInv
  <2> QED BY <2>1, <2>2
<1> QED BY <1>1, <1>5, <1>6, <1>7

\* A night passes only over answered requests.
LEMMA WaitStep ==
  ASSUME SessionInv, Wait
  PROVE  SessionInv'
<1> USE DEF SessionInv
<1>1. /\ now' = now + 1 /\ now' \in 0..MaxTime
      /\ UNCHANGED <<key, cookie, inFlight, session, lastUse>>
  BY DEF Wait, Tick, sessions
<1>2. today' \in 0..MaxDay /\ today <= today' /\ (inFlight # {} => today' = today)
  <2>1. today' = (now + 1) \div DayLength
    BY <1>1 DEF today
  <2>2. today' \in 0..MaxDay
    BY <1>1, <2>1, DaysBounded
  <2>3. today <= today'
    BY <2>1, DivGrows DEF today
  <2>4. inFlight # {} => today' = today
    <3>1. now \in Nat /\ (inFlight # {} => (now + 1) % DayLength # 0)
      BY DEF Wait
    <3>2. (now + 1) % DayLength # 0 => (now + 1) \div DayLength = now \div DayLength
      BY <3>1, SameDay
    <3> QED BY <2>1, <3>1, <3>2 DEF today
  <2> QED BY <2>2, <2>3, <2>4
<1>3. SessionTypeOK'
  BY <1>1, <1>2 DEF SessionTypeOK, Sessions!TypeOK
<1>4. ResponsesInv'
  BY <1>1, <1>2 DEF ResponsesInv
<1>5. CookieInv'
  BY <1>1, <1>2, CookieTypes DEF CookieInv, Sessions!UserOf
<1> QED BY <1>1, <1>3, <1>4, <1>5

LEMMA RotateStep ==
  ASSUME SessionInv, now' = now, Sessions!RotateSecret
  PROVE  SessionInv'
<1> USE DEF SessionInv
<1>1. /\ key < MaxKey /\ key' = key + 1 /\ session' = "none"
      /\ UNCHANGED <<cookie, inFlight, lastUse, today>>
  BY DEF Sessions!RotateSecret
<1>2. SessionTypeOK'
  BY <1>1, CookieTypes DEF SessionTypeOK, Sessions!TypeOK
<1>3. ResponsesInv'
  BY <1>1, CookieTypes DEF ResponsesInv
<1>4. CookieInv'
  BY <1>1, CookieTypes DEF CookieInv
<1> QED BY <1>1, <1>2, <1>3, <1>4

LEMMA SessionStep ==
  ASSUME MaxInFlight = 1, SessionInv, [GuardNext]_guardVars
  PROVE  SessionInv'
<1>0. ASSUME now' = now, UNCHANGED sessions PROVE SessionInv'
  BY <1>0 DEF sessions, SessionInv, SessionTypeOK, Sessions!TypeOK, ResponsesInv, CookieInv,
              today, Sessions!UserOf
<1>1. CASE \E c \in Clients : Try(c)
  BY <1>0, <1>1, AllowCases DEF Try
<1>2. ASSUME NEW c \in Clients, NEW user \in Sessions!Users, Login(c, user)
      PROVE  SessionInv'
  <2>1. now' = now
    BY <1>2, AllowCases DEF Login
  <2>2. CASE UNCHANGED sessions
    BY <1>0, <2>1, <2>2
  <2>3. CASE Sessions!Login(user)
    <3> DEFINE i == Sessions!Issue(user)
    <3>1. i \in Sessions!Cookies /\ i.issued = today /\ i.key = key /\ i # Sessions!NoCookie
      BY CookieTypes DEF Sessions!Issue, Sessions!Cookies, Sessions!NoCookie, SessionInv
    <3>2. Sessions!Respond("login", i)
      BY <2>3 DEF Sessions!Login
    <3> HIDE DEF i
    <3> QED BY <2>1, <3>1, <3>2, RespondStep
  <2> QED BY <1>2, <2>2, <2>3 DEF Login
<1>3. CASE Use
  <2>1. now' = now
    BY <1>3 DEF Use, limiter
  <2>2. CASE Sessions!Visit
    <3> DEFINE i == Sessions!Issue(Sessions!UserOf(cookie))
    <3>1. cookie # Sessions!NoCookie /\ cookie.key = key
      BY <2>2 DEF Sessions!Visit, Sessions!Accepted
    <3>2. /\ session # "none" /\ Sessions!UserOf(cookie) = session
          /\ Sessions!UserOf(cookie) \in Sessions!Users
      BY <3>1, CookieTypes DEF SessionInv, CookieInv
    <3>3. /\ i \in Sessions!Cookies /\ i.issued = today /\ i.key = key
          /\ i # Sessions!NoCookie /\ i.user = session
      BY <3>2, CookieTypes DEF Sessions!Issue, Sessions!Cookies, Sessions!NoCookie, SessionInv
    <3>4. Sessions!Respond("visit", i)
      BY <2>2 DEF Sessions!Visit
    <3> HIDE DEF i
    <3> QED BY <2>1, <3>2, <3>3, <3>4, RespondStep
  <2>3. CASE Sessions!Logout
    <3>1. Sessions!NoCookie \in Sessions!Cookies
      BY DEF Sessions!Cookies
    <3>2. Sessions!Respond("logout", Sessions!NoCookie)
      BY <2>3 DEF Sessions!Logout
    <3> QED BY <2>1, <3>1, <3>2, RespondStep
  <2> QED BY <1>3, <2>2, <2>3 DEF Use
<1>4. CASE Deliver
  BY <1>4, DeliverStep DEF Deliver, limiter
<1>5. CASE Wait
  BY <1>5, WaitStep
<1>6. CASE RestartServer
  BY <1>0, <1>6 DEF RestartServer, Restart
<1>7. CASE ChangeKey
  BY <1>7, RotateStep DEF ChangeKey, Restart
<1>8. CASE UNCHANGED guardVars
  BY <1>0, <1>8 DEF guardVars, limiter
<1> QED BY <1>1, <1>2, <1>3, <1>4, <1>5, <1>6, <1>7, <1>8 DEF GuardNext

LEMMA SessionInvariant ==
  ASSUME MaxInFlight = 1
  PROVE  GuardSpec => []SessionInv
<1>1. SessionInv /\ [GuardNext]_guardVars => SessionInv'
  BY SessionStep
<1> QED BY <1>1, SessionStart, PTL DEF GuardSpec

\* Who logged in stays logged in by that name for as long as he comes back within
\* MaxAge days, and no longer, in a browser that has one request out at a time.
THEOREM LastsCorrect ==
  ASSUME MaxInFlight = 1
  PROVE  GuardSpec => []SessionLastsWhileUsed
<1>1. SessionInv => SessionLastsWhileUsed
  <2> SUFFICES ASSUME SessionInv, session # "none", ~(cookie.key < key)
               PROVE  /\ Sessions!UserOf(cookie) = session
                      /\ Sessions!Accepted(cookie) <=> today - lastUse <= MaxAge
    BY DEF SessionLastsWhileUsed, Sessions!SessionLastsWhileUsed
  <2>1. cookie.key = key
    BY CookieTypes DEF SessionInv, CookieInv
  <2> QED BY <2>1 DEF SessionInv, CookieInv, Sessions!Accepted
<1> QED BY <1>1, SessionInvariant, PTL

=============================================================================
