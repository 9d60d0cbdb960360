-------------------------------- MODULE Guard --------------------------------
(***************************************************************************)
(* The guard of internal/auth/guard.go as main.go configures it: a login   *)
(* goes through the limiter of LoginLimit before it may issue the session  *)
(* cookie of Session.  One clock serves both: a day of sessions is many    *)
(* windows long.  One browser is followed; other clients only try.         *)
(***************************************************************************)
EXTENDS LoginLimit

CONSTANTS
  DayLength,    \* instants in a day
  MaxAge,       \* sessionMaxAge, in days
  MaxKey,       \* bound: the signing secrets in turn
  MaxInFlight   \* bound: responses on their way to the browser at once

ASSUME GuardAssumption ==
  /\ DayLength \in Nat \ {0} /\ Window <= DayLength
  /\ MaxAge \in Nat /\ MaxKey \in Nat \ {0} /\ MaxInFlight \in Nat \ {0}

VARIABLES key, cookie, inFlight, session, lastUse

MaxDay == MaxTime \div DayLength
today == now \div DayLength

Sessions == INSTANCE Session

limiter == <<now, hits, answer>>
sessions == <<key, cookie, inFlight, session, lastUse>>
guardVars == <<limiter, sessions>>

SessionTypeOK == Sessions!TypeOK

GuardInit == Init /\ Sessions!Init

-----------------------------------------------------------------------------
\* POST /login with a password of the two: Allow, then identify, then Issue.
Login(c, user) ==
  /\ Allow(c)
  /\ IF answer' = "permitted" THEN Sessions!Login(user) ELSE UNCHANGED sessions

\* POST /login with any other password, from here or from anywhere.
Try(c) == Allow(c) /\ UNCHANGED sessions

\* The middleware looks at the cookie alone.
Use == UNCHANGED limiter /\ (Sessions!Visit \/ Sessions!Logout)

Deliver == UNCHANGED limiter /\ \E r \in inFlight : Sessions!Deliver(r)

\* Requests are answered before the day is over.
Wait ==
  /\ Tick
  /\ (now + 1) % DayLength = 0 => inFlight = {}
  /\ UNCHANGED sessions

\* Production demands a LIFELEDGER_SESSION_KEY that stays: a restart forgets the
\* attempts and nothing else.
RestartServer == Restart /\ UNCHANGED sessions

\* The key is changed, or none is set (local QA) and a new one is drawn.
ChangeKey == Restart /\ Sessions!RotateSecret

GuardNext ==
  \/ \E c \in Clients : Try(c) \/ \E user \in Sessions!Users : Login(c, user)
  \/ Use \/ Deliver \/ Wait \/ RestartServer \/ ChangeKey

GuardSpec == GuardInit /\ [][GuardNext]_guardVars

-----------------------------------------------------------------------------
\* Session's properties under the guard.
SessionLastsWhileUsed == Sessions!SessionLastsWhileUsed
LogoutEndsSession == Sessions!LogoutEndsSession

=============================================================================
