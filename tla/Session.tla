------------------------------- MODULE Session -------------------------------
(***************************************************************************)
(* The signed session cookie (internal/auth/session.go, guard.go) and the  *)
(* browser that keeps it.  Nothing is stored on the server: what a request *)
(* is told depends on the cookie it carries, and what the browser keeps is *)
(* the last Set-Cookie that reached it.  A response may be overtaken.      *)
(***************************************************************************)
EXTENDS Integers, FiniteSets

CONSTANTS
  MaxAge,       \* sessionMaxAge, in days
  MaxDay,       \* bound: the last day
  MaxKey,       \* bound: the signing secrets in turn
  MaxInFlight   \* bound: responses on their way to the browser at once

Users == {"javi", "carla"}
NoCookie == [user |-> "none", issued |-> 0, key |-> 0]

\* A cookie issued before there were two users.
LegacyCookie == [user |-> "1", issued |-> 0, key |-> 1]

VARIABLES
  today,
  key,        \* the signing secret in force
  cookie,     \* what the browser holds
  inFlight,   \* responses: what each answers, and the cookie it sets
  session,    \* history: who the browser is logged in as, as its user saw it
  lastUse     \* history: the day of the last accepted request

vars == <<today, key, cookie, inFlight, session, lastUse>>

Cookies ==
  [user : Users, issued : 0..MaxDay, key : 1..MaxKey] \cup {NoCookie}

TypeOK ==
  /\ today \in 0..MaxDay /\ lastUse \in 0..MaxDay
  /\ key \in 1..MaxKey
  /\ cookie \in Cookies \cup {LegacyCookie}
  /\ inFlight \subseteq [answers : {"login", "visit", "logout"}, cookie : Cookies]
  /\ session \in Users \cup {"none"}

Init ==
  /\ today = 0 /\ key = 1
  /\ \/ cookie = NoCookie /\ session = "none"
     \/ cookie = LegacyCookie /\ session = "javi"
  /\ inFlight = {} /\ lastUse = 0

-----------------------------------------------------------------------------
Issue(user) == [user |-> user, issued |-> today, key |-> key]

\* Sessions.User: signed with this secret and no older than sessionMaxAge.
Accepted(c) == c # NoCookie /\ c.key = key /\ today - c.issued <= MaxAge

UserOf(c) == IF c = NoCookie \/ c.user \in Users THEN c.user ELSE "javi"

Respond(answers, c) ==
  /\ Cardinality(inFlight) < MaxInFlight
  /\ inFlight' = inFlight \cup {[answers |-> answers, cookie |-> c]}
  /\ UNCHANGED <<today, key, cookie, session, lastUse>>

\* POST /login with the password of one of the two users.  The form is shown
\* only to a visitor without a session; posting it is not checked.
Login(user) == Respond("login", Issue(user))

\* Bug: the cookie is issued at login only.
VisitWithoutSliding == Accepted(cookie) /\ Respond("visit", cookie)

\* Any guarded page: the cookie is issued again.  Without a session the request
\* is sent to the login page and sets nothing.
Visit == Accepted(cookie) /\ Respond("visit", Issue(UserOf(cookie)))

\* POST /logout passes the middleware first: its cookie comes before the one
\* that clears it, and the last one stands.
Logout == Accepted(cookie) /\ Respond("logout", NoCookie)

\* A response reaches the browser, in any order.
Deliver(r) ==
  /\ inFlight' = inFlight \ {r}
  /\ cookie' = r.cookie
  /\ session' = CASE r.answers = "login" -> r.cookie.user
                  [] r.answers = "visit" -> session
                  [] r.answers = "logout" -> "none"
  /\ lastUse' = today
  /\ UNCHANGED <<today, key>>

\* Requests take less than a day.
NextDay ==
  /\ today < MaxDay /\ inFlight = {}
  /\ today' = today + 1
  /\ UNCHANGED <<key, cookie, inFlight, session, lastUse>>

\* The secret is rotated and the server restarted: everyone is logged out.
RotateSecret ==
  /\ key < MaxKey
  /\ key' = key + 1
  /\ session' = "none"
  /\ UNCHANGED <<today, cookie, inFlight, lastUse>>

Next ==
  \/ \E user \in Users : Login(user)
  \/ Visit
  \/ Logout
  \/ \E r \in inFlight : Deliver(r)
  \/ NextDay
  \/ RotateSecret

Spec == Init /\ [][Next]_vars

-----------------------------------------------------------------------------
\* Who has logged in is known by that name, on every request until he logs out
\* or stays away for longer than MaxAge, and on none after that ("active use
\* never expires"; a logout ends the session).  Rotating the secret ends it too,
\* for a response already on its way as well.
SessionLastsWhileUsed ==
  session # "none" =>
    \/ cookie.key < key
    \/ UserOf(cookie) = session /\ (Accepted(cookie) <=> today - lastUse <= MaxAge)

\* A browser that was told it is logged out sends no session (guard.go: Logout
\* "clears the session cookie, ending the session").  Run LateSlide refutes it:
\* the response to a page asked for before the logout may come after it, and the
\* middleware has put a fresh cookie on that one too.
LogoutEndsSession == session = "none" => ~Accepted(cookie)

=============================================================================
