----------------------------- MODULE LoginBudget -----------------------------
(***************************************************************************)
(* What the login limit promises (ADR-0004: about five attempts a minute   *)
(* per client, then a cooldown, never a lockout).  A client's first        *)
(* attempt opens a window; the window lapses by itself, with time.         *)
(***************************************************************************)
EXTENDS Integers

CONSTANTS Clients, MaxAttempts, Window

VARIABLES
  now,
  spent,     \* client with an open window -> attempts made in it
  until,     \* client with an open window -> its last instant
  answer     \* what the last attempt was told

Init ==
  /\ now = 0 /\ answer = "none"
  /\ spent = [c \in {} |-> 0] /\ until = [c \in {} |-> 0]

Open == DOMAIN spent

Permit(c) ==
  /\ answer' = "permitted"
  /\ \/ /\ c \notin Open
        /\ spent' = [d \in Open \cup {c} |-> IF d = c THEN 1 ELSE spent[d]]
        /\ until' = [d \in Open \cup {c} |-> IF d = c THEN now + Window ELSE until[d]]
     \/ /\ c \in Open /\ spent[c] < MaxAttempts
        /\ spent' = [spent EXCEPT ![c] = @ + 1]
        /\ UNCHANGED until
  /\ UNCHANGED now

Refuse(c) ==
  /\ c \in Open /\ spent[c] = MaxAttempts
  /\ answer' = "refused"
  /\ UNCHANGED <<now, spent, until>>

Lapse ==
  /\ now' = now + 1
  /\ LET open == {c \in Open : now' <= until[c]} IN
     /\ spent' = [c \in open |-> spent[c]]
     /\ until' = [c \in open |-> until[c]]
  /\ UNCHANGED answer

\* The server is restarted, and every budget is whole again.
Forget ==
  /\ spent' = [c \in {} |-> 0] /\ until' = [c \in {} |-> 0]
  /\ UNCHANGED <<now, answer>>

Next == Lapse \/ Forget \/ \E c \in Clients : Permit(c) \/ Refuse(c)

Spec == Init /\ [][Next]_<<now, spent, until, answer>>

=============================================================================
