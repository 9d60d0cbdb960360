------------------------------- MODULE Entry -------------------------------
(***************************************************************************)
(* What a typed line may become: the Intents of internal/expense and the   *)
(* kind rules Submit applies on top of the parser.                         *)
(*                                                                         *)
(* A line is abstracted to what these rules tell apart: the sigil glued to *)
(* its amount, the amount, and the day its date token resolves to.         *)
(* Description and account are left out.                                   *)
(***************************************************************************)
EXTENDS Integers

CONSTANTS
  Amounts,        \* the amounts a typed line may carry, in cents
  Dates           \* the days a record may be dated

Users == {"javi", "carla"}

\* What a positive INTEGER amount column holds: every row's CHECK (amount > 0).
PositiveCents == Nat \ {0}

ASSUME EntryAssumption == Amounts \subseteq PositiveCents

\* SQL NULL in a link column; a stored id is positive.
NoLink == 0
Ids == Nat \ {0}

\* A line that fails Parse's own save gates (no amount, no description, two
\* dates, two accounts) is any line with amount Malformed.
Malformed == 0
Sigils == {"plain", "plus", "equals"}
Lines == [sigil : Sigils, amount : Amounts \cup {Malformed}, date : Dates]

\* inSharedTab: which of the two tabs an expense is listed in.
InSharedTab(e) == e.shared \/ e.settlement

-----------------------------------------------------------------------------
(* The Intents.  A payer left empty in the code reads as Javi.              *)

PlainAdd(user, inSharedTab) ==
  [kind |-> "add", linked |-> NoLink, shared |-> inSharedTab,
   settlement |-> FALSE, payer |-> IF inSharedTab THEN user ELSE "javi"]

AddPayback(id, parent) ==
  [kind |-> "addPayback", linked |-> id, shared |-> parent.shared,
   settlement |-> FALSE, payer |-> "javi"]

\* Bug: the edit forgets who paid.
EditExpenseForgetsPayer(e) ==
  [kind |-> "editExpense", linked |-> NoLink, shared |-> InSharedTab(e),
   settlement |-> e.settlement, payer |-> "javi"]

EditExpense(e) ==
  [kind |-> "editExpense", linked |-> NoLink, shared |-> InSharedTab(e),
   settlement |-> e.settlement, payer |-> e.paidBy]

\* EditIncome followed by WithSharedTab: the tab is the one loadIncome found.
EditIncome(i, inSharedTab) ==
  [kind |-> "editIncome", linked |-> i.linked, shared |-> inSharedTab,
   settlement |-> i.settlement,
   payer |-> IF i.settlement THEN "carla" ELSE "javi"]

-----------------------------------------------------------------------------
(* Submit.                                                                  *)

MustBeIncome(in) == in.kind \in {"addPayback", "editIncome"}

\* Bug: a line without an amount is saved.
RefusedOnlyByKind(in, line) ==
  \/ in.kind = "add" /\ ~in.shared /\ line.sigil = "equals"
  \/ in.kind = "add" /\ in.shared /\ line.sigil = "plus"
  \/ in.settlement /\ line.sigil # "equals"
  \/ MustBeIncome(in) /\ ~in.settlement /\ line.sigil # "plus"
  \/ in.kind = "editExpense" /\ ~in.settlement /\ line.sigil # "plain"

\* Bug: the rules on an add only; an edit's line is taken as it comes.
RefusedOnlyWhenAdding(in, line) ==
  \/ line.amount = Malformed
  \/ in.kind = "add" /\ ~in.shared /\ line.sigil = "equals"
  \/ in.kind = "add" /\ in.shared /\ line.sigil = "plus"
  \/ in.kind = "addPayback" /\ line.sigil # "plus"

\* The save gates of Parse and the kind rules of Submit: one disjunct a case.
Refused(in, line) ==
  \/ line.amount = Malformed
  \/ in.kind = "add" /\ ~in.shared /\ line.sigil = "equals"
  \/ in.kind = "add" /\ in.shared /\ line.sigil = "plus"
  \/ in.settlement /\ line.sigil # "equals"
  \/ MustBeIncome(in) /\ ~in.settlement /\ line.sigil # "plus"
  \/ in.kind = "editExpense" /\ ~in.settlement /\ line.sigil # "plain"

\* The table the record goes to: a settlement of Carla's is an income.
Table(in, line) ==
  IF line.sigil = "plus" \/ (line.sigil = "equals" /\ in.payer = "carla")
  THEN "income" ELSE "expense"

\* NewExpense and NewIncome leave createdAt to the store.
Unstamped == 0

\* Bug: a settlement of the Shared tab is shared, and halved.
ExpenseOfSharedSettlement(in, line) ==
  [createdAt |-> Unstamped, date |-> line.date, amount |-> line.amount,
   shared |-> in.shared,
   paidBy |-> IF line.sigil = "equals" THEN "javi" ELSE in.payer,
   settlement |-> line.sigil = "equals"]

ExpenseOf(in, line) ==
  [createdAt |-> Unstamped, date |-> line.date, amount |-> line.amount,
   shared |-> line.sigil = "plain" /\ in.shared,
   paidBy |-> IF line.sigil = "equals" THEN "javi" ELSE in.payer,
   settlement |-> line.sigil = "equals"]

IncomeOf(in, line) ==
  [createdAt |-> Unstamped, date |-> line.date, amount |-> line.amount,
   linked |-> IF line.sigil = "plus" THEN in.linked ELSE NoLink,
   settlement |-> line.sigil = "equals"]

=============================================================================
