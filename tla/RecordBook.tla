----------------------------- MODULE RecordBook -----------------------------
(***************************************************************************)
(* What Life Ledger promises its two users, with no windows, requests or   *)
(* rowids in sight: a book whose records are known by the order they were  *)
(* entered in (createdAt), never by a number somebody else may get later.  *)
(*                                                                         *)
(*   - a record is entered once, amended, and struck;                      *)
(*   - amending changes its date and amount and nothing else: it stays in  *)
(*     its tab, with its payer, a settlement stays one and a payback keeps *)
(*     its parent;                                                         *)
(*   - striking an expense strikes its paybacks, and nothing else does;    *)
(*   - a forgiveness is of at most what Carla owes when it is entered.     *)
(***************************************************************************)
EXTENDS Entry, Balance, Tables

VARIABLES
  expenses, incomes, forgivenesses,   \* createdAt -> record
  entered                             \* how many records of a table ever were

book == <<expenses, incomes, forgivenesses, entered>>

PaybacksOf(id) == {i \in DOMAIN incomes : incomes[i].linked = id}

Init ==
  /\ expenses = NoRows /\ incomes = NoRows /\ forgivenesses = NoRows
  /\ entered = [expense |-> 0, income |-> 0, forgiveness |-> 0]

\* An ordinary expense is Javi's; so is a settlement, which is not shared.
LegalExpense(e) ==
  /\ e.shared => ~e.settlement
  /\ e.paidBy = "carla" => e.shared

EnterExpense ==
  LET n == entered.expense + 1 IN
  \E date \in Dates, amount \in Amounts, payer \in Users,
     shared \in BOOLEAN, settlement \in BOOLEAN :
    LET e == [createdAt |-> n, date |-> date, amount |-> amount,
              shared |-> shared, paidBy |-> payer, settlement |-> settlement] IN
    /\ LegalExpense(e)
    /\ expenses' = Put(expenses, n, e)
    /\ entered' = [entered EXCEPT !.expense = n]
    /\ UNCHANGED <<incomes, forgivenesses>>

\* A payback nets down an expense of the book and is no settlement.
EnterIncome ==
  LET n == entered.income + 1 IN
  \E date \in Dates, amount \in Amounts,
     parent \in DOMAIN expenses \cup {NoLink}, settlement \in BOOLEAN :
    /\ settlement => parent = NoLink
    /\ incomes' = Put(incomes, n,
         [createdAt |-> n, date |-> date, amount |-> amount,
          linked |-> parent, settlement |-> settlement])
    /\ entered' = [entered EXCEPT !.income = n]
    /\ UNCHANGED <<expenses, forgivenesses>>

Amended(table, n, date, amount) ==
  [table EXCEPT ![n].date = date, ![n].amount = amount]

AmendExpense ==
  /\ \E n \in DOMAIN expenses, date \in Dates, amount \in Amounts :
       expenses' = Amended(expenses, n, date, amount)
  /\ UNCHANGED <<incomes, forgivenesses, entered>>

AmendIncome ==
  /\ \E n \in DOMAIN incomes, date \in Dates, amount \in Amounts :
       incomes' = Amended(incomes, n, date, amount)
  /\ UNCHANGED <<expenses, forgivenesses, entered>>

StrikeExpense ==
  /\ \E n \in DOMAIN expenses :
       /\ expenses' = Drop(expenses, {n})
       /\ incomes' = Drop(incomes, PaybacksOf(n))
  /\ UNCHANGED <<forgivenesses, entered>>

StrikeIncome ==
  /\ \E n \in DOMAIN incomes : incomes' = Drop(incomes, {n})
  /\ UNCHANGED <<expenses, forgivenesses, entered>>

Forgive ==
  LET n == entered.forgiveness + 1 IN
  /\ \E amount \in 1..OwedByCarla(expenses, incomes, forgivenesses) :
       forgivenesses' = Put(forgivenesses, n, [createdAt |-> n, amount |-> amount])
  /\ entered' = [entered EXCEPT !.forgiveness = n]
  /\ UNCHANGED <<expenses, incomes>>

UndoForgiveness ==
  /\ \E n \in DOMAIN forgivenesses : forgivenesses' = Drop(forgivenesses, {n})
  /\ UNCHANGED <<expenses, incomes, entered>>

Next ==
  \/ EnterExpense \/ EnterIncome
  \/ AmendExpense \/ AmendIncome
  \/ StrikeExpense \/ StrikeIncome
  \/ Forgive \/ UndoForgiveness

Spec == Init /\ [][Next]_book

=============================================================================
