-------------------------- MODULE LedgerProperties --------------------------
(***************************************************************************)
(* What makes the ledger correct.  The first properties hold however       *)
(* requests interleave; the others, which say so, until a rowid is given a  *)
(* second time or with a single window.                                    *)
(***************************************************************************)
EXTENDS Ledger

\* A payback's parent exists in every state, whatever is deleted between the
\* moment its box was opened and the INSERT (migration 00002: REFERENCES
\* expense(id) ON DELETE CASCADE, foreign_keys=ON).
ReferentialIntegrity ==
  \A i \in DOMAIN incomes : incomes[i].linked \in DOMAIN expenses \cup {NoLink}

IsLegal(e) ==
  /\ e.shared => ~e.settlement
  /\ e.paidBy = "carla" => e.shared

\* Carla pays only for Shared expenses, and a settlement is neither shared (it
\* would be halved) nor hers (hers are incomes), through every add, edit and
\* overwrite of one record by the edit of another (ADR-0015).
ExpenseKinds == \A id \in DOMAIN expenses : IsLegal(expenses[id])

\* The record an edit submits goes back to the table it was loaded from: the
\* kind rules of Submit never let an edit cross tables, where its id would name
\* another record (ADR-0009: an edit keeps the record's kind).
EditKeepsKind ==
  \A w \in Windows :
    /\ At(w, "updateExpense") => windows[w].kind = "expense"
    /\ At(w, "updateIncome") => windows[w].kind = "income"

\* For as long as a payback lives its parent is one and the same expense: no
\* edit re-parents it, and its parent's id cannot pass to a new expense.
PaybackKeepsParent ==
  [][\A i \in DOMAIN incomes \cap DOMAIN incomes' :
       /\ incomes'[i].createdAt = incomes[i].createdAt
       /\ incomes[i].linked # NoLink
       => /\ incomes'[i].linked = incomes[i].linked
          /\ incomes[i].linked \in DOMAIN expenses'
          /\ expenses'[incomes[i].linked].createdAt
               = expenses[incomes[i].linked].createdAt]_vars

-----------------------------------------------------------------------------
Holds(table, id, createdAt) ==
  id \in DOMAIN table => table[id].createdAt = createdAt

\* A write reaches the record its author was looking at or none: the parent the
\* payback box names, the record the edit box was opened on, the record whose
\* delete was checked against Carla's scope.
WritesWhatWasSeen ==
  \A w \in Windows :
    LET s == windows[w] IN
    /\ At(w, "insertIncome") /\ s.row.linked # NoLink
         => Holds(expenses, s.row.linked, s.seen)
    /\ s.at \in {"updateExpense", "deleteExpense"} => Holds(expenses, s.id, s.seen)
    /\ s.at \in {"updateIncome", "deleteIncome"} => Holds(incomes, s.id, s.seen)

\* WritesWhatWasSeen until a rowid is given again.
WritesWhatWasSeenUnlessRecycled == recycled \/ WritesWhatWasSeen

\* A payback box whose expense is gone becomes no payback: not of another
\* expense that has its id by now either (server.go: "A payback whose parent no
\* longer exists is a 409 back under the plain add Intent, with a note").
GoneParentIsRefused ==
  [][\A w \in Windows :
       LET box == windows[w]
           saved == windows'[w] IN
       At(w, "box") /\ saved.at = "insertIncome" /\ saved.row.linked # NoLink
       => /\ box.id \in DOMAIN expenses
          /\ expenses[box.id].createdAt = box.seen]_vars

\* What Carla is about to change is in the Shared tab at that moment, not only
\* when it was loaded (server.go: "she can't delete what she can't see").
CarlaStaysInSharedTab ==
  \A w \in Windows :
    LET s == windows[w] IN
    /\ s.at \in {"updateExpense", "deleteExpense"} /\ s.user = "carla"
         /\ s.id \in DOMAIN expenses
       => InSharedTab(expenses[s.id])
    /\ s.at \in {"updateIncome", "deleteIncome"} /\ s.user = "carla"
         /\ s.id \in DOMAIN incomes
       => LET i == incomes[s.id] IN
          i.settlement \/ (i.linked # NoLink /\ expenses[i.linked].shared)

\* CarlaStaysInSharedTab until a rowid is given again.
CarlaStaysInSharedTabUnlessRecycled == recycled \/ CarlaStaysInSharedTab

\* An edit keeps a record's tab, payer and settlement flag (ADR-0015: "An edit
\* keeps the record's payer and kind").
EditKeepsPayerAndTab ==
  [][/\ \A id \in DOMAIN expenses \cap DOMAIN expenses' :
          expenses'[id].createdAt = expenses[id].createdAt
          => /\ expenses'[id].shared = expenses[id].shared
             /\ expenses'[id].paidBy = expenses[id].paidBy
             /\ expenses'[id].settlement = expenses[id].settlement
     /\ \A id \in DOMAIN incomes \cap DOMAIN incomes' :
          incomes'[id].createdAt = incomes[id].createdAt
          => incomes'[id].settlement = incomes[id].settlement]_vars

\* A record that has left the edit window is never edited, however long its box
\* was open, whatever day the submitted line names and though an income's parent
\* is read between the income and the check (ADR-0008; handleEditSave guards on
\* the stored date).  With one window: another's edit may age the record between.
OldRecordsAreFrozen ==
  [][\A w \in Windows :
       LET s == windows'[w] IN
       /\ windows[w].at # "updateExpense" /\ s.at = "updateExpense"
            => Editable(expenses[s.id].date)
       /\ windows[w].at # "updateIncome" /\ s.at = "updateIncome"
            => Editable(incomes[s.id].date)]_vars

-----------------------------------------------------------------------------
Owed == OwedByCarla(expenses, incomes, forgivenesses)

ForgivesOne == entered'.forgiveness = entered.forgiveness + 1

\* A forgiveness takes its amount off what Carla owes when it is recorded, and
\* is never more than that: forgiving the whole balance leaves exactly zero, odd
\* cents included (ADR-0016: "never above the balance at that moment";
\* balance.go: "forgiving the whole displayed balance must always leave it at
\* zero, even on an odd cent").
ForgivesAtMostTheBalance ==
  [][\A id \in DOMAIN forgivenesses' \ DOMAIN forgivenesses :
       LET amount == forgivenesses'[id].amount IN
       /\ amount <= Owed
       /\ Owed' = Owed - amount]_vars

Settles(before, after, owed) ==
  \E id \in DOMAIN after \ DOMAIN before :
    after[id].settlement /\ after[id].amount = owed

\* Settling the balance as shown, by whoever owes, leaves one cent at most, and
\* that only of an odd half cent (balance.go: Settlements move the unrounded
\* figure, Forgivenesses the rounded one).
SettlementLeavesAtMostACent ==
  [][\/ Settles(expenses, expenses', -Owed)
     \/ Settles(incomes, incomes', Owed)
     => /\ Owed' \in -1..1
        /\ OwedByJavi2(expenses, incomes) % 2 = 0 => Owed' = 0]_vars

\* The same to the last cent, odd half cents included.
SettlesTheBalance ==
  [][\/ Settles(expenses, expenses', -Owed)
     \/ Settles(incomes, incomes', Owed)
     => Owed' = 0]_vars

-----------------------------------------------------------------------------
(* The book behind the tables: each record under the ordinal it was created *)
(* with, a payback's link being its parent's.                               *)

RowCreated(table, n) ==
  table[CHOOSE id \in DOMAIN table : table[id].createdAt = n]

ByCreation(table) ==
  [n \in {table[id].createdAt : id \in DOMAIN table} |-> RowCreated(table, n)]

LinkedByCreation ==
  LET Parent(i) == IF i.linked = NoLink THEN NoLink ELSE expenses[i.linked].createdAt
  IN  [n \in {incomes[id].createdAt : id \in DOMAIN incomes} |->
         LET i == RowCreated(incomes, n) IN [i EXCEPT !.linked = Parent(i)]]

Book == INSTANCE RecordBook WITH
          expenses <- ByCreation(expenses),
          incomes <- LinkedByCreation,
          forgivenesses <- ByCreation(forgivenesses)

\* With one window at a time the tables are the book of module RecordBook:
\* every store call is a step of the book's or changes nothing in it.
BookSpec == Book!Spec

\* With any number of windows they still are, until a rowid is given again; the
\* forgivenesses, read in three lists and written in a fourth call, apart.
BookStep ==
  \/ recycled' \/ ForgivesOne
  \/ Book!Next \/ UNCHANGED Book!book

KeepsTheBook == [][BookStep]_vars

=============================================================================
