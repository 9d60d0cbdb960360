---------------------------- MODULE LedgerProofs ----------------------------
(***************************************************************************)
(* Proofs about Ledger, for any number of windows and any bounds, and the  *)
(* lemmas about the sums of Balance that the proofs about it need.         *)
(***************************************************************************)
EXTENDS LedgerProperties, FiniteSetTheorems, TLAPS

-----------------------------------------------------------------------------
(* Tables. *)

LEMMA PutKeepsTable ==
  ASSUME NEW table, NEW rows, IsTable(table, rows), NEW id \in Ids, NEW row \in rows
  PROVE  IsTable(Put(table, id, row), rows)
  BY DEF IsTable, Put

LEMMA DropKeepsTable ==
  ASSUME NEW table, NEW rows, IsTable(table, rows), NEW ids
  PROVE  IsTable(Drop(table, ids), rows)
  BY DEF IsTable, Drop

LEMMA OverwriteKeepsTable ==
  ASSUME NEW table, NEW rows, IsTable(table, rows),
         NEW id \in DOMAIN table, NEW row \in rows
  PROVE  IsTable([table EXCEPT ![id] = row], rows)
  BY DEF IsTable

LEMMA EmptyTable ==
  ASSUME NEW rows
  PROVE  IsTable(NoRows, rows)
  BY DEF IsTable, NoRows

-----------------------------------------------------------------------------
(* Windows: the field at says which records a window's state is one of. *)

LEMMA WindowKinds ==
  ASSUME NEW s, WindowOK(s)
  PROVE  /\ s.at = "box" => s \in Boxes
         /\ s.at \in {"openParent", "deleteParent", "saveParent"} => s \in ParentLookups
         /\ s.at \in {"insertExpense", "insertIncome"} => s \in Inserts
         /\ s.at \in {"updateExpense", "updateIncome"} => s \in Updates
         /\ s.at \in {"deleteExpense", "deleteIncome"} => s \in Deletes
         /\ s.at = "insertForgiveness" => s \in Forgives
         /\ s.at \in {"listIncomes", "listForgivenesses"} => IsForgiving(s)
  BY DEF WindowOK, Idle, Boxes, ParentLookups, Inserts, Updates, Deletes,
         Forgives, IsForgiving

WindowsOK ==
  /\ DOMAIN windows = Windows
  /\ \A w \in Windows : WindowOK(windows[w])

LEMMA GoesKeepsWindows ==
  ASSUME WindowsOK, NEW w \in Windows, NEW s, WindowOK(s), Goes(w, s)
  PROVE  WindowsOK'
  BY DEF WindowsOK, Goes

LEMMA IdleOK == WindowOK(Idle)
  BY DEF WindowOK


-----------------------------------------------------------------------------
(* Intents and what Submit makes of a line. *)

Intents ==
  [kind : {"add", "addPayback", "editExpense", "editIncome"}, linked : Nat,
   shared : BOOLEAN, settlement : BOOLEAN, payer : Users]

LEMMA IntentsOfRows ==
  ASSUME NEW id \in Ids, NEW e \in ExpenseRows, NEW i \in IncomeRows,
         NEW user \in Users, NEW tab \in BOOLEAN
  PROVE  /\ PlainAdd(user, tab) \in Intents
         /\ AddPayback(id, e) \in Intents
         /\ EditExpense(e) \in Intents
         /\ EditIncome(i, tab) \in Intents
  BY DEF Intents, Ids, ExpenseRows, IncomeRows, Users, NoLink, InSharedTab,
         PlainAdd, AddPayback, EditExpense, EditIncome

\* The records Submit builds are rows of their tables.
LEMMA SubmittedRows ==
  ASSUME NEW in \in Intents, NEW line \in Lines, ~Refused(in, line)
  PROVE  /\ ExpenseOf(in, line) \in ExpenseRows
         /\ IncomeOf(in, line) \in IncomeRows
  BY DEF Intents, Lines, Refused, ExpenseOf, IncomeOf, ExpenseRows, IncomeRows,
         Unstamped, NoLink, Users, Sigils, Malformed

LEMMA AddingOK ==
  ASSUME NEW in \in Intents, NEW line \in Lines, ~Refused(in, line), NEW seen \in Nat
  PROVE  WindowOK(Adding(in, line, seen))
  BY SubmittedRows DEF WindowOK, Adding, Inserts

LEMMA UpdatingOK ==
  ASSUME NEW in \in Intents, NEW line \in Lines, ~Refused(in, line), NEW seen \in Nat,
         NEW user \in Users, NEW kind \in {"expense", "income"}, NEW id \in Ids
  PROVE  WindowOK(Updating(user, kind, id, in, line, seen))
  BY SubmittedRows DEF WindowOK, Updating, Updates

LEMMA BoxOK ==
  ASSUME NEW user \in Users, NEW kind \in {"payback", "expense", "income"},
         NEW id \in Ids, NEW seen \in Nat
  PROVE  WindowOK(Box(user, kind, id, seen))
  BY DEF WindowOK, Box, Boxes

\* The outcome of a save, whatever it is.
LEMMA SavingOK ==
  ASSUME WindowsOK, NEW w \in Windows, NEW user \in Users,
         NEW kind \in {"expense", "income"}, NEW id \in Ids, NEW seen \in Nat,
         NEW in \in Intents, NEW line \in Lines, NEW loaded, loaded.createdAt \in Nat,
         Saving(w, user, kind, id, seen, in, line, loaded)
  PROVE  WindowsOK'
<1>1. CASE ~Editable(loaded.date)
  BY <1>1, IdleOK, GoesKeepsWindows DEF Saving
<1>2. CASE Editable(loaded.date) /\ Refused(in, line)
  BY <1>2, BoxOK, GoesKeepsWindows DEF Saving
<1>3. CASE Editable(loaded.date) /\ ~Refused(in, line)
  BY <1>3, UpdatingOK, GoesKeepsWindows DEF Saving
<1> QED BY <1>1, <1>2, <1>3

LEMMA DeletingOK ==
  ASSUME NEW at \in {"deleteExpense", "deleteIncome"}, NEW user \in Users,
         NEW id \in Ids, NEW row, row.createdAt \in Nat
  PROVE  WindowOK(Deleting(at, user, id, row))
  BY DEF WindowOK, Deleting, Deletes

-----------------------------------------------------------------------------
(* Type correctness, one action at a time. *)

TablesOK ==
  /\ IsTable(expenses, ExpenseRows)
  /\ IsTable(incomes, IncomeRows)
  /\ IsTable(forgivenesses, ForgivenessRows)
  /\ entered \in [expense : Nat, income : Nat, forgiveness : Nat]
  /\ recycled \in BOOLEAN

LEMMA UnchangedTables ==
  ASSUME TablesOK, UNCHANGED tables
  PROVE  TablesOK'
  BY DEF TablesOK, tables

LEMMA RowTypes ==
  ASSUME TablesOK
  PROVE  /\ \A id \in DOMAIN expenses :
              id \in Ids /\ expenses[id] \in ExpenseRows /\ expenses[id].createdAt \in Nat
         /\ \A id \in DOMAIN incomes :
              id \in Ids /\ incomes[id] \in IncomeRows /\ incomes[id].createdAt \in Nat
  BY DEF TablesOK, IsTable, ExpenseRows, IncomeRows

LEMMA AddKeepsTypes ==
  ASSUME TablesOK, WindowsOK, NEW w \in Windows, Add(w)
  PROVE  TablesOK' /\ WindowsOK'
<1> WindowOK(windows[w])
  BY DEF WindowsOK
<1>1. CASE StartPayback(w)
  <2>1. PICK user \in Users, id \in DOMAIN expenses :
          Goes(w, Box(user, "payback", id, expenses[id].createdAt))
    BY <1>1 DEF StartPayback
  <2>2. WindowOK(Box(user, "payback", id, expenses[id].createdAt))
    BY BoxOK, RowTypes
  <2> QED BY <1>1, <2>1, <2>2, GoesKeepsWindows, UnchangedTables DEF StartPayback
<1>2. CASE AddPlain(w)
  <2>1. PICK user \in Users, tab \in BOOLEAN, line \in Lines :
          LET in == PlainAdd(user, tab \/ user = "carla") IN
          Goes(w, IF Refused(in, line) THEN Idle ELSE Adding(in, line, NoLink))
    BY <1>2 DEF AddPlain
  <2> DEFINE in == PlainAdd(user, tab \/ user = "carla")
  <2>2. in \in Intents
    BY DEF PlainAdd, Intents, Users, NoLink
  <2>3. ~Refused(in, line) => WindowOK(Adding(in, line, NoLink))
    BY <2>2, AddingOK DEF NoLink
  <2>4. WindowsOK'
    <3>1. CASE Refused(in, line)
      BY <2>1, <3>1, IdleOK, GoesKeepsWindows
    <3>2. CASE ~Refused(in, line)
      BY <2>1, <2>3, <3>2, GoesKeepsWindows
    <3> QED BY <3>1, <3>2
  <2> QED BY <1>2, <2>4, UnchangedTables DEF AddPlain
<1>3. CASE AddFromBox(w)
  <2> DEFINE box == windows[w]
             parent == expenses[box.id]
             in == AddPayback(box.id, parent)
  <2>1. box \in Boxes
    BY <1>3, WindowKinds DEF AddFromBox, At
  <2>2. WindowsOK'
    <3>1. CASE ~Loads(box.user, box.id)
      BY <1>3, <3>1, IdleOK, GoesKeepsWindows DEF AddFromBox
    <3>2. CASE Loads(box.user, box.id)
      <4>1. PICK line \in Lines :
              Goes(w, IF Refused(in, line) THEN [box EXCEPT !.seen = parent.createdAt]
                      ELSE Adding(in, line, box.seen))
        BY <1>3, <3>2 DEF AddFromBox
      <4>2. parent \in ExpenseRows /\ parent.createdAt \in Nat /\ box.id \in Ids
        BY <2>1, <3>2, RowTypes DEF Loads
      <4>3. in \in Intents
        BY <4>2 DEF AddPayback, Intents, ExpenseRows, Ids, Users
      <4>4. CASE Refused(in, line)
        <5>1. WindowOK([box EXCEPT !.seen = parent.createdAt])
          BY <2>1, <4>2 DEF WindowOK, Boxes
        <5> QED BY <4>1, <4>4, <5>1, GoesKeepsWindows
      <4>5. CASE ~Refused(in, line)
        <5>1. WindowOK(Adding(in, line, box.seen))
          BY <2>1, <4>3, <4>5, AddingOK DEF Boxes
        <5> QED BY <4>1, <4>5, <5>1, GoesKeepsWindows
      <4> QED BY <4>4, <4>5
    <3> QED BY <3>1, <3>2
  <2> QED BY <1>3, <2>2, UnchangedTables DEF AddFromBox
<1>4. CASE InsertExpense(w)
  <2> DEFINE n == entered.expense + 1
             row == [windows[w].row EXCEPT !.createdAt = n]
  <2>1. n \in Nat /\ row \in ExpenseRows
    BY <1>4, WindowKinds DEF InsertExpense, At, Inserts, ExpenseRows, TablesOK
  <2>2. PICK id \in 1..n :
          expenses' = Put(expenses, id, row) /\ recycled' = (recycled \/ id # n)
    BY <1>4 DEF InsertExpense
  <2>3. IsTable(expenses', ExpenseRows)
    BY <2>1, <2>2, PutKeepsTable DEF TablesOK, Ids
  <2>4. TablesOK'
    BY <1>4, <2>1, <2>2, <2>3 DEF InsertExpense, TablesOK
  <2> QED BY <1>4, <2>4, IdleOK, GoesKeepsWindows DEF InsertExpense
<1>5. CASE InsertIncome(w)
  <2> DEFINE n == entered.income + 1
             row == windows[w].row
  <2>1. n \in Nat /\ [row EXCEPT !.createdAt = n] \in IncomeRows
    BY <1>5, WindowKinds DEF InsertIncome, At, Inserts, IncomeRows, TablesOK
  <2>2. TablesOK'
    <3>1. CASE ParentExists(row)
      <4>1. PICK id \in 1..n :
              /\ incomes' = Put(incomes, id, [row EXCEPT !.createdAt = n])
              /\ recycled' = (recycled \/ id # n)
        BY <1>5, <3>1 DEF InsertIncome
      <4>2. IsTable(incomes', IncomeRows)
        BY <2>1, <4>1, PutKeepsTable DEF TablesOK, Ids
      <4> QED BY <1>5, <2>1, <3>1, <4>1, <4>2 DEF InsertIncome, TablesOK
    <3>2. CASE ~ParentExists(row)
      BY <1>5, <3>2 DEF InsertIncome, TablesOK
    <3> QED BY <3>1, <3>2
  <2> QED BY <1>5, <2>2, IdleOK, GoesKeepsWindows DEF InsertIncome
<1> QED BY <1>1, <1>2, <1>3, <1>4, <1>5 DEF Add

LEMMA EditKeepsTypes ==
  ASSUME TablesOK, WindowsOK, NEW w \in Windows, Edit(w)
  PROVE  TablesOK' /\ WindowsOK'
<1> WindowOK(windows[w])
  BY DEF WindowsOK
<1>1. CASE OpenExpense(w)
  <2>1. PICK user \in Users, id \in DOMAIN expenses :
          Goes(w, Box(user, "expense", id, expenses[id].createdAt))
    BY <1>1 DEF OpenExpense
  <2>2. WindowOK(Box(user, "expense", id, expenses[id].createdAt))
    BY BoxOK, RowTypes
  <2> QED BY <1>1, <2>1, <2>2, GoesKeepsWindows, UnchangedTables DEF OpenExpense
<1>2. CASE OpenIncome(w)
  <2>1. PICK user \in Users, id \in DOMAIN incomes :
          \/ Goes(w, [at |-> "openParent", user |-> user, id |-> id, income |-> incomes[id]])
          \/ Goes(w, Box(user, "income", id, incomes[id].createdAt))
    BY <1>2 DEF OpenIncome
  <2>2. WindowOK(Box(user, "income", id, incomes[id].createdAt))
    BY BoxOK, RowTypes
  <2>3. WindowOK([at |-> "openParent", user |-> user, id |-> id, income |-> incomes[id]])
    BY RowTypes DEF WindowOK, ParentLookups
  <2> QED BY <1>2, <2>1, <2>2, <2>3, GoesKeepsWindows, UnchangedTables DEF OpenIncome
<1>3. CASE OpenParent(w)
  <2> DEFINE s == windows[w]
  <2>1. s \in ParentLookups
    BY <1>3, WindowKinds DEF OpenParent, At
  <2>2. WindowOK(Box(s.user, "income", s.id, s.income.createdAt))
    BY <2>1, BoxOK DEF ParentLookups, IncomeRows
  <2> QED BY <1>3, <2>2, IdleOK, GoesKeepsWindows, UnchangedTables DEF OpenParent
<1>4. CASE SaveExpense(w)
  <2> DEFINE box == windows[w]
             e == expenses[box.id]
  <2>1. box \in Boxes
    BY <1>4, WindowKinds DEF SaveExpense, At
  <2>2. WindowsOK'
    <3>1. CASE ~Loads(box.user, box.id)
      BY <1>4, <3>1, IdleOK, GoesKeepsWindows DEF SaveExpense
    <3>2. CASE Loads(box.user, box.id)
      <4>1. PICK line \in Lines :
              Saving(w, box.user, "expense", box.id, box.seen, EditExpense(e), line, e)
        BY <1>4, <3>2 DEF SaveExpense
      <4>2. e \in ExpenseRows /\ e.createdAt \in Nat
        BY <3>2, RowTypes DEF Loads
      <4>3. EditExpense(e) \in Intents
        BY <4>2 DEF EditExpense, Intents, ExpenseRows, InSharedTab, NoLink
      <4> QED BY <2>1, <4>1, <4>2, <4>3, SavingOK DEF Boxes
    <3> QED BY <3>1, <3>2
  <2> QED BY <1>4, <2>2, UnchangedTables DEF SaveExpense
<1>5. CASE SaveIncome(w)
  <2> DEFINE box == windows[w]
             i == incomes[box.id]
  <2>1. box \in Boxes
    BY <1>5, WindowKinds DEF SaveIncome, At
  <2>2. WindowsOK'
    <3>1. CASE Goes(w, Idle)
      BY <3>1, IdleOK, GoesKeepsWindows
    <3>2. ASSUME box.id \in DOMAIN incomes
          PROVE  i \in IncomeRows /\ i.createdAt \in Nat
      BY <3>2, RowTypes
    <3>3. ASSUME box.id \in DOMAIN incomes, NEW line \in Lines,
                 Goes(w, [at |-> "saveParent", user |-> box.user, id |-> box.id,
                          income |-> i, seen |-> box.seen, line |-> line])
          PROVE  WindowsOK'
      <4>1. WindowOK([at |-> "saveParent", user |-> box.user, id |-> box.id,
                      income |-> i, seen |-> box.seen, line |-> line])
        BY <2>1, <3>2, <3>3 DEF WindowOK, ParentLookups, Boxes
      <4> QED BY <3>3, <4>1, GoesKeepsWindows
    <3>4. ASSUME box.id \in DOMAIN incomes, NEW line \in Lines,
                 Saving(w, box.user, "income", box.id, box.seen,
                        EditIncome(i, i.settlement), line, i)
          PROVE  WindowsOK'
      <4>1. EditIncome(i, i.settlement) \in Intents
        BY <3>2, <3>4 DEF EditIncome, Intents, IncomeRows, Users
      <4> QED BY <2>1, <3>2, <3>4, <4>1, SavingOK DEF Boxes
    <3> QED BY <1>5, <3>1, <3>3, <3>4 DEF SaveIncome
  <2> QED BY <1>5, <2>2, UnchangedTables DEF SaveIncome
<1>6. CASE SaveParent(w)
  <2> DEFINE s == windows[w]
             in == EditIncome(s.income, expenses[s.income.linked].shared)
  <2>1. s \in ParentLookups /\ s.at = "saveParent"
    BY <1>6, WindowKinds DEF SaveParent, At
  <2>2. WindowsOK'
    <3>1. CASE ~ParentVisible(s)
      BY <1>6, <3>1, IdleOK, GoesKeepsWindows DEF SaveParent
    <3>2. CASE ParentVisible(s)
      <4>1. Saving(w, s.user, "income", s.id, s.seen, in, s.line, s.income)
        BY <1>6, <3>2 DEF SaveParent
      <4>2. expenses[s.income.linked].shared \in BOOLEAN
        BY <3>2, RowTypes DEF ParentVisible, ExpenseRows
      <4>3. in \in Intents
        BY <2>1, <4>2 DEF EditIncome, Intents, ParentLookups, IncomeRows, Users
      <4>4. /\ s.user \in Users /\ s.id \in Ids /\ s.seen \in Nat
            /\ s.line \in Lines /\ s.income.createdAt \in Nat
        BY <2>1 DEF ParentLookups, IncomeRows
      <4> QED BY <4>1, <4>3, <4>4, SavingOK
    <3> QED BY <3>1, <3>2
  <2> QED BY <1>6, <2>2, UnchangedTables DEF SaveParent
<1>7. CASE UpdateExpense(w)
  <2> DEFINE s == windows[w]
  <2>1. s \in Updates /\ s.at = "updateExpense"
    BY <1>7, WindowKinds DEF UpdateExpense, At
  <2>2. IsTable(expenses', ExpenseRows)
    <3>1. CASE s.id \in DOMAIN expenses
      <4> DEFINE row == [s.row EXCEPT !.createdAt = expenses[s.id].createdAt]
      <4>1. row \in ExpenseRows
        BY <2>1, <3>1, RowTypes DEF Updates, ExpenseRows
      <4>2. expenses' = [expenses EXCEPT ![s.id] = row]
        BY <1>7, <3>1 DEF UpdateExpense
      <4> QED BY <3>1, <4>1, <4>2, OverwriteKeepsTable DEF TablesOK
    <3>2. CASE s.id \notin DOMAIN expenses
      BY <1>7, <3>2 DEF UpdateExpense, TablesOK
    <3> QED BY <3>1, <3>2
  <2> QED BY <1>7, <2>2, IdleOK, GoesKeepsWindows DEF UpdateExpense, TablesOK
<1>8. CASE UpdateIncome(w)
  <2> DEFINE s == windows[w]
  <2>1. s \in Updates /\ s.at = "updateIncome"
    BY <1>8, WindowKinds DEF UpdateIncome, At
  <2>2. IsTable(incomes', IncomeRows)
    <3>1. CASE s.id \in DOMAIN incomes
      <4> DEFINE row == [s.row EXCEPT !.createdAt = incomes[s.id].createdAt,
                                      !.linked = incomes[s.id].linked]
      <4>1. row \in IncomeRows
        BY <2>1, <3>1, RowTypes DEF Updates, IncomeRows
      <4>2. incomes' = [incomes EXCEPT ![s.id] = row]
        BY <1>8, <3>1 DEF UpdateIncome
      <4> QED BY <3>1, <4>1, <4>2, OverwriteKeepsTable DEF TablesOK
    <3>2. CASE s.id \notin DOMAIN incomes
      BY <1>8, <3>2 DEF UpdateIncome, TablesOK
    <3> QED BY <3>1, <3>2
  <2> QED BY <1>8, <2>2, IdleOK, GoesKeepsWindows DEF UpdateIncome, TablesOK
<1> QED BY <1>1, <1>2, <1>3, <1>4, <1>5, <1>6, <1>7, <1>8 DEF Edit

LEMMA DeleteKeepsTypes ==
  ASSUME TablesOK, WindowsOK, NEW w \in Windows, Delete(w)
  PROVE  TablesOK' /\ WindowsOK'
<1> WindowOK(windows[w])
  BY DEF WindowsOK
<1>1. CASE RequestDeleteExpense(w)
  <2>1. PICK user \in Users, id \in DOMAIN expenses :
          Goes(w, Deleting("deleteExpense", user, id, expenses[id]))
    BY <1>1 DEF RequestDeleteExpense
  <2>2. WindowOK(Deleting("deleteExpense", user, id, expenses[id]))
    BY DeletingOK, RowTypes
  <2> QED BY <1>1, <2>1, <2>2, GoesKeepsWindows, UnchangedTables DEF RequestDeleteExpense
<1>2. CASE RequestDeleteIncome(w)
  <2>1. PICK user \in Users, id \in DOMAIN incomes :
          \/ Goes(w, [at |-> "deleteParent", user |-> user, id |-> id, income |-> incomes[id]])
          \/ Goes(w, Deleting("deleteIncome", user, id, incomes[id]))
    BY <1>2 DEF RequestDeleteIncome
  <2>2. WindowOK(Deleting("deleteIncome", user, id, incomes[id]))
    BY DeletingOK, RowTypes
  <2>3. WindowOK([at |-> "deleteParent", user |-> user, id |-> id, income |-> incomes[id]])
    BY RowTypes DEF WindowOK, ParentLookups
  <2> QED BY <1>2, <2>1, <2>2, <2>3, GoesKeepsWindows, UnchangedTables DEF RequestDeleteIncome
<1>3. CASE DeleteParent(w)
  <2> DEFINE s == windows[w]
  <2>1. s \in ParentLookups
    BY <1>3, WindowKinds DEF DeleteParent, At
  <2>2. WindowOK(Deleting("deleteIncome", s.user, s.id, s.income))
    BY <2>1, DeletingOK DEF ParentLookups, IncomeRows
  <2> QED BY <1>3, <2>2, IdleOK, GoesKeepsWindows, UnchangedTables DEF DeleteParent
<1>4. CASE DeleteExpense(w)
  <2>1. IsTable(expenses', ExpenseRows) /\ IsTable(incomes', IncomeRows)
    BY <1>4, DropKeepsTable DEF DeleteExpense, TablesOK
  <2> QED BY <1>4, <2>1, IdleOK, GoesKeepsWindows DEF DeleteExpense, TablesOK
<1>5. CASE DeleteIncome(w)
  <2>1. IsTable(incomes', IncomeRows)
    BY <1>5, DropKeepsTable DEF DeleteIncome, TablesOK
  <2> QED BY <1>5, <2>1, IdleOK, GoesKeepsWindows DEF DeleteIncome, TablesOK
<1> QED BY <1>1, <1>2, <1>3, <1>4, <1>5 DEF Delete

LEMMA ForgiveKeepsTypes ==
  ASSUME TablesOK, WindowsOK, NEW w \in Windows, Forgive(w)
  PROVE  TablesOK' /\ WindowsOK'
<1> WindowOK(windows[w])
  BY DEF WindowsOK
<1>1. CASE ListExpenses(w)
  <2>1. WindowOK([at |-> "listIncomes", expenses |-> expenses])
    BY DEF WindowOK, IsForgiving, TablesOK
  <2> QED BY <1>1, <2>1, GoesKeepsWindows, UnchangedTables DEF ListExpenses
<1>2. CASE ListIncomes(w)
  <2>1. IsTable(windows[w].expenses, ExpenseRows)
    BY <1>2, WindowKinds DEF ListIncomes, At, IsForgiving
  <2>2. WindowOK([at |-> "listForgivenesses", expenses |-> windows[w].expenses,
                  incomes |-> incomes])
    BY <2>1 DEF WindowOK, IsForgiving, TablesOK
  <2> QED BY <1>2, <2>2, GoesKeepsWindows, UnchangedTables DEF ListIncomes
<1>3. CASE ListForgivenesses(w)
  <2>1. \/ Goes(w, Idle)
        \/ \E amount \in PositiveCents :
             Goes(w, [at |-> "insertForgiveness", amount |-> amount])
    BY <1>3 DEF ListForgivenesses, Forgivable
  <2>2. \A amount \in PositiveCents :
          WindowOK([at |-> "insertForgiveness", amount |-> amount])
    BY DEF WindowOK, Forgives
  <2> QED BY <1>3, <2>1, <2>2, IdleOK, GoesKeepsWindows, UnchangedTables
          DEF ListForgivenesses
<1>4. CASE InsertForgiveness(w)
  <2> DEFINE n == entered.forgiveness + 1
             row == [createdAt |-> n, amount |-> windows[w].amount]
  <2>1. n \in Nat /\ row \in ForgivenessRows
    BY <1>4, WindowKinds DEF InsertForgiveness, At, Forgives, ForgivenessRows, TablesOK
  <2>2. PICK id \in 1..n : forgivenesses' = Put(forgivenesses, id, row)
    BY <1>4 DEF InsertForgiveness
  <2>3. IsTable(forgivenesses', ForgivenessRows)
    <3>1. id \in Ids /\ IsTable(forgivenesses, ForgivenessRows)
      BY <2>1, <2>2 DEF TablesOK, Ids
    <3> HIDE DEF row
    <3> QED BY <2>1, <2>2, <3>1, PutKeepsTable
  <2> QED BY <1>4, <2>1, <2>3, IdleOK, GoesKeepsWindows DEF InsertForgiveness, TablesOK
<1>5. CASE DeleteForgiveness(w)
  <2>1. IsTable(forgivenesses', ForgivenessRows)
    BY <1>5, DropKeepsTable DEF DeleteForgiveness, TablesOK
  <2> QED BY <1>5, <2>1 DEF DeleteForgiveness, TablesOK, WindowsOK
<1> QED BY <1>1, <1>2, <1>3, <1>4, <1>5 DEF Forgive

\* Every reachable state is typed: rows keep the shape of their tables, and a
\* request's locals are those of the store call it is about to make.
THEOREM TypeCorrect == Spec => []TypeOK
<1>1. Init => TypeOK
  <2> SUFFICES ASSUME Init PROVE TypeOK
    OBVIOUS
  <2>1. /\ IsTable(expenses, ExpenseRows) /\ IsTable(incomes, IncomeRows)
        /\ IsTable(forgivenesses, ForgivenessRows)
    BY EmptyTable DEF Init
  <2>2. \A w \in Windows : WindowOK(windows[w])
    BY IdleOK DEF Init
  <2> QED BY <2>1, <2>2 DEF Init, TypeOK
<1>2. TypeOK /\ [Next]_vars => TypeOK'
  <2> SUFFICES ASSUME TablesOK, WindowsOK, editable \subseteq Dates, [Next]_vars
               PROVE  TablesOK' /\ WindowsOK' /\ (editable \subseteq Dates)'
    BY DEF TypeOK, TablesOK, WindowsOK
  <2>1. CASE UNCHANGED vars
    BY <2>1 DEF vars, TablesOK, WindowsOK
  <2>2. ASSUME NEW w \in Windows, Add(w)
        PROVE  TablesOK' /\ WindowsOK'
    BY <2>2, AddKeepsTypes
  <2>3. ASSUME NEW w \in Windows, Edit(w)
        PROVE  TablesOK' /\ WindowsOK'
    BY <2>3, EditKeepsTypes
  <2>4. ASSUME NEW w \in Windows, Delete(w)
        PROVE  TablesOK' /\ WindowsOK'
    BY <2>4, DeleteKeepsTypes
  <2>5. ASSUME NEW w \in Windows, Forgive(w)
        PROVE  TablesOK' /\ WindowsOK'
    BY <2>5, ForgiveKeepsTypes
  <2>6. ASSUME NEW w \in Windows, Abandon(w)
        PROVE  TablesOK' /\ WindowsOK'
    BY <2>6, IdleOK, GoesKeepsWindows, UnchangedTables DEF Abandon
  <2>7. CASE DaysPass
    BY <2>7, UnchangedTables DEF DaysPass, WindowsOK
  <2>8. editable' \subseteq Dates
    BY DEF Next, DaysPass, vars
  <2> QED BY <2>1, <2>2, <2>3, <2>4, <2>5, <2>6, <2>7, <2>8 DEF Next
<1> QED BY <1>1, <1>2, PTL DEF Spec

-----------------------------------------------------------------------------
(* The steps that touch the records; every other one leaves them alone. *)

RecordStep(w) ==
  \/ InsertExpense(w) \/ InsertIncome(w)
  \/ UpdateExpense(w) \/ UpdateIncome(w)
  \/ DeleteExpense(w) \/ DeleteIncome(w)

LEMMA RecordSteps ==
  ASSUME [Next]_vars
  PROVE  \/ UNCHANGED <<expenses, incomes>>
         \/ \E w \in Windows : RecordStep(w)
<1>1. CASE UNCHANGED vars
  BY <1>1 DEF vars
<1>2. ASSUME NEW w \in Windows, Add(w)
      PROVE  UNCHANGED <<expenses, incomes>> \/ RecordStep(w)
  BY <1>2 DEF Add, StartPayback, AddPlain, AddFromBox, RecordStep, tables
<1>3. ASSUME NEW w \in Windows, Edit(w)
      PROVE  UNCHANGED <<expenses, incomes>> \/ RecordStep(w)
  BY <1>3 DEF Edit, OpenExpense, OpenIncome, OpenParent, SaveExpense, SaveIncome,
              SaveParent, RecordStep, tables
<1>4. ASSUME NEW w \in Windows, Delete(w)
      PROVE  UNCHANGED <<expenses, incomes>> \/ RecordStep(w)
  BY <1>4 DEF Delete, RequestDeleteExpense, RequestDeleteIncome, DeleteParent,
              RecordStep, tables
<1>5. ASSUME NEW w \in Windows, Forgive(w) \/ Abandon(w)
      PROVE  UNCHANGED <<expenses, incomes>>
  BY <1>5 DEF Forgive, ListExpenses, ListIncomes, ListForgivenesses,
              InsertForgiveness, DeleteForgiveness, Abandon, tables
<1>6. CASE DaysPass
  BY <1>6 DEF DaysPass, tables
<1> QED BY <1>1, <1>2, <1>3, <1>4, <1>5, <1>6 DEF Next

\* What InsertIncome does to the table.
LEMMA InsertIncomeCases ==
  ASSUME NEW w \in Windows, InsertIncome(w)
  PROVE  \/ incomes' = incomes
         \/ /\ windows[w].row.linked \in DOMAIN expenses \cup {NoLink}
            /\ \E id \in 1..(entered.income + 1) :
                 /\ IsNextRowid(incomes, id)
                 /\ incomes' = Put(incomes, id,
                      [windows[w].row EXCEPT !.createdAt = entered.income + 1])
  BY DEF InsertIncome, ParentExists

LEMMA IntegrityStep ==
  ASSUME TypeOK, ReferentialIntegrity, [Next]_vars
  PROVE  ReferentialIntegrity'
<1>1. CASE UNCHANGED <<expenses, incomes>>
  BY <1>1 DEF ReferentialIntegrity
<1>2. ASSUME NEW w \in Windows, InsertExpense(w)
      PROVE  ReferentialIntegrity'
  BY <1>2 DEF InsertExpense, Put, ReferentialIntegrity
<1>3. ASSUME NEW w \in Windows, InsertIncome(w)
      PROVE  ReferentialIntegrity'
  <2>1. windows[w].row \in IncomeRows
    BY <1>3, WindowKinds DEF InsertIncome, At, TypeOK, Inserts
  <2> DEFINE row == [windows[w].row EXCEPT !.createdAt = entered.income + 1]
  <2>2. row.linked = windows[w].row.linked
    BY <2>1 DEF IncomeRows
  <2>3. expenses' = expenses
    BY <1>3 DEF InsertIncome
  <2>4. CASE incomes' = incomes
    BY <2>3, <2>4 DEF ReferentialIntegrity
  <2>5. ASSUME row.linked \in DOMAIN expenses \cup {NoLink}, NEW id,
               incomes' = Put(incomes, id, row)
        PROVE  ReferentialIntegrity'
    <3> HIDE DEF row
    <3> QED BY <2>3, <2>5 DEF Put, ReferentialIntegrity
  <2> QED BY <1>3, <2>2, <2>4, <2>5, InsertIncomeCases
<1>4. ASSUME NEW w \in Windows, UpdateExpense(w)
      PROVE  ReferentialIntegrity'
  BY <1>4 DEF UpdateExpense, ReferentialIntegrity
<1>5. ASSUME NEW w \in Windows, UpdateIncome(w)
      PROVE  ReferentialIntegrity'
  <2>1. windows[w] \in Updates /\ windows[w].row \in IncomeRows
    BY <1>5, WindowKinds DEF UpdateIncome, At, TypeOK, Updates
  <2>2. \A i \in DOMAIN incomes : incomes'[i].linked = incomes[i].linked
    BY <1>5, <2>1 DEF UpdateIncome, IncomeRows
  <2>3. DOMAIN incomes' = DOMAIN incomes /\ expenses' = expenses
    BY <1>5 DEF UpdateIncome
  <2> QED BY <2>2, <2>3 DEF ReferentialIntegrity
<1>6. ASSUME NEW w \in Windows, DeleteExpense(w)
      PROVE  ReferentialIntegrity'
  BY <1>6 DEF DeleteExpense, PaybacksOf, Drop, ReferentialIntegrity
<1>7. ASSUME NEW w \in Windows, DeleteIncome(w)
      PROVE  ReferentialIntegrity'
  BY <1>7 DEF DeleteIncome, Drop, ReferentialIntegrity
<1> QED BY <1>1, <1>2, <1>3, <1>4, <1>5, <1>6, <1>7, RecordSteps DEF RecordStep

\* No payback ever outlives its parent or refers to one that is not there,
\* however adds, edits and deletes interleave.
THEOREM IntegrityCorrect == Spec => []ReferentialIntegrity
<1>1. Init => ReferentialIntegrity
  BY DEF Init, NoRows, ReferentialIntegrity
<1>2. TypeOK /\ ReferentialIntegrity /\ [Next]_vars => ReferentialIntegrity'
  BY IntegrityStep
<1> QED BY <1>1, <1>2, TypeCorrect, PTL DEF Spec

-----------------------------------------------------------------------------
(* Kinds.  ExpenseKinds alone is not inductive: what is stored was once     *)
(* pending, and an edit's pending row depends on the row it was loaded from. *)

IsPendingKind(s) ==
  /\ s.at \in {"insertExpense", "updateExpense"} => IsLegal(s.row)
  /\ s.at = "updateExpense" => s.kind = "expense"
  /\ s.at = "updateIncome" => s.kind = "income"

PendingKinds == \A w \in Windows : IsPendingKind(windows[w])

KindsInv == ExpenseKinds /\ PendingKinds

LEMMA SubmittedKinds ==
  ASSUME NEW in \in Intents, NEW line \in Lines, in.payer = "carla" => in.shared,
         Table(in, line) = "expense"
  PROVE  IsLegal(ExpenseOf(in, line))
  BY DEF Intents, Lines, Sigils, Table, ExpenseOf, IsLegal

LEMMA EditedExpense ==
  ASSUME NEW e \in ExpenseRows, IsLegal(e), NEW line \in Lines,
         ~Refused(EditExpense(e), line)
  PROVE  Table(EditExpense(e), line) = "expense" /\ IsLegal(ExpenseOf(EditExpense(e), line))
  BY DEF ExpenseRows, Users, Lines, Sigils, IsLegal, InSharedTab, EditExpense,
         Refused, MustBeIncome, Table, ExpenseOf

LEMMA EditedIncome ==
  ASSUME NEW i \in IncomeRows, NEW tab, NEW line \in Lines, ~Refused(EditIncome(i, tab), line)
  PROVE  Table(EditIncome(i, tab), line) = "income"
  BY DEF IncomeRows, Lines, Sigils, EditIncome, Refused, MustBeIncome, Table

\* A window's step that leaves the records alone and puts nothing illegal in
\* line keeps PendingKinds.
LEMMA GoesKeepsKinds ==
  ASSUME TypeOK, PendingKinds, NEW w \in Windows, NEW s, Goes(w, s), IsPendingKind(s)
  PROVE  PendingKinds'
  BY DEF TypeOK, PendingKinds, IsPendingKind, Goes

\* A window goes to a state with no record of its own to insert or update.
LEMMA HarmlessKeepsKinds ==
  ASSUME TypeOK, PendingKinds, NEW w \in Windows, NEW s, Goes(w, s),
         s.at \notin {"insertExpense", "updateExpense", "updateIncome"}
  PROVE  PendingKinds'
  BY GoesKeepsKinds DEF IsPendingKind

LEMMA BoxIsHarmless ==
  ASSUME TypeOK, PendingKinds, NEW w \in Windows,
         NEW user, NEW kind, NEW id, NEW seen, Goes(w, Box(user, kind, id, seen))
  PROVE  PendingKinds'
  BY HarmlessKeepsKinds DEF Box

LEMMA IdleIsHarmless ==
  ASSUME TypeOK, PendingKinds, NEW w \in Windows, Goes(w, Idle)
  PROVE  PendingKinds'
  BY HarmlessKeepsKinds DEF Idle

LEMMA LookupIsHarmless ==
  ASSUME TypeOK, PendingKinds, NEW w \in Windows, NEW at \in {"openParent", "deleteParent"},
         NEW user, NEW id, NEW i,
         Goes(w, [at |-> at, user |-> user, id |-> id, income |-> i])
  PROVE  PendingKinds'
  BY HarmlessKeepsKinds

LEMMA DeletingIsHarmless ==
  ASSUME TypeOK, PendingKinds, NEW w \in Windows, NEW at \in {"deleteExpense", "deleteIncome"},
         NEW user, NEW id, NEW row, Goes(w, Deleting(at, user, id, row))
  PROVE  PendingKinds'
  BY HarmlessKeepsKinds DEF Deleting

LEMMA SavingKeepsKinds ==
  ASSUME TypeOK, PendingKinds, NEW w \in Windows, NEW user, NEW kind, NEW id, NEW seen,
         NEW in, NEW line, NEW loaded,
         Saving(w, user, kind, id, seen, in, line, loaded),
         ~Refused(in, line) => /\ Table(in, line) = kind
                               /\ kind = "expense" => IsLegal(ExpenseOf(in, line)),
         kind \in {"expense", "income"}
  PROVE  PendingKinds'
<1>1. IsPendingKind(Idle) /\ IsPendingKind(Box(user, kind, id, loaded.createdAt))
  BY DEF IsPendingKind, Idle, Box
<1>2. ~Refused(in, line) => IsPendingKind(Updating(user, kind, id, in, line, seen))
  BY DEF IsPendingKind, Updating
<1> QED BY <1>1, <1>2, GoesKeepsKinds DEF Saving

LEMMA AddKeepsPendingKinds ==
  ASSUME TypeOK, KindsInv, NEW w \in Windows, Add(w)
  PROVE  PendingKinds'
<1> USE DEF KindsInv
<1>1. IsPendingKind(Idle)
  BY DEF IsPendingKind, Idle
<1>2. CASE StartPayback(w)
  BY <1>2, GoesKeepsKinds DEF StartPayback, Box, IsPendingKind
<1>3. CASE AddPlain(w)
  <2>1. PICK user \in Users, tab \in BOOLEAN, line \in Lines :
          LET in == PlainAdd(user, tab \/ user = "carla") IN
          Goes(w, IF Refused(in, line) THEN Idle ELSE Adding(in, line, NoLink))
    BY <1>3 DEF AddPlain
  <2> DEFINE in == PlainAdd(user, tab \/ user = "carla")
  <2>2. in \in Intents /\ (in.payer = "carla" => in.shared)
    BY DEF PlainAdd, Intents, Users, NoLink
  <2>3. IsPendingKind(Adding(in, line, NoLink))
    <3> HIDE DEF in
    <3> QED BY <2>2, SubmittedKinds DEF Adding, IsPendingKind, Table
  <2> QED BY <1>1, <2>1, <2>3, GoesKeepsKinds
<1>4. CASE AddFromBox(w)
  <2> DEFINE box == windows[w]
  <2>1. box \in Boxes
    BY <1>4, WindowKinds DEF AddFromBox, At, TypeOK
  <2>2. CASE Goes(w, Idle)
    BY <1>1, <2>2, GoesKeepsKinds
  <2>3. ASSUME NEW line \in Lines, NEW in, in = AddPayback(box.id, expenses[box.id]),
               Goes(w, IF Refused(in, line)
                       THEN [box EXCEPT !.seen = expenses[box.id].createdAt]
                       ELSE Adding(in, line, box.seen))
        PROVE  PendingKinds'
    <3>1. IsPendingKind([box EXCEPT !.seen = expenses[box.id].createdAt])
      BY <2>1 DEF Boxes, IsPendingKind
    <3>2. ~Refused(in, line) => Table(in, line) = "income"
      BY <2>3 DEF AddPayback, Refused, MustBeIncome, Table
    <3>3. ~Refused(in, line) => IsPendingKind(Adding(in, line, box.seen))
      BY <3>2 DEF Adding, IsPendingKind
    <3> QED BY <2>3, <3>1, <3>3, GoesKeepsKinds
  <2> QED BY <1>4, <2>2, <2>3 DEF AddFromBox
<1>5. CASE InsertExpense(w) \/ InsertIncome(w)
  BY <1>1, <1>5, GoesKeepsKinds DEF InsertExpense, InsertIncome
<1> QED BY <1>2, <1>3, <1>4, <1>5 DEF Add

LEMMA EditKeepsPendingKinds ==
  ASSUME TypeOK, KindsInv, NEW w \in Windows, Edit(w)
  PROVE  PendingKinds'
<1> USE DEF KindsInv
<1>1. IsPendingKind(Idle)
  BY DEF IsPendingKind, Idle
<1>2. CASE OpenExpense(w) \/ OpenIncome(w) \/ OpenParent(w)
  <2>1. CASE OpenExpense(w)
    BY <2>1, BoxIsHarmless DEF OpenExpense
  <2>2. CASE OpenIncome(w)
    BY <2>2, BoxIsHarmless, LookupIsHarmless DEF OpenIncome
  <2>3. CASE OpenParent(w)
    BY <2>3, BoxIsHarmless, IdleIsHarmless DEF OpenParent
  <2> QED BY <1>2, <2>1, <2>2, <2>3
<1>3. CASE SaveExpense(w)
  <2> DEFINE box == windows[w]
             e == expenses[box.id]
  <2>1. CASE Goes(w, Idle)
    BY <1>1, <2>1, GoesKeepsKinds
  <2>2. ASSUME Loads(box.user, box.id), NEW line \in Lines,
               Saving(w, box.user, "expense", box.id, box.seen, EditExpense(e), line, e)
        PROVE  PendingKinds'
    <3>1. e \in ExpenseRows /\ IsLegal(e)
      BY <2>2 DEF Loads, TypeOK, IsTable, ExpenseKinds
    <3>2. ~Refused(EditExpense(e), line) =>
            /\ Table(EditExpense(e), line) = "expense"
            /\ IsLegal(ExpenseOf(EditExpense(e), line))
      BY <3>1, EditedExpense
    <3> QED BY <2>2, <3>2, SavingKeepsKinds
  <2> QED BY <1>3, <2>1, <2>2 DEF SaveExpense
<1>4. CASE SaveIncome(w)
  <2> DEFINE box == windows[w]
             i == incomes[box.id]
  <2>1. CASE Goes(w, Idle)
    BY <1>1, <2>1, GoesKeepsKinds
  <2>2. ASSUME NEW line \in Lines,
               Goes(w, [at |-> "saveParent", user |-> box.user, id |-> box.id,
                        income |-> i, seen |-> box.seen, line |-> line])
        PROVE  PendingKinds'
    <3> DEFINE s == [at |-> "saveParent", user |-> box.user, id |-> box.id,
                     income |-> i, seen |-> box.seen, line |-> line]
    <3>1. s.at = "saveParent" /\ Goes(w, s)
      BY <2>2
    <3> HIDE DEF s
    <3> QED BY <3>1, HarmlessKeepsKinds
  <2>3. ASSUME box.id \in DOMAIN incomes, NEW line \in Lines,
               Saving(w, box.user, "income", box.id, box.seen,
                      EditIncome(i, i.settlement), line, i)
        PROVE  PendingKinds'
    <3>1. i \in IncomeRows
      BY <2>3 DEF TypeOK, IsTable
    <3>2. ~Refused(EditIncome(i, i.settlement), line) =>
            Table(EditIncome(i, i.settlement), line) = "income"
      BY <3>1, EditedIncome
    <3> QED BY <2>3, <3>2, SavingKeepsKinds
  <2> QED BY <1>4, <2>1, <2>2, <2>3 DEF SaveIncome
<1>5. CASE SaveParent(w)
  <2> DEFINE s == windows[w]
             in == EditIncome(s.income, expenses[s.income.linked].shared)
  <2>1. s \in ParentLookups /\ s.at = "saveParent"
    BY <1>5, WindowKinds DEF SaveParent, At, TypeOK
  <2>2. CASE Goes(w, Idle)
    BY <1>1, <2>2, GoesKeepsKinds
  <2>3. CASE Saving(w, s.user, "income", s.id, s.seen, in, s.line, s.income)
    <3>1. ~Refused(in, s.line) => Table(in, s.line) = "income"
      BY <2>1, EditedIncome DEF ParentLookups
    <3> HIDE DEF in
    <3> QED BY <2>3, <3>1, SavingKeepsKinds
  <2> QED BY <1>5, <2>2, <2>3 DEF SaveParent
<1>6. CASE UpdateExpense(w) \/ UpdateIncome(w)
  BY <1>1, <1>6, GoesKeepsKinds DEF UpdateExpense, UpdateIncome
<1> QED BY <1>2, <1>3, <1>4, <1>5, <1>6 DEF Edit

LEMMA DeleteKeepsPendingKinds ==
  ASSUME TypeOK, KindsInv, NEW w \in Windows, Delete(w)
  PROVE  PendingKinds'
<1> USE DEF KindsInv
<1>1. CASE RequestDeleteExpense(w)
  BY <1>1, DeletingIsHarmless DEF RequestDeleteExpense
<1>2. CASE RequestDeleteIncome(w)
  BY <1>2, DeletingIsHarmless, LookupIsHarmless DEF RequestDeleteIncome
<1>3. CASE DeleteParent(w)
  BY <1>3, DeletingIsHarmless, IdleIsHarmless DEF DeleteParent
<1>4. CASE DeleteExpense(w) \/ DeleteIncome(w)
  BY <1>4, IdleIsHarmless DEF DeleteExpense, DeleteIncome
<1> QED BY <1>1, <1>2, <1>3, <1>4 DEF Delete

LEMMA ForgiveKeepsPendingKinds ==
  ASSUME TypeOK, KindsInv, NEW w \in Windows, Forgive(w) \/ Abandon(w)
  PROVE  PendingKinds'
<1>1. CASE DeleteForgiveness(w)
  BY <1>1 DEF DeleteForgiveness, KindsInv, PendingKinds, IsPendingKind
<1>2. CASE ListExpenses(w)
  <2>1. Goes(w, [at |-> "listIncomes", expenses |-> expenses])
    BY <1>2 DEF ListExpenses
  <2> QED BY <2>1, HarmlessKeepsKinds DEF KindsInv
<1>3. CASE ListIncomes(w)
  <2>1. Goes(w, [at |-> "listForgivenesses", expenses |-> windows[w].expenses,
                 incomes |-> incomes])
    BY <1>3 DEF ListIncomes
  <2> QED BY <2>1, HarmlessKeepsKinds DEF KindsInv
<1>4. CASE ListForgivenesses(w)
  <2>1. CASE Goes(w, Idle)
    BY <2>1, IdleIsHarmless DEF KindsInv
  <2>2. ASSUME NEW amount, Goes(w, [at |-> "insertForgiveness", amount |-> amount])
        PROVE  PendingKinds'
    BY <2>2, HarmlessKeepsKinds DEF KindsInv
  <2> QED BY <1>4, <2>1, <2>2 DEF ListForgivenesses
<1>5. CASE InsertForgiveness(w) \/ Abandon(w)
  BY <1>5, IdleIsHarmless DEF InsertForgiveness, Abandon, KindsInv
<1> QED BY <1>1, <1>2, <1>3, <1>4, <1>5 DEF Forgive

LEMMA ExpenseKindsStep ==
  ASSUME TypeOK, KindsInv, [Next]_vars
  PROVE  ExpenseKinds'
<1>1. CASE UNCHANGED expenses
  BY <1>1 DEF KindsInv, ExpenseKinds
<1>2. ASSUME NEW w \in Windows, InsertExpense(w)
      PROVE  ExpenseKinds'
  <2> DEFINE row == [windows[w].row EXCEPT !.createdAt = entered.expense + 1]
  <2>1. windows[w].row \in ExpenseRows /\ IsLegal(windows[w].row)
    BY <1>2, WindowKinds
    DEF InsertExpense, At, TypeOK, Inserts, KindsInv, PendingKinds, IsPendingKind
  <2>2. IsLegal(row)
    BY <2>1 DEF ExpenseRows, IsLegal
  <2>3. PICK id : expenses' = Put(expenses, id, row)
    BY <1>2 DEF InsertExpense
  <2> HIDE DEF row
  <2> QED BY <2>2, <2>3 DEF Put, KindsInv, ExpenseKinds
<1>3. ASSUME NEW w \in Windows, UpdateExpense(w)
      PROVE  ExpenseKinds'
  <2> DEFINE s == windows[w]
             row == [s.row EXCEPT !.createdAt = expenses[s.id].createdAt]
  <2>1. s.row \in ExpenseRows /\ IsLegal(s.row)
    BY <1>3, WindowKinds
    DEF UpdateExpense, At, TypeOK, Updates, KindsInv, PendingKinds, IsPendingKind
  <2>2. IsLegal(row)
    BY <2>1 DEF ExpenseRows, IsLegal
  <2>3. expenses' = expenses \/ expenses' = [expenses EXCEPT ![s.id] = row]
    BY <1>3 DEF UpdateExpense
  <2> HIDE DEF row
  <2> QED BY <2>2, <2>3 DEF KindsInv, ExpenseKinds
<1>4. ASSUME NEW w \in Windows, DeleteExpense(w)
      PROVE  ExpenseKinds'
  BY <1>4 DEF DeleteExpense, Drop, KindsInv, ExpenseKinds
<1>5. ASSUME NEW w \in Windows, InsertIncome(w) \/ UpdateIncome(w) \/ DeleteIncome(w)
      PROVE  UNCHANGED expenses
  BY <1>5 DEF InsertIncome, UpdateIncome, DeleteIncome
<1> QED BY <1>1, <1>2, <1>3, <1>4, <1>5, RecordSteps DEF RecordStep

LEMMA KindsStep ==
  ASSUME TypeOK, KindsInv, [Next]_vars
  PROVE  KindsInv'
<1>1. CASE UNCHANGED vars
  BY <1>1 DEF vars, KindsInv, ExpenseKinds, PendingKinds, IsPendingKind
<1>2. CASE Next
  <2>1. ASSUME DaysPass PROVE PendingKinds'
    BY <2>1 DEF DaysPass, KindsInv, PendingKinds, IsPendingKind
  <2>2. PendingKinds'
    BY <1>2, <2>1, AddKeepsPendingKinds, EditKeepsPendingKinds, DeleteKeepsPendingKinds,
       ForgiveKeepsPendingKinds DEF Next
  <2> QED BY <2>2, ExpenseKindsStep DEF KindsInv
<1> QED BY <1>1, <1>2

LEMMA KindsInvariant == Spec => []KindsInv
<1>1. Init => KindsInv
  BY DEF Init, NoRows, KindsInv, ExpenseKinds, PendingKinds, IsPendingKind, Idle
<1>2. TypeOK /\ KindsInv /\ [Next]_vars => KindsInv'
  BY KindsStep
<1> QED BY <1>1, <1>2, TypeCorrect, PTL DEF Spec

\* Carla pays only for Shared expenses and no settlement is shared, through
\* any interleaving, recycled rowids included.
THEOREM KindsCorrect == Spec => []ExpenseKinds
<1>1. KindsInv => ExpenseKinds
  BY DEF KindsInv
<1> QED BY <1>1, KindsInvariant, PTL

\* An edit's line is always written to the table its record was loaded from.
THEOREM EditKeepsKindCorrect == Spec => []EditKeepsKind
<1>1. KindsInv => EditKeepsKind
  BY DEF KindsInv, PendingKinds, IsPendingKind, EditKeepsKind, At
<1> QED BY <1>1, KindsInvariant, PTL

-----------------------------------------------------------------------------
(* A payback's parent. *)

LEMMA NextRowidIsNew ==
  ASSUME NEW table, NEW rows, IsTable(table, rows), NEW id, IsNextRowid(table, id)
  PROVE  id \notin DOMAIN table
  BY DEF IsTable, IsNextRowid, Ids

ParentKept ==
  \A i \in DOMAIN incomes \cap DOMAIN incomes' :
    /\ incomes'[i].createdAt = incomes[i].createdAt
    /\ incomes[i].linked # NoLink
    => /\ incomes'[i].linked = incomes[i].linked
       /\ incomes[i].linked \in DOMAIN expenses'
       /\ expenses'[incomes[i].linked].createdAt = expenses[incomes[i].linked].createdAt

LEMMA ParentStep ==
  ASSUME TypeOK, ReferentialIntegrity, [Next]_vars
  PROVE  ParentKept
<1>1. CASE UNCHANGED <<expenses, incomes>>
  BY <1>1 DEF ParentKept, ReferentialIntegrity
<1>2. ASSUME NEW w \in Windows, InsertExpense(w)
      PROVE  ParentKept
  <2>1. PICK id, row : IsNextRowid(expenses, id) /\ expenses' = Put(expenses, id, row)
    BY <1>2 DEF InsertExpense
  <2>2. id \notin DOMAIN expenses
    BY <2>1, NextRowidIsNew DEF TypeOK
  <2>3. incomes' = incomes
    BY <1>2 DEF InsertExpense
  <2> QED BY <2>1, <2>2, <2>3 DEF Put, ParentKept, ReferentialIntegrity
<1>3. ASSUME NEW w \in Windows, InsertIncome(w)
      PROVE  ParentKept
  <2>1. expenses' = expenses
    BY <1>3 DEF InsertIncome
  <2>2. CASE incomes' = incomes
    BY <2>1, <2>2 DEF ParentKept, ReferentialIntegrity
  <2>3. ASSUME NEW id, NEW row, IsNextRowid(incomes, id), incomes' = Put(incomes, id, row)
        PROVE  ParentKept
    <3>1. id \notin DOMAIN incomes
      BY <2>3, NextRowidIsNew DEF TypeOK
    <3> QED BY <2>1, <2>3, <3>1 DEF Put, ParentKept, ReferentialIntegrity
  <2> QED BY <1>3, <2>2, <2>3, InsertIncomeCases
<1>4. ASSUME NEW w \in Windows, UpdateExpense(w)
      PROVE  ParentKept
  <2> DEFINE s == windows[w]
  <2>1. s.row \in ExpenseRows
    BY <1>4, WindowKinds DEF UpdateExpense, At, TypeOK, Updates
  <2>2. \A id \in DOMAIN expenses : expenses'[id].createdAt = expenses[id].createdAt
    BY <1>4, <2>1 DEF UpdateExpense, ExpenseRows
  <2>3. incomes' = incomes /\ DOMAIN expenses' = DOMAIN expenses
    BY <1>4 DEF UpdateExpense
  <2> QED BY <2>2, <2>3 DEF ParentKept, ReferentialIntegrity
<1>5. ASSUME NEW w \in Windows, UpdateIncome(w)
      PROVE  ParentKept
  <2>1. windows[w].row \in IncomeRows
    BY <1>5, WindowKinds DEF UpdateIncome, At, TypeOK, Updates
  <2>2. \A i \in DOMAIN incomes : incomes'[i].linked = incomes[i].linked
    BY <1>5, <2>1 DEF UpdateIncome, IncomeRows
  <2>3. expenses' = expenses
    BY <1>5 DEF UpdateIncome
  <2> QED BY <2>2, <2>3 DEF ParentKept, ReferentialIntegrity
<1>6. ASSUME NEW w \in Windows, DeleteExpense(w)
      PROVE  ParentKept
  BY <1>6 DEF DeleteExpense, PaybacksOf, Drop, ParentKept, ReferentialIntegrity
<1>7. ASSUME NEW w \in Windows, DeleteIncome(w)
      PROVE  ParentKept
  BY <1>7 DEF DeleteIncome, Drop, ParentKept, ReferentialIntegrity
<1> QED BY <1>1, <1>2, <1>3, <1>4, <1>5, <1>6, <1>7, RecordSteps DEF RecordStep

\* For as long as a payback lives its parent is the same expense, though the
\* rowids of both may pass to other records afterwards.
THEOREM ParentCorrect == Spec => PaybackKeepsParent
<1>1. TypeOK /\ ReferentialIntegrity /\ [Next]_vars => [ParentKept]_vars
  BY ParentStep
<1>2. PaybackKeepsParent <=> [][ParentKept]_vars
  BY DEF PaybackKeepsParent, ParentKept
<1> QED BY <1>1, <1>2, TypeCorrect, IntegrityCorrect, PTL DEF Spec

-----------------------------------------------------------------------------
(* Sums, over any finite tables.  They are folds, which choose the order    *)
(* they add in; a fold is here the only function that satisfies its own     *)
(* equation, and what a sum is follows by taking a smallest set on which it *)
(* would be something else.                                                 *)

\* f gives each subset of S the sum of g over it, a chosen member at a time.
Sums(f, g, S) ==
  f = [s \in SUBSET S |->
         IF s = {} THEN 0
         ELSE g[CHOOSE x \in s : TRUE] + f[s \ {CHOOSE x \in s : TRUE}]]

Total(g, S) == (CHOOSE f : Sums(f, g, S))[S]

-----------------------------------------------------------------------------
(* The sum of a finite set is well defined.                                 *)

LEMMA SmallestSet ==
  ASSUME NEW S, IsFiniteSet(S), NEW Bad \in SUBSET (SUBSET S), Bad # {}
  PROVE  \E T \in Bad : \A U \in Bad : U \subseteq T => U = T
<1>1. IsWellFoundedOn(StrictSubsetOrdering(S), SUBSET S)
  BY FS_StrictSubsetOrderingWellFounded, FS_FiniteSubsetsOfFinite
<1>2. PICK T \in Bad : \A U \in Bad : ~(<<U, T>> \in StrictSubsetOrdering(S))
  BY <1>1, WFMin
<1>3. ASSUME NEW U \in Bad, U \subseteq T
      PROVE  U = T
  <2> SUFFICES ASSUME U # T
               PROVE  <<U, T>> \in StrictSubsetOrdering(S)
    BY <1>2
  <2> QED BY <1>3 DEF StrictSubsetOrdering
<1> WITNESS T \in Bad
<1> QED BY <1>3

LEMMA SumsUnique ==
  ASSUME NEW S, IsFiniteSet(S), NEW T \in SUBSET S, NEW g, NEW e, NEW f,
         Sums(e, g, S), Sums(f, g, T)
  PROVE  \A s \in SUBSET T : e[s] = f[s]
<1> DEFINE Bad == {s \in SUBSET T : e[s] # f[s]}
<1> SUFFICES ASSUME Bad # {}
             PROVE  FALSE
  OBVIOUS
<1>1. Bad \in SUBSET (SUBSET S)
  OBVIOUS
<1>2. PICK s \in Bad : \A u \in Bad : u \subseteq s => u = s
  <2> HIDE DEF Bad
  <2> QED BY <1>1, SmallestSet
<1>3. s # {}
  BY DEF Sums
<1> DEFINE x == CHOOSE y \in s : TRUE
<1>4. x \in s
  BY <1>3
<1>5. e[s \ {x}] = f[s \ {x}]
  BY <1>2, <1>4
<1>6. e[s] = g[x] + e[s \ {x}] /\ f[s] = g[x] + f[s \ {x}]
  BY <1>3 DEF Sums
<1> QED BY <1>5, <1>6

LEMMA SumsExist ==
  ASSUME NEW S, IsFiniteSet(S), NEW g
  PROVE  \E f : Sums(f, g, S)
<1> DEFINE Bad == {T \in SUBSET S : ~\E f : Sums(f, g, T)}
<1> SUFFICES ASSUME Bad # {}
             PROVE  FALSE
  OBVIOUS
<1>1. PICK T \in Bad : \A U \in Bad : U \subseteq T => U = T
  <2>1. Bad \in SUBSET (SUBSET S)
    OBVIOUS
  <2> HIDE DEF Bad
  <2> QED BY <2>1, SmallestSet
<1> DEFINE Less(U) == CHOOSE f : Sums(f, g, U)
           Rest(s) == s \ {CHOOSE x \in s : TRUE}
           All == [s \in SUBSET T |->
                     IF s = {} THEN 0
                     ELSE g[CHOOSE x \in s : TRUE] + Less(Rest(s))[Rest(s)]]
<1>2. \A U \in SUBSET T : U # T => Sums(Less(U), g, U)
  BY <1>1
<1>3. ASSUME NEW s \in SUBSET T, s # {}
      PROVE  Rest(s) \in SUBSET T /\ Rest(s) # T /\ Rest(s) # s /\ Rest(s) \subseteq s
  BY <1>3
<1>4. ASSUME NEW s \in SUBSET T, s # {}, s # T
      PROVE  All[s] = Less(s)[s]
  <2>1. Sums(Less(s), g, s) /\ Sums(Less(Rest(s)), g, Rest(s))
    BY <1>2, <1>3, <1>4
  <2>2. IsFiniteSet(s)
    BY FS_Subset
  <2>3. Less(s)[Rest(s)] = Less(Rest(s))[Rest(s)]
    <3> HIDE DEF Less, Rest
    <3> QED BY <1>3, <1>4, <2>1, <2>2, SumsUnique
  <2>4. Less(s)[s] = g[CHOOSE x \in s : TRUE] + Less(s)[Rest(s)]
    <3> HIDE DEF Less
    <3> QED BY <1>4, <2>1 DEF Sums
  <2>5. All[s] = g[CHOOSE x \in s : TRUE] + Less(Rest(s))[Rest(s)]
    <3> HIDE DEF Less, Rest
    <3> QED BY <1>4
  <2> QED BY <2>3, <2>4, <2>5
<1>5. ASSUME NEW s \in SUBSET T, s # {}
      PROVE  Less(Rest(s))[Rest(s)] = All[Rest(s)]
  <2>1. CASE Rest(s) = {}
    <3>1. Sums(Less({}), g, {})
      BY <1>2, <1>3, <1>5, <2>1
    <3>2. Less({})[{}] = 0
      <4> HIDE DEF Less
      <4> QED BY <3>1 DEF Sums
    <3>3. All[{}] = 0
      OBVIOUS
    <3> HIDE DEF Less, Rest, All
    <3> QED BY <2>1, <3>2, <3>3
  <2>2. CASE Rest(s) # {}
    <3> HIDE DEF Less, Rest, All
    <3> QED BY <1>3, <1>4, <1>5, <2>2
  <2> QED BY <2>1, <2>2
<1>6. Sums(All, g, T)
  <2>1. All = [s \in SUBSET T |->
                 IF s = {} THEN 0 ELSE g[CHOOSE x \in s : TRUE] + All[Rest(s)]]
    <3>1. \A s \in SUBSET T : s # {} => All[s] = g[CHOOSE x \in s : TRUE] + All[Rest(s)]
      <4> SUFFICES ASSUME NEW s \in SUBSET T, s # {}
                   PROVE  All[s] = g[CHOOSE x \in s : TRUE] + All[Rest(s)]
        OBVIOUS
      <4>1. All[s] = g[CHOOSE x \in s : TRUE] + Less(Rest(s))[Rest(s)]
        <5> HIDE DEF Less, Rest
        <5> QED OBVIOUS
      <4> QED BY <1>5, <4>1
    <3>2. All[{}] = 0
      OBVIOUS
    <3>3. All = [s \in SUBSET T |-> All[s]]
      OBVIOUS
    <3> HIDE DEF All, Rest
    <3> QED BY <3>1, <3>2, <3>3
  <2> HIDE DEF All
  <2> QED BY <2>1 DEF Sums
<1> QED BY <1>1, <1>6

\* The sum over S, as the fold has it.
LEMMA TotalSums ==
  ASSUME NEW S, IsFiniteSet(S), NEW g, NEW f, Sums(f, g, S)
  PROVE  f[S] = Total(g, S)
<1>1. Sums(CHOOSE e : Sums(e, g, S), g, S)
  OBVIOUS
<1> QED BY <1>1, SumsUnique DEF Total

LEMMA TotalChosen ==
  ASSUME NEW S, IsFiniteSet(S), S # {}, NEW g
  PROVE  LET x == CHOOSE y \in S : TRUE IN Total(g, S) = g[x] + Total(g, S \ {x})
<1> DEFINE x == CHOOSE y \in S : TRUE
<1>1. PICK f : Sums(f, g, S)
  BY SumsExist
<1>2. PICK e : Sums(e, g, S \ {x})
  BY SumsExist, FS_Subset
<1>3. f[S \ {x}] = e[S \ {x}]
  BY <1>1, <1>2, SumsUnique
<1>4. f[S] = g[x] + f[S \ {x}]
  BY <1>1 DEF Sums
<1>5. f[S] = Total(g, S) /\ e[S \ {x}] = Total(g, S \ {x})
  BY <1>1, <1>2, TotalSums, FS_Subset
<1> QED BY <1>3, <1>4, <1>5

-----------------------------------------------------------------------------
(* What a sum is.                                                           *)

LEMMA TotalEmpty ==
  ASSUME NEW g
  PROVE  Total(g, {}) = 0
<1>1. IsFiniteSet({})
  BY FS_EmptySet
<1>2. PICK f : Sums(f, g, {})
  BY <1>1, SumsExist
<1>3. f[{}] = 0
  BY <1>2 DEF Sums
<1> QED BY <1>1, <1>2, <1>3, TotalSums

LEMMA TotalType ==
  ASSUME NEW S, IsFiniteSet(S), NEW g, \A x \in S : g[x] \in Int
  PROVE  Total(g, S) \in Int
<1> DEFINE Bad == {T \in SUBSET S : Total(g, T) \notin Int}
<1> SUFFICES ASSUME Bad # {}
             PROVE  FALSE
  OBVIOUS
<1>1. PICK T \in Bad : \A U \in Bad : U \subseteq T => U = T
  <2>1. Bad \in SUBSET (SUBSET S)
    OBVIOUS
  <2> HIDE DEF Bad
  <2> QED BY <2>1, SmallestSet
<1>2. T # {}
  BY TotalEmpty
<1>3. PICK x \in T : Total(g, T) = g[x] + Total(g, T \ {x})
  BY <1>2, TotalChosen, FS_Subset
<1>4. Total(g, T \ {x}) \in Int
  BY <1>1
<1> QED BY <1>3, <1>4

\* Any member may be added last.
LEMMA TotalRemove ==
  ASSUME NEW S, IsFiniteSet(S), NEW g, \A x \in S : g[x] \in Int
  PROVE  \A z \in S : Total(g, S) = g[z] + Total(g, S \ {z})
<1> DEFINE Bad == {T \in SUBSET S : \E z \in T : Total(g, T) # g[z] + Total(g, T \ {z})}
<1> SUFFICES ASSUME Bad # {}
             PROVE  FALSE
  OBVIOUS
<1>1. PICK T \in Bad : \A U \in Bad : U \subseteq T => U = T
  <2>1. Bad \in SUBSET (SUBSET S)
    OBVIOUS
  <2> HIDE DEF Bad
  <2> QED BY <2>1, SmallestSet
<1>2. PICK z \in T : Total(g, T) # g[z] + Total(g, T \ {z})
  OBVIOUS
<1> DEFINE x == CHOOSE y \in T : TRUE
<1>3. x \in T /\ Total(g, T) = g[x] + Total(g, T \ {x})
  <2>1. IsFiniteSet(T) /\ T # {}
    BY FS_Subset
  <2> QED BY <2>1, TotalChosen
<1> HIDE DEF x
<1>4. x # z
  BY <1>2, <1>3
<1>5. Total(g, T \ {x}) = g[z] + Total(g, (T \ {x}) \ {z})
  BY <1>1, <1>3, <1>4
<1>6. Total(g, T \ {z}) = g[x] + Total(g, (T \ {z}) \ {x})
  BY <1>1, <1>3, <1>4
<1>7. (T \ {x}) \ {z} = (T \ {z}) \ {x}
  OBVIOUS
<1>8. g[x] \in Int /\ g[z] \in Int /\ Total(g, (T \ {x}) \ {z}) \in Int
  <2>1. IsFiniteSet((T \ {x}) \ {z}) /\ (T \ {x}) \ {z} \subseteq S
    BY FS_Subset
  <2> QED BY <1>3, <2>1, TotalType
<1>9. /\ Total(g, T) = g[x] + (g[z] + Total(g, (T \ {x}) \ {z}))
      /\ Total(g, T \ {z}) = g[x] + Total(g, (T \ {x}) \ {z})
  BY <1>3, <1>5, <1>6, <1>7
<1> HIDE DEF Bad
<1> QED BY <1>2, <1>8, <1>9

LEMMA TotalAdd ==
  ASSUME NEW S, IsFiniteSet(S), NEW g, NEW z, z \notin S, \A x \in S \cup {z} : g[x] \in Int
  PROVE  Total(g, S \cup {z}) = g[z] + Total(g, S)
<1>1. IsFiniteSet(S \cup {z}) /\ (S \cup {z}) \ {z} = S
  BY FS_AddElement
<1> QED BY <1>1, TotalRemove

\* Only what g is on the set matters.
LEMMA TotalSame ==
  ASSUME NEW S, IsFiniteSet(S), NEW g, NEW h, \A x \in S : g[x] = h[x]
  PROVE  Total(g, S) = Total(h, S)
<1>1. PICK f : Sums(f, g, S)
  BY SumsExist
<1>2. Sums(f, h, S)
  BY <1>1 DEF Sums
<1> QED BY <1>1, <1>2, TotalSums

LEMMA TotalUnion ==
  ASSUME NEW S, IsFiniteSet(S), NEW g, \A x \in S : g[x] \in Int,
         NEW A \in SUBSET S, NEW B \in SUBSET S, A \cap B = {}
  PROVE  Total(g, A \cup B) = Total(g, A) + Total(g, B)
<1> DEFINE Bad == {T \in SUBSET A : Total(g, T \cup B) # Total(g, T) + Total(g, B)}
<1> SUFFICES ASSUME Bad # {}
             PROVE  FALSE
  OBVIOUS
<1>1. PICK T \in Bad : \A U \in Bad : U \subseteq T => U = T
  <2>1. Bad \in SUBSET (SUBSET S)
    OBVIOUS
  <2> HIDE DEF Bad
  <2> QED BY <2>1, SmallestSet
<1>2. \A U \in SUBSET S : IsFiniteSet(U) /\ Total(g, U) \in Int
  BY FS_Subset, TotalType
<1>3. T # {}
  <2>1. {} \cup B = B /\ Total(g, B) \in Int /\ Total(g, {}) = 0
    BY <1>2, TotalEmpty
  <2>2. Total(g, {} \cup B) = Total(g, {}) + Total(g, B)
    BY <2>1
  <2> QED BY <2>2
<1>4. PICK z \in T : TRUE
  BY <1>3
<1>5. Total(g, (T \ {z}) \cup B) = Total(g, T \ {z}) + Total(g, B)
  BY <1>1, <1>4
<1>6. (T \cup B) \ {z} = (T \ {z}) \cup B
  BY <1>4
<1>7. Total(g, T) = g[z] + Total(g, T \ {z})
  BY <1>2, <1>4, TotalRemove
<1>8. Total(g, T \cup B) = g[z] + Total(g, (T \ {z}) \cup B)
  <2>1. IsFiniteSet(T \cup B) /\ T \cup B \subseteq S /\ z \in T \cup B
    BY <1>2
  <2> QED BY <1>6, <2>1, TotalRemove
<1>9. /\ g[z] \in Int /\ Total(g, T \ {z}) \in Int /\ Total(g, B) \in Int
  BY <1>2
<1> QED BY <1>5, <1>7, <1>8, <1>9

\* What adds nothing may be left out.
LEMMA TotalZero ==
  ASSUME NEW S, IsFiniteSet(S), NEW g, \A x \in S : g[x] = 0
  PROVE  Total(g, S) = 0
<1> DEFINE Bad == {T \in SUBSET S : Total(g, T) # 0}
<1> SUFFICES ASSUME Bad # {}
             PROVE  FALSE
  OBVIOUS
<1>1. PICK T \in Bad : \A U \in Bad : U \subseteq T => U = T
  <2>1. Bad \in SUBSET (SUBSET S)
    OBVIOUS
  <2> HIDE DEF Bad
  <2> QED BY <2>1, SmallestSet
<1>2. T # {}
  BY TotalEmpty
<1>3. PICK x \in T : Total(g, T) = g[x] + Total(g, T \ {x})
  BY <1>2, TotalChosen, FS_Subset
<1> QED BY <1>1, <1>3

\* The keys the terms are under do not matter.
LEMMA TotalRekeyed ==
  ASSUME NEW S, IsFiniteSet(S), NEW g, \A x \in S : g[x] \in Int,
         NEW key, \A x, y \in S : key[x] = key[y] => x = y,
         NEW h, \A x \in S : h[key[x]] = g[x],
         NEW R, \A n : n \in R <=> \E x \in S : n = key[x]
  PROVE  Total(h, R) = Total(g, S)
<1> DEFINE Keys(T) == {key[x] : x \in T}
           Bad == {T \in SUBSET S : Total(h, Keys(T)) # Total(g, T)}
<1> SUFFICES ASSUME Bad # {}
             PROVE  FALSE
  <2>1. R = Keys(S)
    OBVIOUS
  <2> HIDE DEF Keys
  <2> QED BY <2>1
<1>1. PICK T \in Bad : \A U \in Bad : U \subseteq T => U = T
  <2>1. Bad \in SUBSET (SUBSET S)
    OBVIOUS
  <2> HIDE DEF Bad
  <2> QED BY <2>1, SmallestSet
<1>2. T # {}
  <2>1. Keys({}) = {}
    OBVIOUS
  <2> QED BY <2>1, TotalEmpty
<1>3. PICK z \in T : TRUE
  BY <1>2
<1>4. Total(h, Keys(T \ {z})) = Total(g, T \ {z})
  BY <1>1, <1>3
<1>5. Keys(T) \ {key[z]} = Keys(T \ {z}) /\ key[z] \in Keys(T)
  BY <1>3
<1>6. IsFiniteSet(T) /\ IsFiniteSet(Keys(T)) /\ \A n \in Keys(T) : h[n] \in Int
  <2>1. IsFiniteSet(T)
    BY FS_Subset
  <2>2. [x \in T |-> key[x]] \in Surjection(T, Keys(T))
    BY DEF Surjection
  <2>3. IsFiniteSet(Keys(T))
    <3> HIDE DEF Keys
    <3> QED BY <2>1, <2>2, FS_Surjection
  <2> QED BY <2>1, <2>3
<1>7. Total(g, T) = g[z] + Total(g, T \ {z})
  BY <1>3, <1>6, TotalRemove
<1>8. Total(h, Keys(T)) = h[key[z]] + Total(h, Keys(T) \ {key[z]})
  <2> HIDE DEF Keys
  <2> QED BY <1>5, <1>6, TotalRemove
<1>9. h[key[z]] = g[z]
  BY <1>3
<1> QED BY <1>4, <1>5, <1>7, <1>8, <1>9

-----------------------------------------------------------------------------
(* The sums of Balance.                                                     *)

Column(table) == [id \in DOMAIN table |-> table[id].amount]
NetColumn(es, is) == [id \in DOMAIN es |-> NetCost(es, is, id)]

Linked(is, e) == {i \in DOMAIN is : is[i].linked = e}
Settled(table) == {id \in DOMAIN table : table[id].settlement}
PaidBy(es, payer) ==
  {id \in DOMAIN es : ~es[id].settlement /\ es[id].shared /\ es[id].paidBy = payer}

HasAmounts(table) ==
  IsFiniteSet(DOMAIN table) /\ \A id \in DOMAIN table : table[id].amount \in Int

LEMMA AmountsAreTotal ==
  ASSUME NEW table, NEW ids, IsFiniteSet(ids), ids \subseteq DOMAIN table
  PROVE  AmountsOf(table, ids) = Total(Column(table), ids)
<1> DEFINE Folds(f) ==
      f = [s \in SUBSET ids |->
             IF s = {} THEN 0
             ELSE table[CHOOSE x \in s : TRUE].amount + f[s \ {CHOOSE x \in s : TRUE}]]
<1>1. \A s \in SUBSET ids : s # {} => (CHOOSE x \in s : TRUE) \in DOMAIN table
  OBVIOUS
<1>2. \A f : Folds(f) <=> Sums(f, Column(table), ids)
  BY <1>1 DEF Sums, Column
<1>3. AmountsOf(table, ids) = (CHOOSE f : Folds(f))[ids]
  BY Zenon DEF AmountsOf, MapThenSumSet, MapThenFoldSet
<1>4. Folds(CHOOSE f : Folds(f))
  <2> HIDE DEF Folds
  <2> QED BY <1>2, SumsExist
<1> HIDE DEF Folds
<1> QED BY <1>2, <1>3, <1>4, TotalSums

LEMMA NetCostsAreTotal ==
  ASSUME NEW es, NEW is, NEW ids, IsFiniteSet(ids), ids \subseteq DOMAIN es
  PROVE  MapThenSumSet(LAMBDA id : NetCost(es, is, id), ids) = Total(NetColumn(es, is), ids)
<1> DEFINE Folds(f) ==
      f = [s \in SUBSET ids |->
             IF s = {} THEN 0
             ELSE NetCost(es, is, CHOOSE x \in s : TRUE) + f[s \ {CHOOSE x \in s : TRUE}]]
<1>1. \A s \in SUBSET ids : s # {} => (CHOOSE x \in s : TRUE) \in DOMAIN es
  OBVIOUS
<1>2. \A f : Folds(f) <=> Sums(f, NetColumn(es, is), ids)
  BY <1>1 DEF Sums, NetColumn
<1>3. MapThenSumSet(LAMBDA id : NetCost(es, is, id), ids) = (CHOOSE f : Folds(f))[ids]
  BY Zenon DEF MapThenSumSet, MapThenFoldSet
<1>4. Folds(CHOOSE f : Folds(f))
  <2> HIDE DEF Folds
  <2> QED BY <1>2, SumsExist
<1> HIDE DEF Folds
<1> QED BY <1>2, <1>3, <1>4, TotalSums

LEMMA NetCostType ==
  ASSUME NEW es, NEW is, HasAmounts(es), HasAmounts(is), NEW e \in DOMAIN es
  PROVE  /\ NetCost(es, is, e) = es[e].amount - Total(Column(is), Linked(is, e))
         /\ NetCost(es, is, e) \in Int
<1>1. IsFiniteSet(Linked(is, e)) /\ Linked(is, e) \subseteq DOMAIN is
  BY FS_Subset DEF HasAmounts, Linked
<1>2. Total(Column(is), Linked(is, e)) \in Int
  BY <1>1, TotalType DEF HasAmounts, Column
<1>3. NetCost(es, is, e) = es[e].amount - Total(Column(is), Linked(is, e))
  BY <1>1, AmountsAreTotal DEF NetCost, Linked
<1> QED BY <1>2, <1>3 DEF HasAmounts

LEMMA OwedAsTotals ==
  ASSUME NEW es, NEW is, HasAmounts(es), HasAmounts(is)
  PROVE  /\ OwedByJavi2(es, is)
              = Total(NetColumn(es, is), PaidBy(es, "carla"))
                  - Total(NetColumn(es, is), PaidBy(es, "javi"))
                  - 2 * Total(Column(es), Settled(es)) + 2 * Total(Column(is), Settled(is))
         /\ \A payer : Total(NetColumn(es, is), PaidBy(es, payer)) \in Int
         /\ Total(Column(es), Settled(es)) \in Int /\ Total(Column(is), Settled(is)) \in Int
         /\ OwedByJavi2(es, is) \in Int
<1>1. /\ \A payer : IsFiniteSet(PaidBy(es, payer)) /\ PaidBy(es, payer) \subseteq DOMAIN es
      /\ IsFiniteSet(Settled(es)) /\ Settled(es) \subseteq DOMAIN es
      /\ IsFiniteSet(Settled(is)) /\ Settled(is) \subseteq DOMAIN is
  BY FS_Subset DEF HasAmounts, PaidBy, Settled
<1>2. \A payer : MapThenSumSet(LAMBDA id : NetCost(es, is, id), PaidBy(es, payer))
                   = Total(NetColumn(es, is), PaidBy(es, payer))
  BY <1>1, NetCostsAreTotal
<1>3. /\ AmountsOf(es, Settled(es)) = Total(Column(es), Settled(es))
      /\ AmountsOf(is, Settled(is)) = Total(Column(is), Settled(is))
  BY <1>1, AmountsAreTotal
<1>4. \A payer : Total(NetColumn(es, is), PaidBy(es, payer)) \in Int
  BY <1>1, NetCostType, TotalType DEF NetColumn
<1>5. Total(Column(es), Settled(es)) \in Int /\ Total(Column(is), Settled(is)) \in Int
  BY <1>1, TotalType DEF HasAmounts, Column
<1>6. OwedByJavi2(es, is)
        = Total(NetColumn(es, is), PaidBy(es, "carla"))
            - Total(NetColumn(es, is), PaidBy(es, "javi"))
            - 2 * Total(Column(es), Settled(es)) + 2 * Total(Column(is), Settled(is))
  BY <1>2, <1>3, Zenon DEF OwedByJavi2, PaidBy, Settled
<1> QED BY <1>4, <1>5, <1>6

LEMMA OwedType ==
  ASSUME NEW es, NEW is, NEW fs, HasAmounts(es), HasAmounts(is), HasAmounts(fs)
  PROVE  /\ Rounded(OwedByJavi2(es, is)) \in Int
         /\ OwedByCarla(es, is, fs)
              = -Rounded(OwedByJavi2(es, is)) - Total(Column(fs), DOMAIN fs)
         /\ OwedByCarla(es, is, fs) \in Int
<1>1. AmountsOf(fs, DOMAIN fs) = Total(Column(fs), DOMAIN fs)
  BY AmountsAreTotal DEF HasAmounts
<1>2. Total(Column(fs), DOMAIN fs) \in Int
  BY TotalType DEF HasAmounts, Column
<1>3. \A n \in Int : Rounded(n) \in Int
  BY DEF Rounded
<1>4. Rounded(OwedByJavi2(es, is)) \in Int
  BY <1>3, OwedAsTotals
<1> QED BY <1>1, <1>2, <1>4 DEF OwedByCarla

\* Tables that agree on the shared expenses, on what each of them cost net and on
\* the settlements give the same balance.
LEMMA OwedSame ==
  ASSUME NEW es, NEW is, NEW fs, HasAmounts(es), HasAmounts(is), HasAmounts(fs),
         NEW es2, NEW is2, HasAmounts(es2), HasAmounts(is2),
         \A payer \in {"javi", "carla"} :
           /\ PaidBy(es2, payer) = PaidBy(es, payer)
           /\ \A e \in PaidBy(es, payer) : NetCost(es2, is2, e) = NetCost(es, is, e),
         Settled(es2) = Settled(es), \A e \in Settled(es) : es2[e].amount = es[e].amount,
         Settled(is2) = Settled(is), \A i \in Settled(is) : is2[i].amount = is[i].amount
  PROVE  OwedByCarla(es2, is2, fs) = OwedByCarla(es, is, fs)
<1>1. ASSUME NEW payer \in {"javi", "carla"}
      PROVE  Total(NetColumn(es2, is2), PaidBy(es2, payer))
               = Total(NetColumn(es, is), PaidBy(es, payer))
  <2>1. IsFiniteSet(PaidBy(es, payer))
    BY FS_Subset DEF HasAmounts, PaidBy
  <2>2. PaidBy(es, payer) \subseteq DOMAIN es /\ PaidBy(es2, payer) \subseteq DOMAIN es2
    BY DEF PaidBy
  <2>3. \A e \in PaidBy(es, payer) : NetColumn(es2, is2)[e] = NetColumn(es, is)[e]
    BY <2>2 DEF NetColumn
  <2> QED BY <2>1, <2>3, TotalSame
<1>2. Total(Column(es2), Settled(es2)) = Total(Column(es), Settled(es))
  <2>1. IsFiniteSet(Settled(es))
    BY FS_Subset DEF HasAmounts, Settled
  <2>2. \A e \in Settled(es) : Column(es2)[e] = Column(es)[e]
    BY DEF Column, Settled
  <2> QED BY <2>1, <2>2, TotalSame
<1>3. Total(Column(is2), Settled(is2)) = Total(Column(is), Settled(is))
  <2>1. IsFiniteSet(Settled(is))
    BY FS_Subset DEF HasAmounts, Settled
  <2>2. \A i \in Settled(is) : Column(is2)[i] = Column(is)[i]
    BY DEF Column, Settled
  <2> QED BY <2>1, <2>2, TotalSame
<1>4. OwedByJavi2(es2, is2) = OwedByJavi2(es, is)
  BY <1>1, <1>2, <1>3, OwedAsTotals
<1> QED BY <1>4, OwedType

\* The rows of a table are in new under key of their ids.
Rekeys(key, table, new) ==
  /\ \A x, y \in DOMAIN table : key[x] = key[y] => x = y
  /\ \A n : n \in DOMAIN new <=> \E x \in DOMAIN table : n = key[x]

\* Tables under other keys, their links turned into the new keys, give the same
\* balance.
LEMMA OwedRekeyed ==
  ASSUME NEW es, NEW is, HasAmounts(es), HasAmounts(is),
         NEW es2, NEW is2, HasAmounts(es2), HasAmounts(is2),
         NEW ke, Rekeys(ke, es, es2), NEW ki, Rekeys(ki, is, is2),
         \A x \in DOMAIN es :
           /\ es2[ke[x]].amount = es[x].amount /\ es2[ke[x]].settlement = es[x].settlement
           /\ es2[ke[x]].shared = es[x].shared /\ es2[ke[x]].paidBy = es[x].paidBy,
         \A x \in DOMAIN is :
           /\ is2[ki[x]].amount = is[x].amount /\ is2[ki[x]].settlement = is[x].settlement
           /\ \A e \in DOMAIN es : is2[ki[x]].linked = ke[e] <=> is[x].linked = e
  PROVE  OwedByJavi2(es2, is2) = OwedByJavi2(es, is)
<1> USE DEF Rekeys
<1>1. /\ \A x \in DOMAIN es : ke[x] \in DOMAIN es2 /\ Column(es2)[ke[x]] = Column(es)[x]
      /\ \A x \in DOMAIN is : ki[x] \in DOMAIN is2 /\ Column(is2)[ki[x]] = Column(is)[x]
  BY DEF Column
<1>2. /\ \A x \in DOMAIN es : Column(es)[x] \in Int
      /\ \A x \in DOMAIN is : Column(is)[x] \in Int
  BY DEF Column, HasAmounts
<1>3. ASSUME NEW e \in DOMAIN es
      PROVE  NetColumn(es2, is2)[ke[e]] = NetColumn(es, is)[e] /\ NetColumn(es, is)[e] \in Int
  <2>1. \A n : n \in Linked(is2, ke[e]) <=> \E x \in Linked(is, e) : n = ki[x]
    BY DEF Linked
  <2>2. IsFiniteSet(Linked(is, e)) /\ Linked(is, e) \subseteq DOMAIN is
    BY FS_Subset DEF Linked, HasAmounts
  <2>3. Total(Column(is2), Linked(is2, ke[e])) = Total(Column(is), Linked(is, e))
    <3>1. /\ \A x \in Linked(is, e) : Column(is2)[ki[x]] = Column(is)[x] /\ Column(is)[x] \in Int
          /\ \A x, y \in Linked(is, e) : ki[x] = ki[y] => x = y
      BY <1>1, <1>2, <2>2
    <3> QED BY ONLY <2>1, <2>2, <3>1, TotalRekeyed
  <2>4. NetCost(es2, is2, ke[e]) = NetCost(es, is, e) /\ NetCost(es, is, e) \in Int
    BY <1>1, <2>3, NetCostType
  <2> QED BY <1>1, <2>4 DEF NetColumn
<1>4. ASSUME NEW payer
      PROVE  Total(NetColumn(es2, is2), PaidBy(es2, payer))
               = Total(NetColumn(es, is), PaidBy(es, payer))
  <2>1. \A n : n \in PaidBy(es2, payer) <=> \E x \in PaidBy(es, payer) : n = ke[x]
    BY DEF PaidBy
  <2>2. IsFiniteSet(PaidBy(es, payer)) /\ PaidBy(es, payer) \subseteq DOMAIN es
    BY FS_Subset DEF PaidBy, HasAmounts
  <2>3. /\ \A x \in PaidBy(es, payer) :
             NetColumn(es2, is2)[ke[x]] = NetColumn(es, is)[x] /\ NetColumn(es, is)[x] \in Int
        /\ \A x, y \in PaidBy(es, payer) : ke[x] = ke[y] => x = y
    BY <1>3, <2>2
  <2> QED BY ONLY <2>1, <2>2, <2>3, TotalRekeyed
<1>5. Total(Column(es2), Settled(es2)) = Total(Column(es), Settled(es))
  <2>1. \A n : n \in Settled(es2) <=> \E x \in Settled(es) : n = ke[x]
    BY DEF Settled
  <2>2. IsFiniteSet(Settled(es)) /\ Settled(es) \subseteq DOMAIN es
    BY FS_Subset DEF Settled, HasAmounts
  <2>3. /\ \A x \in Settled(es) : Column(es2)[ke[x]] = Column(es)[x] /\ Column(es)[x] \in Int
        /\ \A x, y \in Settled(es) : ke[x] = ke[y] => x = y
    BY <1>1, <1>2, <2>2
  <2> QED BY ONLY <2>1, <2>2, <2>3, TotalRekeyed
<1>6. Total(Column(is2), Settled(is2)) = Total(Column(is), Settled(is))
  <2>1. \A n : n \in Settled(is2) <=> \E x \in Settled(is) : n = ki[x]
    BY DEF Settled
  <2>2. IsFiniteSet(Settled(is)) /\ Settled(is) \subseteq DOMAIN is
    BY FS_Subset DEF Settled, HasAmounts
  <2>3. /\ \A x \in Settled(is) : Column(is2)[ki[x]] = Column(is)[x] /\ Column(is)[x] \in Int
        /\ \A x, y \in Settled(is) : ki[x] = ki[y] => x = y
    BY <1>1, <1>2, <2>2
  <2> QED BY ONLY <2>1, <2>2, <2>3, TotalRekeyed
<1> QED BY <1>4, <1>5, <1>6, OwedAsTotals

=============================================================================
