----------------------------- MODULE BookProofs -----------------------------
(***************************************************************************)
(* The ledger as the book of module RecordBook: what a window knows of the *)
(* record it is about to write, and the refinement that rests on it.  Both *)
(* hold for one window whatever becomes of the rowids, and for any number  *)
(* of windows until a rowid is given a second time.                        *)
(***************************************************************************)
EXTENDS LedgerProofs

Alone == \A v, w \in Windows : v = w

-----------------------------------------------------------------------------
(* Rowids and ordinals.  No rowid is above the number of rows ever entered, *)
(* and a row keeps the ordinal it was stamped with, which no other row has. *)

Stamped(table, n) ==
  /\ \A id \in DOMAIN table : id <= n /\ table[id].createdAt \in 1..n
  /\ \A a, b \in DOMAIN table : table[a].createdAt = table[b].createdAt => a = b

AllStamped ==
  /\ Stamped(expenses, entered.expense)
  /\ Stamped(incomes, entered.income)
  /\ Stamped(forgivenesses, entered.forgiveness)

LEMMA PutIsStamped ==
  ASSUME NEW table, NEW rows, IsTable(table, rows), NEW n \in Nat, Stamped(table, n),
         NEW id \in 1..(n + 1), id \notin DOMAIN table,
         NEW row, row.createdAt = n + 1
  PROVE  Stamped(Put(table, id, row), n + 1)
  BY DEF Stamped, Put, IsTable, Ids

LEMMA DropIsStamped ==
  ASSUME NEW table, NEW n, Stamped(table, n), NEW ids
  PROVE  Stamped(Drop(table, ids), n)
  BY DEF Stamped, Drop

LEMMA OverwriteIsStamped ==
  ASSUME NEW table, NEW n, Stamped(table, n), NEW id \in DOMAIN table,
         NEW row, row.createdAt = table[id].createdAt
  PROVE  Stamped([table EXCEPT ![id] = row], n)
  BY DEF Stamped

\* What the statements of the store do, and the row they write.
LEMMA InsertedExpense ==
  ASSUME TypeOK, NEW w \in Windows, InsertExpense(w)
  PROVE  /\ windows[w] \in Inserts /\ windows[w].at = "insertExpense"
         /\ windows[w].row \in ExpenseRows
         /\ \E id \in 1..(entered.expense + 1), row \in ExpenseRows :
              /\ row = [windows[w].row EXCEPT !.createdAt = entered.expense + 1]
              /\ row.createdAt = entered.expense + 1
              /\ id \notin DOMAIN expenses
              /\ expenses' = Put(expenses, id, row)
              /\ recycled' = (recycled \/ id # entered.expense + 1)
         /\ entered' = [entered EXCEPT !.expense = entered.expense + 1]
         /\ Goes(w, Idle)
         /\ UNCHANGED <<incomes, forgivenesses>>
<1> DEFINE row == [windows[w].row EXCEPT !.createdAt = entered.expense + 1]
<1>1. windows[w] \in Inserts /\ windows[w].row \in ExpenseRows
  BY WindowKinds DEF InsertExpense, At, TypeOK, Inserts
<1>2. row \in ExpenseRows /\ row.createdAt = entered.expense + 1
  BY <1>1 DEF ExpenseRows, TypeOK
<1>3. \E id \in 1..(entered.expense + 1) :
        /\ id \notin DOMAIN expenses
        /\ expenses' = Put(expenses, id, row)
        /\ recycled' = (recycled \/ id # entered.expense + 1)
  BY NextRowidIsNew DEF InsertExpense, TypeOK
<1> HIDE DEF row
<1> QED BY <1>1, <1>2, <1>3 DEF InsertExpense, At, row

LEMMA InsertedIncome ==
  ASSUME TypeOK, NEW w \in Windows, InsertIncome(w)
  PROVE  /\ windows[w] \in Inserts /\ windows[w].at = "insertIncome"
         /\ windows[w].row \in IncomeRows
         /\ \/ UNCHANGED <<incomes, entered, recycled>>
            \/ /\ windows[w].row.linked \in DOMAIN expenses \cup {NoLink}
               /\ \E id \in 1..(entered.income + 1), row \in IncomeRows :
                    /\ row = [windows[w].row EXCEPT !.createdAt = entered.income + 1]
                    /\ row.createdAt = entered.income + 1
                    /\ id \notin DOMAIN incomes
                    /\ incomes' = Put(incomes, id, row)
                    /\ recycled' = (recycled \/ id # entered.income + 1)
               /\ entered' = [entered EXCEPT !.income = entered.income + 1]
         /\ Goes(w, Idle)
         /\ UNCHANGED <<expenses, forgivenesses>>
<1> DEFINE row == [windows[w].row EXCEPT !.createdAt = entered.income + 1]
<1>1. windows[w] \in Inserts /\ windows[w].row \in IncomeRows
  BY WindowKinds DEF InsertIncome, At, TypeOK, Inserts
<1>2. row \in IncomeRows /\ row.createdAt = entered.income + 1
  BY <1>1 DEF IncomeRows, TypeOK
<1>3. \/ UNCHANGED <<incomes, entered, recycled>>
      \/ /\ windows[w].row.linked \in DOMAIN expenses \cup {NoLink}
         /\ \E id \in 1..(entered.income + 1) :
              /\ id \notin DOMAIN incomes
              /\ incomes' = Put(incomes, id, row)
              /\ recycled' = (recycled \/ id # entered.income + 1)
         /\ entered' = [entered EXCEPT !.income = entered.income + 1]
  BY NextRowidIsNew DEF InsertIncome, ParentExists, TypeOK
<1> HIDE DEF row
<1> QED BY <1>1, <1>2, <1>3 DEF InsertIncome, At, row

LEMMA UpdatedExpense ==
  ASSUME TypeOK, NEW w \in Windows, UpdateExpense(w)
  PROVE  LET s == windows[w]
         IN  /\ s \in Updates /\ s.at = "updateExpense" /\ s.row \in ExpenseRows
             /\ \/ s.id \notin DOMAIN expenses /\ expenses' = expenses
                \/ /\ s.id \in DOMAIN expenses
                   /\ \E row \in ExpenseRows :
                        /\ row = [s.row EXCEPT !.createdAt = expenses[s.id].createdAt]
                        /\ row.createdAt = expenses[s.id].createdAt
                        /\ expenses' = [expenses EXCEPT ![s.id] = row]
             /\ Goes(w, Idle)
             /\ UNCHANGED <<incomes, forgivenesses, entered, recycled>>
<1> DEFINE s == windows[w]
           row == [s.row EXCEPT !.createdAt = expenses[s.id].createdAt]
<1>1. s \in Updates /\ s.at = "updateExpense" /\ s.row \in ExpenseRows
  BY WindowKinds DEF UpdateExpense, At, TypeOK, Updates
<1>2. s.id \in DOMAIN expenses =>
        row \in ExpenseRows /\ row.createdAt = expenses[s.id].createdAt
  BY <1>1 DEF ExpenseRows, TypeOK, IsTable
<1>3. IF s.id \in DOMAIN expenses THEN expenses' = [expenses EXCEPT ![s.id] = row]
                                  ELSE expenses' = expenses
  BY DEF UpdateExpense
<1> HIDE DEF row
<1> QED BY <1>1, <1>2, <1>3 DEF UpdateExpense, row

LEMMA UpdatedIncome ==
  ASSUME TypeOK, NEW w \in Windows, UpdateIncome(w)
  PROVE  LET s == windows[w]
         IN  /\ s \in Updates /\ s.at = "updateIncome" /\ s.row \in IncomeRows
             /\ \/ s.id \notin DOMAIN incomes /\ incomes' = incomes
                \/ /\ s.id \in DOMAIN incomes
                   /\ \E row \in IncomeRows :
                        /\ row = [s.row EXCEPT !.createdAt = incomes[s.id].createdAt,
                                               !.linked = incomes[s.id].linked]
                        /\ row.createdAt = incomes[s.id].createdAt
                        /\ incomes' = [incomes EXCEPT ![s.id] = row]
             /\ Goes(w, Idle)
             /\ UNCHANGED <<expenses, forgivenesses, entered, recycled>>
<1> DEFINE s == windows[w]
           row == [s.row EXCEPT !.createdAt = incomes[s.id].createdAt,
                                !.linked = incomes[s.id].linked]
<1>1. s \in Updates /\ s.at = "updateIncome" /\ s.row \in IncomeRows
  BY WindowKinds DEF UpdateIncome, At, TypeOK, Updates
<1>2. s.id \in DOMAIN incomes =>
        row \in IncomeRows /\ row.createdAt = incomes[s.id].createdAt
  BY <1>1 DEF IncomeRows, TypeOK, IsTable
<1>3. IF s.id \in DOMAIN incomes THEN incomes' = [incomes EXCEPT ![s.id] = row]
                                 ELSE incomes' = incomes
  BY DEF UpdateIncome
<1> HIDE DEF row
<1> QED BY <1>1, <1>2, <1>3 DEF UpdateIncome, row

\* The steps that touch a table or a count; every other one leaves them alone.
LEMMA TableSteps ==
  ASSUME [Next]_vars
  PROVE  \/ UNCHANGED <<expenses, incomes, forgivenesses, entered, recycled>>
         \/ \E w \in Windows :
              RecordStep(w) \/ InsertForgiveness(w) \/ DeleteForgiveness(w)
<1> DEFINE Done(w) ==
      \/ UNCHANGED <<expenses, incomes, forgivenesses, entered, recycled>>
      \/ RecordStep(w) \/ InsertForgiveness(w) \/ DeleteForgiveness(w)
<1>1. CASE UNCHANGED vars
  BY <1>1 DEF vars
<1>2. ASSUME NEW w \in Windows, Add(w)
      PROVE  Done(w)
  BY <1>2 DEF Add, StartPayback, AddPlain, AddFromBox, RecordStep, tables
<1>3. ASSUME NEW w \in Windows, Edit(w)
      PROVE  Done(w)
  BY <1>3 DEF Edit, OpenExpense, OpenIncome, OpenParent, SaveExpense, SaveIncome,
              SaveParent, RecordStep, tables
<1>4. ASSUME NEW w \in Windows, Delete(w)
      PROVE  Done(w)
  BY <1>4 DEF Delete, RequestDeleteExpense, RequestDeleteIncome, DeleteParent,
              RecordStep, tables
<1>5. ASSUME NEW w \in Windows, Forgive(w) \/ Abandon(w)
      PROVE  Done(w)
  BY <1>5 DEF Forgive, ListExpenses, ListIncomes, ListForgivenesses, Abandon, tables
<1>6. CASE DaysPass
  BY <1>6 DEF DaysPass, tables
<1> QED BY <1>1, <1>2, <1>3, <1>4, <1>5, <1>6 DEF Next

LEMMA StampedStep ==
  ASSUME TypeOK, AllStamped, [Next]_vars
  PROVE  AllStamped'
<1> /\ IsTable(expenses, ExpenseRows) /\ IsTable(incomes, IncomeRows)
    /\ IsTable(forgivenesses, ForgivenessRows)
    /\ entered \in [expense : Nat, income : Nat, forgiveness : Nat]
  BY DEF TypeOK
<1>1. CASE UNCHANGED <<expenses, incomes, forgivenesses, entered>>
  BY <1>1 DEF AllStamped
<1>2. ASSUME NEW w \in Windows, InsertExpense(w)
      PROVE  AllStamped'
  <2>1. Stamped(expenses', entered.expense + 1)
    BY <1>2, InsertedExpense, PutIsStamped DEF AllStamped
  <2> QED BY <1>2, <2>1, InsertedExpense DEF AllStamped
<1>3. ASSUME NEW w \in Windows, InsertIncome(w)
      PROVE  AllStamped'
  <2>1. CASE UNCHANGED <<incomes, entered, recycled>>
    BY <1>3, <2>1, InsertedIncome DEF AllStamped
  <2>2. CASE entered' = [entered EXCEPT !.income = entered.income + 1]
             /\ \E id \in 1..(entered.income + 1), row \in IncomeRows :
                  /\ row.createdAt = entered.income + 1
                  /\ id \notin DOMAIN incomes /\ incomes' = Put(incomes, id, row)
    <3>1. Stamped(incomes', entered.income + 1)
      BY <2>2, PutIsStamped DEF AllStamped
    <3> QED BY <1>3, <2>2, <3>1, InsertedIncome DEF AllStamped
  <2> QED BY <1>3, <2>1, <2>2, InsertedIncome
<1>4. ASSUME NEW w \in Windows, UpdateExpense(w)
      PROVE  AllStamped'
  <2>1. CASE expenses' = expenses
    BY <1>4, <2>1, UpdatedExpense DEF AllStamped
  <2>2. ASSUME NEW id \in DOMAIN expenses, NEW row, row.createdAt = expenses[id].createdAt,
               expenses' = [expenses EXCEPT ![id] = row]
        PROVE  AllStamped'
    <3>1. Stamped(expenses', entered.expense)
      BY <2>2, OverwriteIsStamped DEF AllStamped
    <3> QED BY <1>4, <3>1, UpdatedExpense DEF AllStamped
  <2> QED BY <1>4, <2>1, <2>2, UpdatedExpense
<1>5. ASSUME NEW w \in Windows, UpdateIncome(w)
      PROVE  AllStamped'
  <2>1. CASE incomes' = incomes
    BY <1>5, <2>1, UpdatedIncome DEF AllStamped
  <2>2. ASSUME NEW id \in DOMAIN incomes, NEW row, row.createdAt = incomes[id].createdAt,
               incomes' = [incomes EXCEPT ![id] = row]
        PROVE  AllStamped'
    <3>1. Stamped(incomes', entered.income)
      BY <2>2, OverwriteIsStamped DEF AllStamped
    <3> QED BY <1>5, <3>1, UpdatedIncome DEF AllStamped
  <2> QED BY <1>5, <2>1, <2>2, UpdatedIncome
<1>6. ASSUME NEW w \in Windows, DeleteExpense(w) \/ DeleteIncome(w)
      PROVE  AllStamped'
  BY <1>6, DropIsStamped DEF DeleteExpense, DeleteIncome, AllStamped
<1>7. ASSUME NEW w \in Windows, InsertForgiveness(w)
      PROVE  AllStamped'
  <2> DEFINE row == [createdAt |-> entered.forgiveness + 1, amount |-> windows[w].amount]
  <2>1. PICK id \in 1..(entered.forgiveness + 1) :
          id \notin DOMAIN forgivenesses /\ forgivenesses' = Put(forgivenesses, id, row)
    BY <1>7, NextRowidIsNew DEF InsertForgiveness
  <2>2. Stamped(forgivenesses', entered.forgiveness + 1)
    <3>1. row.createdAt = entered.forgiveness + 1
      OBVIOUS
    <3> HIDE DEF row
    <3> QED BY <2>1, <3>1, PutIsStamped DEF AllStamped
  <2> QED BY <1>7, <2>2 DEF InsertForgiveness, AllStamped
<1>8. ASSUME NEW w \in Windows, DeleteForgiveness(w)
      PROVE  AllStamped'
  BY <1>8, DropIsStamped DEF DeleteForgiveness, AllStamped
<1> QED BY <1>1, <1>2, <1>3, <1>4, <1>5, <1>6, <1>7, <1>8, TableSteps DEF RecordStep

LEMMA StampedInvariant == Spec => []AllStamped
<1>1. Init => AllStamped
  BY DEF Init, NoRows, AllStamped, Stamped
<1>2. TypeOK /\ AllStamped /\ [Next]_vars => AllStamped'
  BY StampedStep
<1> QED BY <1>1, <1>2, TypeCorrect, PTL DEF Spec


-----------------------------------------------------------------------------
(* What a window knows of the records it has loaded. *)

SameKind(e, f) == e.shared = f.shared /\ e.paidBy = f.paidBy /\ e.settlement = f.settlement

\* No other record can be under the rowid than the one with that ordinal.
IsExpense(id, createdAt) == id <= entered.expense /\ Holds(expenses, id, createdAt)
IsIncome(id, createdAt) == id <= entered.income /\ Holds(incomes, id, createdAt)

Lookups == {"openParent", "deleteParent", "saveParent"}

Seen(s) ==
  /\ s.at = "box" /\ s.kind # "income" => IsExpense(s.id, s.seen)
  /\ s.at = "box" /\ s.kind = "income" => IsIncome(s.id, s.seen)
  /\ s.at \in {"updateExpense", "deleteExpense"} => IsExpense(s.id, s.seen)
  /\ s.at \in {"updateIncome", "deleteIncome"} => IsIncome(s.id, s.seen)
  /\ s.at \in Lookups => IsIncome(s.id, s.income.createdAt)
  /\ s.at = "saveParent" => IsIncome(s.id, s.seen)
  /\ s.at = "insertIncome" /\ s.row.linked # NoLink => IsExpense(s.row.linked, s.seen)

\* An update keeps the record's kind and tab; a lookup has the record's own link.
Agrees(s) ==
  /\ s.at = "updateExpense" /\ s.id \in DOMAIN expenses => SameKind(s.row, expenses[s.id])
  /\ s.at = "updateIncome" /\ s.id \in DOMAIN incomes
       => s.row.settlement = incomes[s.id].settlement
  /\ s.at \in Lookups => s.income.linked # NoLink
  /\ s.at \in Lookups /\ s.id \in DOMAIN incomes
       => /\ s.income.linked = incomes[s.id].linked
          /\ s.income.settlement = incomes[s.id].settlement

ScopedIncome(i) == i.settlement \/ (i.linked # NoLink /\ expenses[i.linked].shared)

Scoped(s) ==
  /\ s.at \in {"updateExpense", "deleteExpense"} /\ s.user = "carla"
       /\ s.id \in DOMAIN expenses => InSharedTab(expenses[s.id])
  /\ s.at \in {"updateIncome", "deleteIncome"} /\ s.user = "carla"
       /\ s.id \in DOMAIN incomes => ScopedIncome(incomes[s.id])

Knows(s) == Seen(s) /\ Agrees(s) /\ Scoped(s)

\* An income that is a settlement has no parent.
UnlinkedSettlements ==
  \A w \in Windows :
    At(w, "insertIncome") /\ windows[w].row.settlement => windows[w].row.linked = NoLink

KnowInv ==
  /\ UnlinkedSettlements
  /\ Alone \/ ~recycled => \A w \in Windows : Knows(windows[w])

LEMMA IdleKnows == Knows(Idle)
  BY DEF Knows, Seen, Agrees, Scoped, Lookups, Idle

AllKnow == \A w \in Windows : Knows(windows[w])

\* A window goes on and no table changes.
LEMMA GoesKnows ==
  ASSUME WindowsOK, AllKnow, UNCHANGED tables,
         NEW w \in Windows, NEW s, Goes(w, s), Knows(s)
  PROVE  AllKnow'
<1>1. \A v \in Windows : windows'[v] = windows[v] \/ windows'[v] = s
  BY DEF Goes, WindowsOK
<1>2. \A v \in Windows : Knows(windows'[v])
  BY <1>1 DEF AllKnow
<1> QED
  BY <1>2 DEF AllKnow, Knows, Seen, Agrees, Scoped, IsExpense, IsIncome, Holds,
              ScopedIncome, tables

LEMMA LoadedRows ==
  ASSUME TypeOK, AllStamped
  PROVE  /\ \A id \in DOMAIN expenses : IsExpense(id, expenses[id].createdAt)
         /\ \A id \in DOMAIN incomes : IsIncome(id, incomes[id].createdAt)
  BY DEF AllStamped, Stamped, IsExpense, IsIncome, Holds

LEMMA BoxKnows ==
  ASSUME NEW user, NEW kind, NEW id, NEW seen,
         IF kind = "income" THEN IsIncome(id, seen) ELSE IsExpense(id, seen)
  PROVE  Knows(Box(user, kind, id, seen))
  BY DEF Knows, Seen, Agrees, Scoped, Lookups, Box

\* An edit's row is of the kind of the record it was made from.
LEMMA EditedKinds ==
  ASSUME NEW e \in ExpenseRows, IsLegal(e), NEW line \in Lines,
         ~Refused(EditExpense(e), line)
  PROVE  SameKind(ExpenseOf(EditExpense(e), line), e)
  BY DEF ExpenseRows, Users, Lines, Sigils, IsLegal, InSharedTab, EditExpense,
         Refused, MustBeIncome, ExpenseOf, SameKind

LEMMA EditedSettlement ==
  ASSUME NEW i \in IncomeRows, NEW tab, NEW line \in Lines, ~Refused(EditIncome(i, tab), line)
  PROVE  IncomeOf(EditIncome(i, tab), line).settlement = i.settlement
  BY DEF IncomeRows, Lines, Sigils, EditIncome, Refused, MustBeIncome, IncomeOf

\* The outcome of saving the line of a box, for either kind.
LEMMA SavingKnows ==
  ASSUME TypeOK, AllStamped, AllKnow, UNCHANGED tables, NEW w \in Windows,
         NEW user \in Users, NEW kind \in {"expense", "income"}, NEW id, NEW seen,
         NEW in, NEW line, NEW loaded,
         Saving(w, user, kind, id, seen, in, line, loaded),
         IF kind = "income" THEN IsIncome(id, loaded.createdAt)
                            ELSE IsExpense(id, loaded.createdAt),
         ~Refused(in, line) => Knows(Updating(user, kind, id, in, line, seen))
  PROVE  AllKnow'
<1> WindowsOK
  BY DEF TypeOK, WindowsOK
<1>1. CASE Goes(w, Idle)
  BY <1>1, IdleKnows, GoesKnows
<1>2. CASE Goes(w, Box(user, kind, id, loaded.createdAt))
  BY <1>2, BoxKnows, GoesKnows
<1>3. CASE ~Refused(in, line) /\ Goes(w, Updating(user, kind, id, in, line, seen))
  BY <1>3, GoesKnows
<1> QED BY <1>1, <1>2, <1>3 DEF Saving

LEMMA AddKnows ==
  ASSUME TypeOK, AllStamped, AllKnow, NEW w \in Windows,
         StartPayback(w) \/ AddPlain(w) \/ AddFromBox(w)
  PROVE  AllKnow'
<1> WindowsOK /\ WindowOK(windows[w])
  BY DEF TypeOK, WindowsOK
<1>1. CASE StartPayback(w)
  <2>1. PICK user \in Users, id \in DOMAIN expenses :
          Goes(w, Box(user, "payback", id, expenses[id].createdAt))
    BY <1>1 DEF StartPayback
  <2>2. Knows(Box(user, "payback", id, expenses[id].createdAt))
    BY LoadedRows, BoxKnows
  <2> QED BY <1>1, <2>1, <2>2, GoesKnows DEF StartPayback
<1>2. CASE AddPlain(w)
  <2>1. PICK user \in Users, tab \in BOOLEAN, line \in Lines :
          LET in == PlainAdd(user, tab \/ user = "carla") IN
          Goes(w, IF Refused(in, line) THEN Idle ELSE Adding(in, line, NoLink))
    BY <1>2 DEF AddPlain
  <2> DEFINE in == PlainAdd(user, tab \/ user = "carla")
  <2>2. in.linked = NoLink
    BY DEF PlainAdd
  <2>3. Knows(Adding(in, line, NoLink))
    <3> HIDE DEF in
    <3> QED BY <2>2 DEF Knows, Seen, Agrees, Scoped, Lookups, Adding, IncomeOf
  <2>4. UNCHANGED tables
    BY <1>2 DEF AddPlain
  <2> HIDE DEF in
  <2>5. CASE Refused(in, line)
    BY <2>1, <2>4, <2>5, IdleKnows, GoesKnows DEF in
  <2>6. CASE ~Refused(in, line)
    BY <2>1, <2>3, <2>4, <2>6, GoesKnows DEF in
  <2> QED BY <2>5, <2>6
<1>3. CASE AddFromBox(w)
  <2> DEFINE box == windows[w]
             parent == expenses[box.id]
             in == AddPayback(box.id, parent)
  <2>1. box \in Boxes /\ box.kind = "payback" /\ box.at = "box" /\ UNCHANGED tables
    BY <1>3, WindowKinds DEF AddFromBox, At
  <2>2. IsExpense(box.id, box.seen)
    BY <2>1 DEF AllKnow, Knows, Seen
  <2>3. CASE Goes(w, Idle)
    BY <2>1, <2>3, IdleKnows, GoesKnows
  <2>4. ASSUME Loads(box.user, box.id), Goes(w, [box EXCEPT !.seen = parent.createdAt])
        PROVE  AllKnow'
    <3>1. [box EXCEPT !.seen = parent.createdAt]
            = Box(box.user, "payback", box.id, parent.createdAt)
      BY <2>1 DEF Boxes, Box
    <3>2. IsExpense(box.id, parent.createdAt)
      BY <2>4, LoadedRows DEF Loads
    <3>3. Knows(Box(box.user, "payback", box.id, parent.createdAt))
      BY <3>2, BoxKnows
    <3> QED BY <2>1, <2>4, <3>1, <3>3, GoesKnows
  <2>5. ASSUME NEW line \in Lines, Goes(w, Adding(in, line, box.seen))
        PROVE  AllKnow'
    <3>1. in.linked = box.id
      BY DEF AddPayback
    <3>2. Knows(Adding(in, line, box.seen))
      <4> HIDE DEF in
      <4> QED BY <2>2, <3>1 DEF Knows, Seen, Agrees, Scoped, Lookups, Adding, IncomeOf
    <3> QED BY <2>1, <2>5, <3>2, GoesKnows
  <2> QED BY <1>3, <2>3, <2>4, <2>5 DEF AddFromBox
<1> QED BY <1>1, <1>2, <1>3

\* An income that was found, with the lookup of its parent before it.
LEMMA LookupKnows ==
  ASSUME TypeOK, AllStamped, NEW id \in DOMAIN incomes, incomes[id].linked # NoLink,
         NEW at \in {"openParent", "deleteParent"}, NEW user
  PROVE  Knows([at |-> at, user |-> user, id |-> id, income |-> incomes[id]])
  BY LoadedRows DEF Knows, Seen, Agrees, Scoped, Lookups

LEMMA OpenKnows ==
  ASSUME TypeOK, AllStamped, AllKnow, NEW w \in Windows,
         OpenExpense(w) \/ OpenIncome(w) \/ OpenParent(w)
  PROVE  AllKnow'
<1> WindowsOK /\ WindowOK(windows[w])
  BY DEF TypeOK, WindowsOK
<1>1. CASE OpenExpense(w)
  <2>1. PICK user \in Users, id \in DOMAIN expenses :
          Goes(w, Box(user, "expense", id, expenses[id].createdAt))
    BY <1>1 DEF OpenExpense
  <2>2. Knows(Box(user, "expense", id, expenses[id].createdAt))
    BY LoadedRows, BoxKnows
  <2> QED BY <1>1, <2>1, <2>2, GoesKnows DEF OpenExpense
<1>2. CASE OpenIncome(w)
  <2>1. PICK user \in Users, id \in DOMAIN incomes :
          \/ /\ incomes[id].linked # NoLink
             /\ Goes(w, [at |-> "openParent", user |-> user, id |-> id,
                         income |-> incomes[id]])
          \/ Goes(w, Box(user, "income", id, incomes[id].createdAt))
    BY <1>2 DEF OpenIncome
  <2>2. Knows(Box(user, "income", id, incomes[id].createdAt))
    BY LoadedRows, BoxKnows
  <2>3. incomes[id].linked # NoLink =>
          Knows([at |-> "openParent", user |-> user, id |-> id, income |-> incomes[id]])
    BY LookupKnows
  <2> QED BY <1>2, <2>1, <2>2, <2>3, GoesKnows DEF OpenIncome
<1>3. CASE OpenParent(w)
  <2> DEFINE s == windows[w]
  <2>1. s.at \in Lookups
    BY <1>3 DEF OpenParent, At, Lookups
  <2>2. Knows(Box(s.user, "income", s.id, s.income.createdAt))
    BY <2>1, BoxKnows DEF AllKnow, Knows, Seen
  <2> QED BY <1>3, <2>2, IdleKnows, GoesKnows DEF OpenParent
<1> QED BY <1>1, <1>2, <1>3

LEMMA SaveKnows ==
  ASSUME TypeOK, KindsInv, AllStamped, AllKnow, NEW w \in Windows,
         SaveExpense(w) \/ SaveIncome(w) \/ SaveParent(w)
  PROVE  AllKnow'
<1> WindowsOK /\ WindowOK(windows[w])
  BY DEF TypeOK, WindowsOK
<1>1. CASE SaveExpense(w)
  <2> DEFINE box == windows[w]
             e == expenses[box.id]
  <2>1. box \in Boxes /\ box.kind = "expense" /\ box.at = "box" /\ UNCHANGED tables
    BY <1>1, WindowKinds DEF SaveExpense, At
  <2>2. IsExpense(box.id, box.seen)
    BY <2>1 DEF AllKnow, Knows, Seen
  <2>3. CASE Goes(w, Idle)
    BY <2>1, <2>3, IdleKnows, GoesKnows
  <2>4. ASSUME Loads(box.user, box.id), NEW line \in Lines,
               Saving(w, box.user, "expense", box.id, box.seen, EditExpense(e), line, e)
        PROVE  AllKnow'
    <3>1. /\ e \in ExpenseRows /\ IsLegal(e) /\ IsExpense(box.id, e.createdAt)
          /\ box.user = "carla" => InSharedTab(e)
      BY <2>4, LoadedRows DEF Loads, TypeOK, IsTable, KindsInv, ExpenseKinds
    <3>2. ASSUME ~Refused(EditExpense(e), line)
          PROVE  Knows(Updating(box.user, "expense", box.id, EditExpense(e), line, box.seen))
      <4>1. Table(EditExpense(e), line) = "expense"
        BY <3>1, <3>2, EditedExpense
      <4>2. SameKind(ExpenseOf(EditExpense(e), line), e)
        BY <3>1, <3>2, EditedKinds
      <4> QED BY <2>2, <3>1, <4>1, <4>2
              DEF Updating, Knows, Seen, Agrees, Scoped, Lookups
    <3> QED BY <2>1, <2>4, <3>1, <3>2, SavingKnows DEF Boxes
  <2> QED BY <1>1, <2>3, <2>4 DEF SaveExpense
<1>2. CASE SaveIncome(w)
  <2> DEFINE box == windows[w]
             i == incomes[box.id]
             in == EditIncome(i, i.settlement)
  <2>1. box \in Boxes /\ box.kind = "income" /\ box.at = "box" /\ UNCHANGED tables
    BY <1>2, WindowKinds DEF SaveIncome, At
  <2>2. IsIncome(box.id, box.seen)
    BY <2>1 DEF AllKnow, Knows, Seen
  <2>3. CASE Goes(w, Idle)
    BY <2>1, <2>3, IdleKnows, GoesKnows
  <2>4. ASSUME box.id \in DOMAIN incomes, i.linked # NoLink, NEW line \in Lines,
               Goes(w, [at |-> "saveParent", user |-> box.user, id |-> box.id,
                        income |-> i, seen |-> box.seen, line |-> line])
        PROVE  AllKnow'
    <3> DEFINE s == [at |-> "saveParent", user |-> box.user, id |-> box.id,
                     income |-> i, seen |-> box.seen, line |-> line]
    <3>1. Knows(s)
      BY <2>2, <2>4, LoadedRows DEF Knows, Seen, Agrees, Scoped, Lookups
    <3> QED BY <2>1, <2>4, <3>1, GoesKnows
  <2>5. ASSUME box.id \in DOMAIN incomes, UnlinkedVisible(box.user, i), NEW line \in Lines,
               Saving(w, box.user, "income", box.id, box.seen, in, line, i)
        PROVE  AllKnow'
    <3>1. i \in IncomeRows /\ IsIncome(box.id, i.createdAt)
      BY <2>5, LoadedRows DEF TypeOK, IsTable
    <3>2. ASSUME ~Refused(in, line)
          PROVE  Knows(Updating(box.user, "income", box.id, in, line, box.seen))
      <4>1. Table(in, line) = "income" /\ IncomeOf(in, line).settlement = i.settlement
        BY <3>1, <3>2, EditedIncome, EditedSettlement
      <4> HIDE DEF in
      <4> QED BY <2>2, <2>5, <4>1
              DEF Updating, Knows, Seen, Agrees, Scoped, ScopedIncome, Lookups,
                  UnlinkedVisible
    <3> QED BY <2>1, <2>5, <3>1, <3>2, SavingKnows DEF Boxes
  <2> QED BY <1>2, <2>3, <2>4, <2>5 DEF SaveIncome
<1>3. CASE SaveParent(w)
  <2> DEFINE s == windows[w]
             in == EditIncome(s.income, expenses[s.income.linked].shared)
  <2>1. s \in ParentLookups /\ s.at = "saveParent" /\ UNCHANGED tables
    BY <1>3, WindowKinds DEF SaveParent, At
  <2>2. /\ IsIncome(s.id, s.seen) /\ IsIncome(s.id, s.income.createdAt)
        /\ s.income.linked # NoLink
        /\ s.id \in DOMAIN incomes => /\ s.income.linked = incomes[s.id].linked
                                      /\ s.income.settlement = incomes[s.id].settlement
    BY <2>1 DEF AllKnow, Knows, Seen, Agrees, Lookups
  <2>3. CASE Goes(w, Idle)
    BY <2>1, <2>3, IdleKnows, GoesKnows
  <2>4. ASSUME ParentVisible(s),
               Saving(w, s.user, "income", s.id, s.seen, in, s.line, s.income)
        PROVE  AllKnow'
    <3>1. s.income \in IncomeRows /\ s.line \in Lines
      BY <2>1 DEF ParentLookups
    <3>2. ASSUME ~Refused(in, s.line)
          PROVE  Knows(Updating(s.user, "income", s.id, in, s.line, s.seen))
      <4>1. Table(in, s.line) = "income" /\ IncomeOf(in, s.line).settlement = s.income.settlement
        BY <3>1, <3>2, EditedIncome, EditedSettlement
      <4> HIDE DEF in
      <4> QED BY <2>2, <2>4, <4>1
              DEF Updating, Knows, Seen, Agrees, Scoped, ScopedIncome, Lookups,
                  ParentVisible
    <3> QED BY <2>1, <2>2, <2>4, <3>2, SavingKnows DEF ParentLookups
  <2> QED BY <1>3, <2>3, <2>4 DEF SaveParent
<1> QED BY <1>1, <1>2, <1>3

LEMMA DeletingKnows ==
  ASSUME TypeOK, AllStamped, AllKnow, NEW w \in Windows,
         RequestDeleteExpense(w) \/ RequestDeleteIncome(w) \/ DeleteParent(w)
  PROVE  AllKnow'
<1> WindowsOK /\ WindowOK(windows[w])
  BY DEF TypeOK, WindowsOK
<1>1. CASE RequestDeleteExpense(w)
  <2>1. PICK user \in Users, id \in DOMAIN expenses :
          /\ Loads(user, id)
          /\ Goes(w, Deleting("deleteExpense", user, id, expenses[id]))
    BY <1>1 DEF RequestDeleteExpense
  <2>2. Knows(Deleting("deleteExpense", user, id, expenses[id]))
    BY <2>1, LoadedRows DEF Loads, Deleting, Knows, Seen, Agrees, Scoped, Lookups
  <2> QED BY <1>1, <2>1, <2>2, GoesKnows DEF RequestDeleteExpense
<1>2. CASE RequestDeleteIncome(w)
  <2>1. PICK user \in Users, id \in DOMAIN incomes :
          \/ /\ incomes[id].linked # NoLink
             /\ Goes(w, [at |-> "deleteParent", user |-> user, id |-> id,
                         income |-> incomes[id]])
          \/ /\ UnlinkedVisible(user, incomes[id])
             /\ Goes(w, Deleting("deleteIncome", user, id, incomes[id]))
    BY <1>2 DEF RequestDeleteIncome
  <2>2. UnlinkedVisible(user, incomes[id]) =>
          Knows(Deleting("deleteIncome", user, id, incomes[id]))
    BY LoadedRows DEF Deleting, Knows, Seen, Agrees, Scoped, ScopedIncome, Lookups,
                      UnlinkedVisible
  <2>3. incomes[id].linked # NoLink =>
          Knows([at |-> "deleteParent", user |-> user, id |-> id, income |-> incomes[id]])
    BY LookupKnows
  <2> QED BY <1>2, <2>1, <2>2, <2>3, GoesKnows DEF RequestDeleteIncome
<1>3. CASE DeleteParent(w)
  <2> DEFINE s == windows[w]
  <2>1. s.at \in Lookups /\ Knows(s)
    BY <1>3 DEF DeleteParent, At, Lookups, AllKnow
  <2>2. ParentVisible(s) => Knows(Deleting("deleteIncome", s.user, s.id, s.income))
    BY <2>1 DEF Deleting, Knows, Seen, Agrees, Scoped, ScopedIncome, Lookups, ParentVisible
  <2> QED BY <1>3, <2>2, IdleKnows, GoesKnows DEF DeleteParent
<1> QED BY <1>1, <1>2, <1>3
\* A state that writes no record of the tables has nothing to know.
LEMMA NothingToKnow ==
  ASSUME NEW s, s.at \in {"idle", "insertExpense", "listIncomes", "listForgivenesses",
                          "insertForgiveness"}
  PROVE  Knows(s)
  BY DEF Knows, Seen, Agrees, Scoped, Lookups

LEMMA ForgiveKnows ==
  ASSUME TypeOK, AllKnow, NEW w \in Windows, Forgive(w) \/ Abandon(w)
  PROVE  AllKnow'
<1> WindowsOK
  BY DEF TypeOK, WindowsOK
<1>1. CASE ListExpenses(w) \/ ListIncomes(w) \/ ListForgivenesses(w) \/ Abandon(w)
  <2>1. UNCHANGED tables
    BY <1>1 DEF ListExpenses, ListIncomes, ListForgivenesses, Abandon
  <2>2. \E s : Goes(w, s) /\ Knows(s)
    <3>1. CASE ListExpenses(w)
      BY <3>1, NothingToKnow DEF ListExpenses
    <3>2. CASE ListIncomes(w)
      BY <3>2, NothingToKnow DEF ListIncomes
    <3>3. CASE ListForgivenesses(w)
      <4>1. Goes(w, Idle) \/ \E amount : Goes(w, [at |-> "insertForgiveness", amount |-> amount])
        BY <3>3 DEF ListForgivenesses
      <4>2. \A amount : Knows([at |-> "insertForgiveness", amount |-> amount])
        BY NothingToKnow
      <4> QED BY <4>1, <4>2, IdleKnows
    <3>4. CASE Abandon(w)
      BY <3>4, IdleKnows DEF Abandon
    <3> QED BY <1>1, <3>1, <3>2, <3>3, <3>4
  <2> QED BY <2>1, <2>2, GoesKnows
<1>2. CASE InsertForgiveness(w) \/ DeleteForgiveness(w)
  <2>1. /\ UNCHANGED <<expenses, incomes>>
        /\ entered'.expense = entered.expense /\ entered'.income = entered.income
    BY <1>2 DEF InsertForgiveness, DeleteForgiveness, TypeOK
  <2>2. \A v \in Windows : windows'[v] = windows[v] \/ windows'[v] = Idle
    BY <1>2 DEF InsertForgiveness, DeleteForgiveness, Goes, WindowsOK
  <2>3. \A v \in Windows : Knows(windows'[v])
    BY <2>2, IdleKnows DEF AllKnow
  <2> QED
    BY <2>1, <2>3 DEF AllKnow, Knows, Seen, Agrees, Scoped, IsExpense, IsIncome, Holds,
                      ScopedIncome
<1> QED BY <1>1, <1>2 DEF Forgive

\* What the tables keep as long as no rowid is given again: a row under an old
\* rowid was there, with the same ordinal and kind.
RecordsKept ==
  /\ entered.expense <= entered'.expense /\ entered.income <= entered'.income
  /\ \A id \in DOMAIN expenses' : id <= entered.expense =>
       /\ id \in DOMAIN expenses
       /\ expenses'[id].createdAt = expenses[id].createdAt
       /\ SameKind(expenses'[id], expenses[id])
  /\ \A id \in DOMAIN incomes' : id <= entered.income =>
       /\ id \in DOMAIN incomes
       /\ incomes'[id].createdAt = incomes[id].createdAt
       /\ incomes'[id].linked = incomes[id].linked
       /\ incomes'[id].settlement = incomes[id].settlement

LEMMA KeptKnows ==
  ASSUME TypeOK, TypeOK', ReferentialIntegrity, ReferentialIntegrity', AllStamped, RecordsKept,
         NEW s, WindowOK(s), Knows(s)
  PROVE  Knows(s)'
<1> /\ entered.expense \in Nat /\ entered.income \in Nat
    /\ entered'.expense \in Nat /\ entered'.income \in Nat
  BY DEF TypeOK
<1> USE DEF Lookups
<1>1. ASSUME NEW id \in Ids, NEW seen
      PROVE  /\ IsExpense(id, seen) => IsExpense(id, seen)'
             /\ IsIncome(id, seen) => IsIncome(id, seen)'
  BY <1>1 DEF IsExpense, IsIncome, Holds, RecordsKept, Ids
<1>2. /\ s.at \in {"updateExpense", "deleteExpense", "updateIncome", "deleteIncome", "box"}
              \cup Lookups => s.id \in Ids
      /\ s.at = "insertIncome" /\ s.row.linked # NoLink => s.row.linked \in Ids
  BY WindowKinds DEF Boxes, ParentLookups, Inserts, Updates, Deletes, IncomeRows, Ids, NoLink
<1>3. Seen(s)'
  BY <1>1, <1>2 DEF Knows, Seen
<1>4. Agrees(s)'
  BY <1>2 DEF Knows, Seen, Agrees, IsExpense, IsIncome, RecordsKept, SameKind
<1>5. ASSUME NEW id \in DOMAIN incomes', id <= entered.income, ScopedIncome(incomes[id])
      PROVE  ScopedIncome(incomes[id])'
  <2>1. /\ id \in DOMAIN incomes
        /\ incomes'[id].linked = incomes[id].linked
        /\ incomes'[id].settlement = incomes[id].settlement
    BY <1>5 DEF RecordsKept
  <2>2. incomes[id].linked # NoLink =>
          /\ incomes[id].linked \in DOMAIN expenses' /\ incomes[id].linked <= entered.expense
    BY <2>1 DEF ReferentialIntegrity, AllStamped, Stamped
  <2> QED BY <1>5, <2>1, <2>2 DEF ScopedIncome, RecordsKept, SameKind
<1>6. Scoped(s)'
  <2>1. /\ s.at \in {"updateExpense", "deleteExpense"} => s.id <= entered.expense
        /\ s.at \in {"updateIncome", "deleteIncome"} => s.id <= entered.income
    BY DEF Knows, Seen, IsExpense, IsIncome
  <2>2. s.at \in {"updateIncome", "deleteIncome"} /\ s.user = "carla" /\ s.id \in DOMAIN incomes'
          => ScopedIncome(incomes[s.id])
    BY <2>1 DEF Knows, Scoped, RecordsKept
  <2>3. s.at \in {"updateExpense", "deleteExpense"} /\ s.user = "carla" /\ s.id \in DOMAIN expenses'
          => InSharedTab(expenses'[s.id])
    BY <2>1 DEF Knows, Scoped, RecordsKept, SameKind, InSharedTab
  <2> QED BY <1>5, <2>1, <2>2, <2>3 DEF Scoped
<1> QED BY <1>3, <1>4, <1>6 DEF Knows

\* A record is inserted under the number of rows entered, unless recycled'.
LEMMA RecordStepKeeps ==
  ASSUME TypeOK, AllStamped, AllKnow, NEW w \in Windows, RecordStep(w), ~recycled'
  PROVE  RecordsKept
<1> /\ entered.expense \in Nat /\ entered.income \in Nat
    /\ \A id \in DOMAIN expenses : expenses[id] \in ExpenseRows
    /\ \A id \in DOMAIN incomes : incomes[id] \in IncomeRows
  BY DEF TypeOK, IsTable
<1>1. CASE InsertExpense(w)
  <2>1. PICK id \in 1..(entered.expense + 1), row \in ExpenseRows :
          /\ expenses' = Put(expenses, id, row)
          /\ recycled' = (recycled \/ id # entered.expense + 1)
    BY <1>1, InsertedExpense
  <2>2. id = entered.expense + 1
    BY <2>1
  <2>3. UNCHANGED incomes /\ entered' = [entered EXCEPT !.expense = entered.expense + 1]
    BY <1>1, InsertedExpense
  <2>4. entered'.expense = entered.expense + 1 /\ entered'.income = entered.income
    BY <2>3 DEF TypeOK
  <2> QED BY <2>1, <2>2, <2>3, <2>4 DEF Put, RecordsKept, SameKind, TypeOK, IsTable, Ids
<1>2. CASE InsertIncome(w)
  <2>1. CASE UNCHANGED <<incomes, entered>>
    BY <1>2, <2>1, InsertedIncome DEF RecordsKept, SameKind
  <2>2. ASSUME NEW id \in 1..(entered.income + 1), NEW row \in IncomeRows,
               incomes' = Put(incomes, id, row),
               recycled' = (recycled \/ id # entered.income + 1),
               entered' = [entered EXCEPT !.income = entered.income + 1]
        PROVE  RecordsKept
    <3>1. id = entered.income + 1
      BY <2>2
    <3>2. entered'.income = entered.income + 1 /\ entered'.expense = entered.expense
      BY <2>2 DEF TypeOK
    <3>3. UNCHANGED expenses
      BY <1>2, InsertedIncome
    <3> QED BY <2>2, <3>1, <3>2, <3>3 DEF Put, RecordsKept, SameKind, TypeOK, IsTable, Ids
  <2> QED BY <1>2, <2>1, <2>2, InsertedIncome
<1>3. CASE UpdateExpense(w)
  <2> DEFINE s == windows[w]
  <2>1. CASE expenses' = expenses
    BY <1>3, <2>1, UpdatedExpense DEF RecordsKept, SameKind
  <2>2. ASSUME s.id \in DOMAIN expenses, NEW row \in ExpenseRows,
               row = [s.row EXCEPT !.createdAt = expenses[s.id].createdAt],
               row.createdAt = expenses[s.id].createdAt,
               expenses' = [expenses EXCEPT ![s.id] = row]
        PROVE  RecordsKept
    <3>1. SameKind(s.row, expenses[s.id]) /\ s.row \in ExpenseRows
      BY <1>3, <2>2, UpdatedExpense DEF AllKnow, Knows, Agrees
    <3>2. SameKind(row, expenses[s.id])
      BY <2>2, <3>1 DEF SameKind, ExpenseRows
    <3> HIDE DEF s
    <3> QED BY <1>3, <2>2, <3>2, UpdatedExpense DEF RecordsKept, SameKind
  <2> QED BY <1>3, <2>1, <2>2, UpdatedExpense
<1>4. CASE UpdateIncome(w)
  <2> DEFINE s == windows[w]
  <2>1. CASE incomes' = incomes
    <3>1. UNCHANGED <<expenses, entered>>
      BY <1>4, UpdatedIncome
    <3> QED BY <2>1, <3>1 DEF RecordsKept, SameKind
  <2>2. ASSUME s.id \in DOMAIN incomes, NEW row \in IncomeRows,
               row = [s.row EXCEPT !.createdAt = incomes[s.id].createdAt,
                                   !.linked = incomes[s.id].linked],
               row.createdAt = incomes[s.id].createdAt,
               incomes' = [incomes EXCEPT ![s.id] = row]
        PROVE  RecordsKept
    <3>1. s.row.settlement = incomes[s.id].settlement /\ s.row \in IncomeRows
      BY <1>4, <2>2, UpdatedIncome DEF AllKnow, Knows, Agrees
    <3>2. row.settlement = incomes[s.id].settlement /\ row.linked = incomes[s.id].linked
      BY <2>2, <3>1 DEF IncomeRows
    <3>3. UNCHANGED <<expenses, entered>>
      BY <1>4, UpdatedIncome
    <3> HIDE DEF s
    <3> QED BY <2>2, <3>2, <3>3 DEF RecordsKept, SameKind
  <2> QED BY <1>4, <2>1, <2>2, UpdatedIncome
<1>5. CASE DeleteExpense(w) \/ DeleteIncome(w)
  BY <1>5 DEF DeleteExpense, DeleteIncome, Drop, RecordsKept, SameKind
<1> QED BY <1>1, <1>2, <1>3, <1>4, <1>5 DEF RecordStep

LEMMA RecordStepKnows ==
  ASSUME TypeOK, TypeOK', ReferentialIntegrity, ReferentialIntegrity', AllStamped,
         Alone \/ ~recycled => AllKnow, Alone \/ ~recycled',
         NEW w \in Windows, RecordStep(w)
  PROVE  AllKnow'
<1>1. Goes(w, Idle) /\ DOMAIN windows = Windows
  BY DEF RecordStep, InsertExpense, InsertIncome, UpdateExpense, UpdateIncome,
         DeleteExpense, DeleteIncome, TypeOK
<1>2. Knows(Idle)'
  BY IdleKnows DEF Knows, Seen, Agrees, Scoped, Lookups, Idle
<1>3. windows'[w] = Idle
  BY <1>1 DEF Goes
<1>4. CASE Alone
  BY <1>2, <1>3, <1>4 DEF Alone, AllKnow
<1>5. CASE ~recycled'
  <2>1. ~recycled
    BY <1>5 DEF RecordStep, InsertExpense, InsertIncome, UpdateExpense, UpdateIncome,
                DeleteExpense, DeleteIncome
  <2>2. AllKnow /\ RecordsKept
    BY <1>5, <2>1, RecordStepKeeps
  <2>3. ASSUME NEW v \in Windows
        PROVE  Knows(windows[v])'
    <3>1. CASE v = w
      BY <1>2, <1>3, <3>1
    <3>2. CASE v # w
      <4>1. windows'[v] = windows[v] /\ WindowOK(windows[v]) /\ Knows(windows[v])
        BY <1>1, <2>2, <3>2 DEF Goes, TypeOK, AllKnow
      <4> QED BY <2>2, <4>1, KeptKnows
    <3> QED BY <3>1, <3>2
  <2> QED BY <2>3 DEF AllKnow
<1> QED BY <1>4, <1>5

\* A step of the ledger, with any windows.
LEMMA KnowStep ==
  ASSUME TypeOK, TypeOK', ReferentialIntegrity, ReferentialIntegrity', KindsInv, AllStamped,
         Alone \/ ~recycled => AllKnow, [Next]_vars
  PROVE  (Alone \/ ~recycled => AllKnow)'
<1> SUFFICES ASSUME Alone \/ ~recycled'
             PROVE  AllKnow'
  BY DEF Alone
<1>1. ASSUME NEW w \in Windows, RecordStep(w)
      PROVE  AllKnow'
  BY <1>1, RecordStepKnows
<1>2. ASSUME NEW w \in Windows, recycled' = recycled, Add(w) \/ Edit(w) \/ Delete(w), ~RecordStep(w)
      PROVE  AllKnow'
  BY <1>2, AddKnows, OpenKnows, SaveKnows, DeletingKnows DEF Add, Edit, Delete, RecordStep
<1>3. ASSUME NEW w \in Windows, Forgive(w) \/ Abandon(w)
      PROVE  AllKnow'
  BY <1>3, ForgiveKnows DEF Forgive, ListExpenses, ListIncomes, ListForgivenesses,
                            InsertForgiveness, DeleteForgiveness, Abandon, tables
<1>4. CASE DaysPass \/ UNCHANGED vars
  <2>1. UNCHANGED <<tables, windows>>
    BY <1>4 DEF DaysPass, vars, tables
  <2> QED
    BY <2>1 DEF AllKnow, Knows, Seen, Agrees, Scoped, IsExpense, IsIncome, Holds,
                ScopedIncome, tables
<1>5. ASSUME NEW w \in Windows, Add(w) \/ Edit(w) \/ Delete(w), ~RecordStep(w)
      PROVE  recycled' = recycled
  BY <1>5 DEF Add, StartPayback, AddPlain, AddFromBox, Edit, OpenExpense, OpenIncome,
              OpenParent, SaveExpense, SaveIncome, SaveParent, Delete, RequestDeleteExpense,
              RequestDeleteIncome, DeleteParent, RecordStep, tables
<1> QED BY <1>1, <1>2, <1>3, <1>4, <1>5 DEF Next

-----------------------------------------------------------------------------
(* A settlement is linked to nothing, also while it waits to be inserted. *)

IsUnlinkedSettlement(s) == s.at = "insertIncome" /\ s.row.settlement => s.row.linked = NoLink

LEMMA SubmittedIncome ==
  ASSUME NEW in, NEW line, NEW seen
  PROVE  IsUnlinkedSettlement(Adding(in, line, seen))
  BY DEF IsUnlinkedSettlement, Adding, IncomeOf

LEMMA GoesKeepsUnlinked ==
  ASSUME TypeOK, UnlinkedSettlements, NEW w \in Windows, NEW s, Goes(w, s),
         IsUnlinkedSettlement(s)
  PROVE  UnlinkedSettlements'
  BY DEF TypeOK, UnlinkedSettlements, IsUnlinkedSettlement, Goes, At

\* The states a step can leave a window in, as far as its inserts go.
LEMMA UnlinkedStep ==
  ASSUME TypeOK, UnlinkedSettlements, [Next]_vars
  PROVE  UnlinkedSettlements'
<1> USE DEF IsUnlinkedSettlement
<1>1. CASE UNCHANGED windows
  BY <1>1 DEF UnlinkedSettlements, At
<1>2. ASSUME NEW w \in Windows, NEW s, Goes(w, s), s.at # "insertIncome"
      PROVE  UnlinkedSettlements'
  BY <1>2, GoesKeepsUnlinked
<1>3. ASSUME NEW w \in Windows, Goes(w, Idle)
      PROVE  UnlinkedSettlements'
  BY <1>2, <1>3 DEF Idle
<1>4. ASSUME NEW w \in Windows, NEW user, NEW kind, NEW id, NEW seen,
             Goes(w, Box(user, kind, id, seen))
      PROVE  UnlinkedSettlements'
  BY <1>2, <1>4 DEF Box
<1>5. ASSUME NEW w \in Windows, NEW user, NEW kind, NEW id, NEW seen, NEW in, NEW line,
             NEW loaded, Saving(w, user, kind, id, seen, in, line, loaded)
      PROVE  UnlinkedSettlements'
  <2>1. Updating(user, kind, id, in, line, seen).at # "insertIncome"
    BY DEF Updating
  <2> QED BY <1>2, <1>3, <1>4, <1>5, <2>1 DEF Saving
<1>6. ASSUME NEW w \in Windows, Add(w)
      PROVE  UnlinkedSettlements'
  <2>1. CASE StartPayback(w)
    BY <1>4, <2>1 DEF StartPayback
  <2>2. CASE AddPlain(w)
    BY <1>3, <2>2, SubmittedIncome, GoesKeepsUnlinked DEF AddPlain
  <2>3. CASE AddFromBox(w)
    <3> DEFINE box == windows[w]
               parent == expenses[box.id]
    <3>1. box \in Boxes
      BY <2>3, WindowKinds DEF AddFromBox, At, TypeOK
    <3>2. [box EXCEPT !.seen = parent.createdAt].at # "insertIncome"
      BY <3>1 DEF Boxes
    <3> QED BY <1>2, <1>3, <2>3, <3>2, SubmittedIncome, GoesKeepsUnlinked DEF AddFromBox
  <2>4. CASE InsertExpense(w) \/ InsertIncome(w)
    BY <1>3, <2>4 DEF InsertExpense, InsertIncome
  <2> QED BY <1>6, <2>1, <2>2, <2>3, <2>4 DEF Add
<1>7. ASSUME NEW w \in Windows, Edit(w)
      PROVE  UnlinkedSettlements'
  <2>1. CASE OpenExpense(w) \/ OpenIncome(w) \/ OpenParent(w)
    BY <1>2, <1>3, <1>4, <2>1 DEF OpenExpense, OpenIncome, OpenParent
  <2>2. CASE SaveExpense(w) \/ SaveParent(w)
    BY <1>3, <1>5, <2>2 DEF SaveExpense, SaveParent
  <2>3. CASE SaveIncome(w)
    BY <1>2, <1>3, <1>5, <2>3 DEF SaveIncome
  <2>4. CASE UpdateExpense(w) \/ UpdateIncome(w)
    BY <1>3, <2>4 DEF UpdateExpense, UpdateIncome
  <2> QED BY <1>7, <2>1, <2>2, <2>3, <2>4 DEF Edit
<1>8. ASSUME NEW w \in Windows, Delete(w)
      PROVE  UnlinkedSettlements'
  BY <1>2, <1>3, <1>8 DEF Delete, RequestDeleteExpense, RequestDeleteIncome, DeleteParent,
                          DeleteExpense, DeleteIncome, Deleting
<1>9. ASSUME NEW w \in Windows, Forgive(w) \/ Abandon(w)
      PROVE  UnlinkedSettlements'
  BY <1>1, <1>2, <1>3, <1>9 DEF Forgive, ListExpenses, ListIncomes, ListForgivenesses,
                           InsertForgiveness, DeleteForgiveness, Abandon
<1> QED BY <1>1, <1>6, <1>7, <1>8, <1>9 DEF Next, DaysPass, vars

LEMMA KnowInvariant == Spec => []KnowInv
<1>1. KnowInv <=> UnlinkedSettlements /\ (Alone \/ ~recycled => AllKnow)
  BY DEF KnowInv, AllKnow
<1>2. Init => KnowInv
  BY IdleKnows DEF Init, KnowInv, UnlinkedSettlements, At, Idle
<1>3. /\ TypeOK /\ TypeOK' /\ ReferentialIntegrity /\ ReferentialIntegrity'
      /\ KindsInv /\ AllStamped /\ KnowInv /\ [Next]_vars
      => KnowInv'
  <2>1. KnowInv' <=> UnlinkedSettlements' /\ (Alone \/ ~recycled => AllKnow)'
    BY DEF KnowInv, AllKnow
  <2> QED BY <1>1, <2>1, KnowStep, UnlinkedStep
<1> QED BY <1>2, <1>3, TypeCorrect, IntegrityCorrect, KindsInvariant, StampedInvariant, PTL
        DEF Spec
\* A write reaches the record its author was looking at or none: for a single
\* window always, for any number of them until a rowid is given again.
THEOREM SeenCorrect ==
  Spec => /\ []WritesWhatWasSeenUnlessRecycled
          /\ [](Alone => WritesWhatWasSeen)
<1>1. KnowInv => (Alone \/ ~recycled => WritesWhatWasSeen)
  BY DEF KnowInv, Knows, Seen, IsExpense, IsIncome, WritesWhatWasSeen, At
<1>2. KnowInv => WritesWhatWasSeenUnlessRecycled /\ (Alone => WritesWhatWasSeen)
  BY <1>1 DEF WritesWhatWasSeenUnlessRecycled
<1> QED BY <1>2, KnowInvariant, PTL

\* What Carla is about to change is in the Shared tab at that moment, until a
\* rowid is given again.
THEOREM CarlaCorrect == Spec => []CarlaStaysInSharedTabUnlessRecycled
<1>1. TypeOK /\ KnowInv => CarlaStaysInSharedTabUnlessRecycled
  BY DEF TypeOK, KnowInv, Knows, Scoped, ScopedIncome, CarlaStaysInSharedTabUnlessRecycled,
         CarlaStaysInSharedTab
<1> QED BY <1>1, KnowInvariant, TypeCorrect, PTL

-----------------------------------------------------------------------------
(* The edit window, with a single browser window: the income a lookup has   *)
(* loaded is the one stored when the date is asked.                         *)

IsFreshLookup(s) == s.at \in Lookups => s.id \in DOMAIN incomes /\ s.income = incomes[s.id]

FreshLookups == \A w \in Windows : IsFreshLookup(windows[w])

LEMMA FreshStep ==
  ASSUME Alone, TypeOK, FreshLookups, [Next]_vars
  PROVE  FreshLookups'
<1> WindowsOK
  BY DEF TypeOK, WindowsOK
<1>1. CASE UNCHANGED <<windows, incomes>>
  BY <1>1 DEF FreshLookups, IsFreshLookup
<1>2. ASSUME NEW w \in Windows, NEW s, Goes(w, s), s.at \notin Lookups
      PROVE  FreshLookups'
  <2>1. windows'[w] = s
    BY <1>2 DEF Goes, WindowsOK
  <2> QED BY <1>2, <2>1 DEF Alone, FreshLookups, IsFreshLookup
<1>3. ASSUME NEW w \in Windows, Goes(w, Idle)
      PROVE  FreshLookups'
  BY <1>2, <1>3 DEF Idle, Lookups
<1>4. ASSUME NEW w \in Windows, NEW user, NEW kind, NEW id, NEW seen,
             Goes(w, Box(user, kind, id, seen))
      PROVE  FreshLookups'
  BY <1>2, <1>4 DEF Box, Lookups
<1>5. ASSUME NEW w \in Windows, NEW user, NEW kind, NEW id, NEW seen, NEW in, NEW line,
             NEW loaded, Saving(w, user, kind, id, seen, in, line, loaded)
      PROVE  FreshLookups'
  <2>1. Updating(user, kind, id, in, line, seen).at \notin Lookups
    BY DEF Updating, Lookups
  <2> QED BY <1>2, <1>3, <1>4, <1>5, <2>1 DEF Saving
<1>6. ASSUME NEW w \in Windows, NEW s, Goes(w, s), UNCHANGED incomes,
             s.id \in DOMAIN incomes, s.income = incomes[s.id]
      PROVE  FreshLookups'
  <2>1. windows'[w] = s
    BY <1>6 DEF Goes, WindowsOK
  <2> QED BY <1>6, <2>1 DEF Alone, FreshLookups, IsFreshLookup
<1>7. ASSUME NEW w \in Windows, Add(w)
      PROVE  FreshLookups'
  <2>1. CASE StartPayback(w)
    BY <1>4, <2>1 DEF StartPayback
  <2>2. \A in, line, seen : Adding(in, line, seen).at \notin Lookups
    BY DEF Adding, Lookups
  <2>3. CASE AddPlain(w)
    BY <1>2, <1>3, <2>2, <2>3 DEF AddPlain
  <2>4. CASE AddFromBox(w)
    <3> DEFINE box == windows[w]
               parent == expenses[box.id]
    <3>1. box \in Boxes
      BY <2>4, WindowKinds DEF AddFromBox, At, TypeOK
    <3>2. [box EXCEPT !.seen = parent.createdAt].at \notin Lookups
      BY <3>1 DEF Boxes, Lookups
    <3> QED BY <1>2, <1>3, <2>2, <2>4, <3>2 DEF AddFromBox
  <2>5. CASE InsertExpense(w) \/ InsertIncome(w)
    BY <1>3, <2>5 DEF InsertExpense, InsertIncome
  <2> QED BY <1>7, <2>1, <2>3, <2>4, <2>5 DEF Add
<1>8. ASSUME NEW w \in Windows, Edit(w)
      PROVE  FreshLookups'
  <2>1. CASE OpenExpense(w) \/ OpenParent(w)
    BY <1>3, <1>4, <2>1 DEF OpenExpense, OpenParent
  <2>2. CASE OpenIncome(w)
    BY <1>4, <1>6, <2>2 DEF OpenIncome, tables
  <2>3. CASE SaveExpense(w) \/ SaveParent(w)
    BY <1>3, <1>5, <2>3 DEF SaveExpense, SaveParent
  <2>4. CASE SaveIncome(w)
    BY <1>3, <1>5, <1>6, <2>4 DEF SaveIncome, tables
  <2>5. CASE UpdateExpense(w) \/ UpdateIncome(w)
    BY <1>3, <2>5 DEF UpdateExpense, UpdateIncome
  <2> QED BY <1>8, <2>1, <2>2, <2>3, <2>4, <2>5 DEF Edit
<1>9. ASSUME NEW w \in Windows, Delete(w)
      PROVE  FreshLookups'
  <2>1. \A at \in {"deleteExpense", "deleteIncome"} : \A user, id, row :
          Deleting(at, user, id, row).at \notin Lookups
    BY DEF Deleting, Lookups
  <2>2. CASE RequestDeleteExpense(w) \/ DeleteParent(w)
    BY <1>2, <1>3, <2>1, <2>2 DEF RequestDeleteExpense, DeleteParent
  <2>3. CASE RequestDeleteIncome(w)
    BY <1>2, <1>6, <2>1, <2>3 DEF RequestDeleteIncome, tables
  <2>4. CASE DeleteExpense(w) \/ DeleteIncome(w)
    BY <1>3, <2>4 DEF DeleteExpense, DeleteIncome
  <2> QED BY <1>9, <2>2, <2>3, <2>4 DEF Delete
<1>10. ASSUME NEW w \in Windows, Forgive(w) \/ Abandon(w)
       PROVE  FreshLookups'
  BY <1>1, <1>2, <1>3, <1>10
  DEF Forgive, ListExpenses, ListIncomes, ListForgivenesses, InsertForgiveness,
      DeleteForgiveness, Abandon, Lookups
<1>11. CASE DaysPass \/ UNCHANGED vars
  BY <1>1, <1>11 DEF DaysPass, tables, vars
<1> QED BY <1>7, <1>8, <1>9, <1>10, <1>11 DEF Next

Frozen ==
  \A w \in Windows :
    LET s == windows'[w] IN
    /\ windows[w].at # "updateExpense" /\ s.at = "updateExpense"
         => Editable(expenses[s.id].date)
    /\ windows[w].at # "updateIncome" /\ s.at = "updateIncome"
         => Editable(incomes[s.id].date)

LEMMA FrozenStep ==
  ASSUME Alone, TypeOK, KindsInv, FreshLookups, [Next]_vars
  PROVE  Frozen
<1> DEFINE Kept(s) == /\ s.at = "updateExpense" => Editable(expenses[s.id].date)
                      /\ s.at = "updateIncome" => Editable(incomes[s.id].date)
<1> WindowsOK
  BY DEF TypeOK, WindowsOK
<1>1. CASE UNCHANGED windows
  BY <1>1 DEF Frozen
<1>2. ASSUME NEW w \in Windows, NEW s, Goes(w, s), Kept(s)
      PROVE  Frozen
  <2>1. windows'[w] = s
    BY <1>2 DEF Goes, WindowsOK
  <2> QED BY <1>2, <2>1 DEF Alone, Frozen
<1>3. ASSUME NEW w \in Windows, NEW s, Goes(w, s), s.at \notin {"updateExpense", "updateIncome"}
      PROVE  Frozen
  BY <1>2, <1>3
<1> HIDE DEF Kept
<1>4. ASSUME NEW w \in Windows, Goes(w, Idle)
      PROVE  Frozen
  BY <1>3, <1>4 DEF Idle
<1>5. ASSUME NEW w \in Windows, NEW user, NEW kind, NEW id, NEW seen,
             Goes(w, Box(user, kind, id, seen))
      PROVE  Frozen
  BY <1>3, <1>5 DEF Box
<1>6. ASSUME NEW w \in Windows, NEW user, NEW kind, NEW id, NEW seen, NEW in, NEW line,
             NEW loaded, Saving(w, user, kind, id, seen, in, line, loaded),
             ~Refused(in, line) =>
                IF Table(in, line) = "income" THEN loaded = incomes[id]
                                              ELSE loaded = expenses[id]
      PROVE  Frozen
  <2>1. CASE Editable(loaded.date) /\ ~Refused(in, line)
    <3>1. Kept(Updating(user, kind, id, in, line, seen))
      BY <1>6, <2>1 DEF Kept, Updating
    <3> QED BY <1>2, <1>6, <2>1, <3>1 DEF Saving
  <2> QED BY <1>4, <1>5, <1>6, <2>1 DEF Saving
<1>7. ASSUME NEW w \in Windows, Add(w)
      PROVE  Frozen
  <2>1. CASE StartPayback(w)
    BY <1>5, <2>1 DEF StartPayback
  <2>2. \A in, line, seen :
          Adding(in, line, seen).at \notin {"updateExpense", "updateIncome"}
    BY DEF Adding
  <2>3. CASE AddPlain(w)
    BY <1>3, <1>4, <2>2, <2>3 DEF AddPlain
  <2>4. CASE AddFromBox(w)
    <3> DEFINE box == windows[w]
               parent == expenses[box.id]
    <3>1. box \in Boxes
      BY <2>4, WindowKinds DEF AddFromBox, At, TypeOK
    <3>2. [box EXCEPT !.seen = parent.createdAt].at \notin {"updateExpense", "updateIncome"}
      BY <3>1 DEF Boxes
    <3> QED BY <1>3, <1>4, <2>2, <2>4, <3>2 DEF AddFromBox
  <2>5. CASE InsertExpense(w) \/ InsertIncome(w)
    BY <1>4, <2>5 DEF InsertExpense, InsertIncome
  <2> QED BY <1>7, <2>1, <2>3, <2>4, <2>5 DEF Add
<1>8. ASSUME NEW w \in Windows, Edit(w)
      PROVE  Frozen
  <2>1. CASE OpenExpense(w) \/ OpenParent(w)
    BY <1>4, <1>5, <2>1 DEF OpenExpense, OpenParent
  <2>2. CASE OpenIncome(w)
    BY <1>3, <1>5, <2>2 DEF OpenIncome
  <2>3. CASE SaveExpense(w)
    <3> DEFINE box == windows[w]
               e == expenses[box.id]
    <3>1. CASE Goes(w, Idle)
      BY <1>4, <3>1
    <3>2. ASSUME Loads(box.user, box.id), NEW line \in Lines,
                 Saving(w, box.user, "expense", box.id, box.seen, EditExpense(e), line, e)
          PROVE  Frozen
      <4>1. e \in ExpenseRows /\ IsLegal(e)
        BY <3>2 DEF Loads, TypeOK, IsTable, KindsInv, ExpenseKinds
      <4>2. ~Refused(EditExpense(e), line) => Table(EditExpense(e), line) = "expense"
        BY <4>1, EditedExpense
      <4> QED BY <1>6, <3>2, <4>2
    <3> QED BY <2>3, <3>1, <3>2 DEF SaveExpense
  <2>4. CASE SaveIncome(w)
    <3> DEFINE box == windows[w]
               i == incomes[box.id]
               in == EditIncome(i, i.settlement)
    <3>1. CASE Goes(w, Idle)
      BY <1>4, <3>1
    <3>2. ASSUME box.id \in DOMAIN incomes, NEW line \in Lines,
                 Saving(w, box.user, "income", box.id, box.seen, in, line, i)
          PROVE  Frozen
      <4>1. ~Refused(in, line) => Table(in, line) = "income"
        BY <3>2, EditedIncome DEF TypeOK, IsTable
      <4> QED BY <1>6, <3>2, <4>1
    <3>3. ASSUME NEW s, Goes(w, s), s.at = "saveParent"
          PROVE  Frozen
      BY <1>3, <3>3
    <3> QED BY <2>4, <3>1, <3>2, <3>3 DEF SaveIncome
  <2>5. CASE SaveParent(w)
    <3> DEFINE s == windows[w]
               in == EditIncome(s.income, expenses[s.income.linked].shared)
    <3>1. /\ s \in ParentLookups /\ s.at = "saveParent"
          /\ s.id \in DOMAIN incomes /\ s.income = incomes[s.id]
      BY <2>5, WindowKinds DEF SaveParent, At, TypeOK, FreshLookups, IsFreshLookup, Lookups
    <3>2. CASE Goes(w, Idle)
      BY <1>4, <3>2
    <3>3. CASE Saving(w, s.user, "income", s.id, s.seen, in, s.line, s.income)
      <4>1. s.income \in IncomeRows /\ s.line \in Lines
        BY <3>1 DEF ParentLookups
      <4>2. ~Refused(in, s.line) => Table(in, s.line) = "income"
        BY <4>1, EditedIncome
      <4> QED BY <1>6, <3>1, <3>3, <4>2
    <3> QED BY <2>5, <3>2, <3>3 DEF SaveParent
  <2>6. CASE UpdateExpense(w) \/ UpdateIncome(w)
    BY <1>4, <2>6 DEF UpdateExpense, UpdateIncome
  <2> QED BY <1>8, <2>1, <2>2, <2>3, <2>4, <2>5, <2>6 DEF Edit
<1>9. ASSUME NEW w \in Windows, Delete(w)
      PROVE  Frozen
  <2>1. \A at \in {"deleteExpense", "deleteIncome"} : \A user, id, row :
          Deleting(at, user, id, row).at \notin {"updateExpense", "updateIncome"}
    BY DEF Deleting
  <2>2. CASE RequestDeleteExpense(w) \/ DeleteParent(w)
    BY <1>3, <1>4, <2>1, <2>2 DEF RequestDeleteExpense, DeleteParent
  <2>3. CASE RequestDeleteIncome(w)
    BY <1>3, <2>1, <2>3 DEF RequestDeleteIncome
  <2>4. CASE DeleteExpense(w) \/ DeleteIncome(w)
    BY <1>4, <2>4 DEF DeleteExpense, DeleteIncome
  <2> QED BY <1>9, <2>2, <2>3, <2>4 DEF Delete
<1>10. ASSUME NEW w \in Windows, Forgive(w) \/ Abandon(w)
       PROVE  Frozen
  BY <1>1, <1>3, <1>4, <1>10
  DEF Forgive, ListExpenses, ListIncomes, ListForgivenesses, InsertForgiveness,
      DeleteForgiveness, Abandon
<1>11. CASE DaysPass \/ UNCHANGED vars
  BY <1>1, <1>11 DEF DaysPass, vars
<1> QED BY <1>7, <1>8, <1>9, <1>10, <1>11 DEF Next

\* With one window, a record past the edit window is never edited, however
\* long ago its box was opened and whatever day the line names.
THEOREM FrozenCorrect ==
  ASSUME Alone
  PROVE  Spec => OldRecordsAreFrozen
<1>1. Init => FreshLookups
  BY DEF Init, FreshLookups, IsFreshLookup, Idle, Lookups
<1>2. TypeOK /\ FreshLookups /\ [Next]_vars => FreshLookups'
  BY FreshStep
<1>3. TypeOK /\ KindsInv /\ FreshLookups /\ [Next]_vars => [Frozen]_vars
  BY FrozenStep
<1>4. OldRecordsAreFrozen <=> [][Frozen]_vars
  BY DEF OldRecordsAreFrozen, Frozen
<1> QED BY <1>1, <1>2, <1>3, <1>4, TypeCorrect, KindsInvariant, PTL DEF Spec
-----------------------------------------------------------------------------
(* The book behind the tables.  ByCreation re-keys a stamped table by the   *)
(* ordinals of its rows, and commutes with what the statements do to it.    *)

Ordinals(table) == {table[id].createdAt : id \in DOMAIN table}

Distinct(table) ==
  \A a, b \in DOMAIN table : table[a].createdAt = table[b].createdAt => a = b

LEMMA RowByCreation ==
  ASSUME NEW table, Distinct(table)
  PROVE  /\ DOMAIN ByCreation(table) = Ordinals(table)
         /\ \A id \in DOMAIN table : ByCreation(table)[table[id].createdAt] = table[id]
<1>1. ASSUME NEW id \in DOMAIN table
      PROVE  RowCreated(table, table[id].createdAt) = table[id]
  BY DEF RowCreated, Distinct
<1> QED BY <1>1 DEF ByCreation, Ordinals

\* A function over the ordinals with these rows is the table by creation.
LEMMA IsByCreation ==
  ASSUME NEW table, Distinct(table), NEW S, NEW f, f = [n \in S |-> f[n]],
         S = Ordinals(table),
         \A id \in DOMAIN table : f[table[id].createdAt] = table[id]
  PROVE  ByCreation(table) = f
<1>1. \A n \in S : RowCreated(table, n) = f[n]
  <2> TAKE n \in S
  <2>1. PICK id \in DOMAIN table : n = table[id].createdAt
    BY DEF Ordinals
  <2>2. RowCreated(table, n) = table[id]
    BY <2>1 DEF RowCreated, Distinct
  <2> QED BY <2>1, <2>2
<1> QED BY <1>1 DEF ByCreation, Ordinals

LEMMA PutByCreation ==
  ASSUME NEW table, Distinct(table), NEW id, id \notin DOMAIN table, NEW row,
         row.createdAt \notin Ordinals(table)
  PROVE  ByCreation(Put(table, id, row)) = Put(ByCreation(table), row.createdAt, row)
<1> DEFINE new == Put(table, id, row)
           f == Put(ByCreation(table), row.createdAt, row)
<1>1. /\ DOMAIN new = DOMAIN table \cup {id} /\ new[id] = row
      /\ \A x \in DOMAIN table : new[x] = table[x]
  BY DEF Put
<1>2. Distinct(new)
  BY <1>1 DEF Distinct, Ordinals
<1>3. Ordinals(new) = Ordinals(table) \cup {row.createdAt}
  BY <1>1 DEF Ordinals
<1>4. /\ f = [n \in Ordinals(new) |-> f[n]] /\ f[row.createdAt] = row
      /\ \A n \in Ordinals(table) : f[n] = ByCreation(table)[n]
  BY <1>3, RowByCreation DEF Put
<1>5. \A x \in DOMAIN table : f[table[x].createdAt] = table[x]
  BY <1>4, RowByCreation DEF Ordinals
<1> HIDE DEF new, f
<1>6. \A x \in DOMAIN new : f[new[x].createdAt] = new[x]
  BY <1>1, <1>4, <1>5
<1>7. ByCreation(new) = f
  BY <1>2, <1>4, <1>6, IsByCreation
<1> QED BY <1>7 DEF new, f

LEMMA DropByCreation ==
  ASSUME NEW table, Distinct(table), NEW ids
  PROVE  ByCreation(Drop(table, ids)) =
           Drop(ByCreation(table), {table[id].createdAt : id \in ids \cap DOMAIN table})
<1> DEFINE new == Drop(table, ids)
           struck == {table[id].createdAt : id \in ids \cap DOMAIN table}
           f == Drop(ByCreation(table), struck)
<1>1. DOMAIN new = DOMAIN table \ ids /\ \A x \in DOMAIN new : new[x] = table[x]
  BY DEF Drop
<1>2. Distinct(new)
  BY <1>1 DEF Distinct
<1>3. Ordinals(new) = Ordinals(table) \ struck
  BY <1>1 DEF Ordinals, Distinct
<1>4. /\ f = [n \in Ordinals(new) |-> f[n]]
      /\ \A n \in Ordinals(new) : f[n] = ByCreation(table)[n]
  BY <1>3, RowByCreation DEF Drop
<1> HIDE DEF new, f
<1>5. \A x \in DOMAIN new : f[new[x].createdAt] = new[x]
  <2> TAKE x \in DOMAIN new
  <2>1. x \in DOMAIN table /\ new[x] = table[x] /\ new[x].createdAt \in Ordinals(new)
    BY <1>1 DEF Ordinals
  <2> QED BY <1>4, <2>1, RowByCreation
<1>6. ByCreation(new) = f
  BY <1>2, <1>4, <1>5, IsByCreation
<1> QED BY <1>6 DEF new, f

Overwrite(table, id, row) == [table EXCEPT ![id] = row]

LEMMA OverwriteByCreation ==
  ASSUME NEW table, Distinct(table), NEW id \in DOMAIN table, NEW row,
         row.createdAt = table[id].createdAt
  PROVE  ByCreation(Overwrite(table, id, row)) =
           Overwrite(ByCreation(table), row.createdAt, row)
<1> USE DEF Overwrite
<1> DEFINE new == Overwrite(table, id, row)
           f == Overwrite(ByCreation(table), row.createdAt, row)
<1>1. /\ DOMAIN new = DOMAIN table /\ new[id] = row
      /\ \A x \in DOMAIN table : x # id => new[x] = table[x]
  OBVIOUS
<1>2. Distinct(new)
  BY <1>1 DEF Distinct
<1>3. Ordinals(new) = Ordinals(table)
  BY <1>1 DEF Ordinals
<1>4. /\ f = [n \in Ordinals(new) |-> f[n]] /\ f[row.createdAt] = row
      /\ \A n \in Ordinals(new) : n # row.createdAt => f[n] = ByCreation(table)[n]
  BY <1>3, RowByCreation DEF ByCreation, Ordinals
<1> HIDE DEF new, f
<1>5. \A x \in DOMAIN new : f[new[x].createdAt] = new[x]
  <2> TAKE x \in DOMAIN new
  <2>1. x \in DOMAIN table /\ new[x].createdAt \in Ordinals(new)
    BY <1>1 DEF Ordinals
  <2>2. CASE x = id
    BY <1>1, <1>4, <2>2
  <2>3. CASE x # id
    <3>1. new[x] = table[x] /\ table[x].createdAt # row.createdAt
      BY <1>1, <2>1, <2>3 DEF Distinct
    <3> QED BY <1>4, <2>1, <3>1, RowByCreation
  <2> QED BY <2>2, <2>3
<1>6. ByCreation(new) = f
  BY <1>2, <1>3, <1>4, <1>5, IsByCreation
<1> QED BY <1>6 DEF new, f
\* The incomes with the link of each turned into its parent's ordinal.
WithParent(exps, i) ==
  [i EXCEPT !.linked = IF i.linked = NoLink THEN NoLink ELSE exps[i.linked].createdAt]

LinkedTo(incs, exps) == [id \in DOMAIN incs |-> WithParent(exps, incs[id])]

LEMMA ParentedRow ==
  ASSUME NEW exps, NEW i \in IncomeRows
  PROVE  LET p == WithParent(exps, i)
         IN  /\ p = [createdAt |-> i.createdAt, date |-> i.date, amount |-> i.amount,
                     linked |-> p.linked, settlement |-> i.settlement]
             /\ p.createdAt = i.createdAt
             /\ p.linked = IF i.linked = NoLink THEN NoLink ELSE exps[i.linked].createdAt
  BY DEF WithParent, IncomeRows

LEMMA LinkedRows ==
  ASSUME NEW incs, NEW exps, IsTable(incs, IncomeRows), Distinct(incs)
  PROVE  /\ DOMAIN LinkedTo(incs, exps) = DOMAIN incs
         /\ \A id \in DOMAIN incs : /\ LinkedTo(incs, exps)[id] = WithParent(exps, incs[id])
                                    /\ WithParent(exps, incs[id]).createdAt = incs[id].createdAt
         /\ Distinct(LinkedTo(incs, exps))
         /\ Ordinals(LinkedTo(incs, exps)) = Ordinals(incs)
<1>1. /\ DOMAIN LinkedTo(incs, exps) = DOMAIN incs
      /\ \A id \in DOMAIN incs : LinkedTo(incs, exps)[id] = WithParent(exps, incs[id])
  BY DEF LinkedTo
<1>2. \A id \in DOMAIN incs : WithParent(exps, incs[id]).createdAt = incs[id].createdAt
  BY ParentedRow DEF IsTable
<1>3. Distinct(LinkedTo(incs, exps))
  BY <1>1, <1>2 DEF Distinct
<1>4. Ordinals(LinkedTo(incs, exps)) = Ordinals(incs)
  BY <1>1, <1>2 DEF Ordinals
<1> QED BY <1>1, <1>2, <1>3, <1>4

LinkBook(incs, exps) ==
  [n \in Ordinals(incs) |-> WithParent(exps, RowCreated(incs, n))]

LEMMA LinkedBook ==
  ASSUME NEW incs, NEW exps, IsTable(incs, IncomeRows), Distinct(incs)
  PROVE  LinkBook(incs, exps) = ByCreation(LinkedTo(incs, exps))
<1> DEFINE f == LinkBook(incs, exps)
           table == LinkedTo(incs, exps)
<1>1. f = [n \in Ordinals(incs) |-> f[n]]
  BY DEF LinkBook
<1>2. \A id \in DOMAIN table : f[table[id].createdAt] = table[id]
  <2> TAKE id \in DOMAIN table
  <2>1. /\ id \in DOMAIN incs /\ table[id] = WithParent(exps, incs[id])
        /\ table[id].createdAt = incs[id].createdAt
    BY LinkedRows
  <2>2. RowCreated(incs, incs[id].createdAt) = incs[id]
    BY <2>1 DEF RowCreated, Distinct
  <2> QED BY <2>1, <2>2 DEF LinkBook, Ordinals
<1> HIDE DEF f
<1>3. f = ByCreation(table)
  BY <1>1, <1>2, LinkedRows, IsByCreation
<1> QED BY <1>3 DEF f

LEMMA LinkedByCreationIs ==
  /\ LinkedByCreation = LinkBook(incomes, expenses)
  /\ LinkedByCreation' = LinkBook(incomes', expenses')
  BY DEF LinkedByCreation, LinkBook, Ordinals, WithParent

LEMMA LinkedPut ==
  ASSUME NEW incs, NEW exps, NEW id, NEW row
  PROVE  LinkedTo(Put(incs, id, row), exps)
           = Put(LinkedTo(incs, exps), id, WithParent(exps, row))
  BY DEF LinkedTo, Put

LEMMA LinkedDrop ==
  ASSUME NEW incs, NEW exps, NEW ids
  PROVE  LinkedTo(Drop(incs, ids), exps) = Drop(LinkedTo(incs, exps), ids)
  BY DEF LinkedTo, Drop

LEMMA LinkedOverwrite ==
  ASSUME NEW incs, NEW exps, NEW id \in DOMAIN incs, NEW row
  PROVE  LinkedTo(Overwrite(incs, id, row), exps)
           = Overwrite(LinkedTo(incs, exps), id, WithParent(exps, row))
  BY DEF LinkedTo, Overwrite

\* An expense that nothing is linked to, or whose ordinal stays, changes no link.
LEMMA LinkedSame ==
  ASSUME NEW incs, NEW exps, NEW exps2,
         \A id \in DOMAIN incs : incs[id].linked # NoLink =>
           exps2[incs[id].linked].createdAt = exps[incs[id].linked].createdAt
  PROVE  LinkedTo(incs, exps2) = LinkedTo(incs, exps)
  BY DEF LinkedTo, WithParent
-----------------------------------------------------------------------------
(* Each store call is a step of the book. *)

LEMMA BookOperators ==
  /\ \A table, id, row : Book!Put(table, id, row) = Put(table, id, row)
  /\ \A table, ids : Book!Drop(table, ids) = Drop(table, ids)
  /\ Book!NoLink = NoLink /\ Book!Users = Users
  BY DEF Book!Put, Put, Book!Drop, Drop, Book!NoLink, NoLink, Book!Users, Users

LEMMA OrdinalsAreDistinct ==
  ASSUME TypeOK, AllStamped
  PROVE  /\ Distinct(expenses) /\ Distinct(incomes) /\ Distinct(forgivenesses)
         /\ entered.expense + 1 \notin Ordinals(expenses)
         /\ entered.income + 1 \notin Ordinals(incomes)
         /\ NoLink \notin Ordinals(expenses)
         /\ LinkedByCreation = ByCreation(LinkedTo(incomes, expenses))
<1>1. Distinct(expenses) /\ Distinct(incomes) /\ Distinct(forgivenesses)
  BY DEF AllStamped, Stamped, Distinct
<1>2. /\ entered.expense + 1 \notin Ordinals(expenses)
      /\ entered.income + 1 \notin Ordinals(incomes)
      /\ NoLink \notin Ordinals(expenses)
  BY DEF TypeOK, AllStamped, Stamped, Ordinals, NoLink
<1>3. LinkedByCreation = ByCreation(LinkedTo(incomes, expenses))
  BY <1>1, LinkedByCreationIs, LinkedBook DEF TypeOK
<1> QED BY <1>1, <1>2, <1>3

LEMMA EnterExpenseStep ==
  ASSUME TypeOK, ReferentialIntegrity, KindsInv, AllStamped, NEW w \in Windows, InsertExpense(w)
  PROVE  Book!EnterExpense
<1> DEFINE n == entered.expense + 1
<1>1. PICK id \in 1..n, row \in ExpenseRows :
        /\ row = [windows[w].row EXCEPT !.createdAt = n]
        /\ row.createdAt = n
        /\ id \notin DOMAIN expenses
        /\ expenses' = Put(expenses, id, row)
  BY InsertedExpense
<1>2. /\ windows[w].row \in ExpenseRows
      /\ windows[w].at = "insertExpense"
      /\ entered' = [entered EXCEPT !.expense = n]
      /\ UNCHANGED <<incomes, forgivenesses>>
  BY InsertedExpense
<1> HIDE DEF n
<1>3. ByCreation(expenses') = Put(ByCreation(expenses), n, row)
  BY <1>1, OrdinalsAreDistinct, PutByCreation DEF n
<1>4. LinkedByCreation' = LinkedByCreation
  <2>1. \A i \in DOMAIN incomes : incomes[i].linked # NoLink =>
          expenses'[incomes[i].linked].createdAt = expenses[incomes[i].linked].createdAt
    BY <1>1 DEF ReferentialIntegrity, Put
  <2>2. LinkedTo(incomes, expenses') = LinkedTo(incomes, expenses)
    BY <2>1, LinkedSame
  <2> QED BY <1>2, <2>2, OrdinalsAreDistinct, LinkedByCreationIs, LinkedBook DEF TypeOK
<1>5. IsLegal(row)
  BY <1>1, <1>2 DEF KindsInv, PendingKinds, IsPendingKind, IsLegal, ExpenseRows
<1>6. row = [createdAt |-> n, date |-> row.date, amount |-> row.amount,
             shared |-> row.shared, paidBy |-> row.paidBy, settlement |-> row.settlement]
  BY <1>1 DEF ExpenseRows
<1>7. /\ row.date \in Dates /\ row.amount \in Amounts /\ row.shared \in BOOLEAN
      /\ row.paidBy \in Users /\ row.settlement \in BOOLEAN
  BY <1>1 DEF ExpenseRows
<1> QED BY <1>2, <1>3, <1>4, <1>5, <1>6, <1>7, BookOperators
        DEF Book!EnterExpense, Book!LegalExpense, IsLegal, n

LEMMA EnterIncomeStep ==
  ASSUME TypeOK, UnlinkedSettlements, AllStamped, NEW w \in Windows, InsertIncome(w)
  PROVE  Book!EnterIncome \/ UNCHANGED Book!book
<1> DEFINE n == entered.income + 1
           parent == WithParent(expenses, windows[w].row).linked
<1>1. CASE UNCHANGED <<incomes, entered>>
  <2>1. LinkedByCreation' = LinkedByCreation
    BY <1>1, InsertedIncome, LinkedByCreationIs
  <2> QED BY <1>1, <2>1, InsertedIncome DEF Book!book
<1>2. ASSUME windows[w].row.linked \in DOMAIN expenses \cup {NoLink},
             NEW id \in 1..n, NEW row \in IncomeRows,
             row = [windows[w].row EXCEPT !.createdAt = n], row.createdAt = n,
             id \notin DOMAIN incomes, incomes' = Put(incomes, id, row),
             entered' = [entered EXCEPT !.income = n]
      PROVE  Book!EnterIncome
  <2>1. /\ windows[w].row \in IncomeRows /\ windows[w].at = "insertIncome"
        /\ UNCHANGED <<expenses, forgivenesses>>
    BY InsertedIncome
  <2>2. row.linked = windows[w].row.linked /\ row.settlement = windows[w].row.settlement
    BY <1>2, <2>1 DEF IncomeRows
  <2> DEFINE new == WithParent(expenses, row)
             p == new.linked
  <2>3. /\ new = [createdAt |-> n, date |-> row.date, amount |-> row.amount,
                  linked |-> p, settlement |-> row.settlement]
        /\ new.createdAt = n
        /\ p = IF row.linked = NoLink THEN NoLink ELSE expenses[row.linked].createdAt
    <3>1. row.createdAt = n
      BY <1>2
    <3> HIDE DEF n
    <3> QED BY <3>1, ParentedRow
  <2> HIDE DEF new, n
  <2>4. ByCreation(LinkedTo(incomes', expenses')) = Put(LinkedByCreation, n, new)
    <3> DEFINE table == LinkedTo(incomes, expenses)
    <3>1. Distinct(table) /\ id \notin DOMAIN table /\ n \notin Ordinals(table)
      BY <1>2, OrdinalsAreDistinct, LinkedRows DEF TypeOK, n
    <3>2. LinkedTo(incomes', expenses') = Put(table, id, new)
      BY <1>2, <2>1, LinkedPut DEF new
    <3> HIDE DEF table
    <3>3. ByCreation(Put(table, id, new)) = Put(ByCreation(table), n, new)
      BY <2>3, <3>1, PutByCreation
    <3> QED BY <3>2, <3>3, OrdinalsAreDistinct DEF table
  <2>5. LinkedByCreation' = ByCreation(LinkedTo(incomes', expenses'))
    <3>1. IsTable(incomes', IncomeRows)
      BY <1>2, PutKeepsTable DEF TypeOK, Ids
    <3>2. Distinct(incomes')
      BY <1>2, OrdinalsAreDistinct DEF Distinct, Put, Ordinals, n
    <3> QED BY <3>1, <3>2, LinkedByCreationIs, LinkedBook
  <2>6. p \in Ordinals(expenses) \cup {NoLink} /\ (row.settlement => p = NoLink)
    BY <1>2, <2>1, <2>2, <2>3 DEF UnlinkedSettlements, At, Ordinals
  <2>7. row.date \in Dates /\ row.amount \in Amounts /\ row.settlement \in BOOLEAN
    BY <1>2 DEF IncomeRows
  <2>8. DOMAIN ByCreation(expenses) = Ordinals(expenses)
    BY OrdinalsAreDistinct, RowByCreation
  <2> HIDE DEF p
  <2> QED BY <1>2, <2>1, <2>3, <2>4, <2>5, <2>6, <2>7, <2>8, BookOperators
          DEF Book!EnterIncome, n
<1> QED BY <1>1, <1>2, InsertedIncome
Dated(row, date, amount) == [row EXCEPT !.date = date, !.amount = amount]

\* An update that keeps a record's kind amends its date and amount.
LEMMA AmendedExpense ==
  ASSUME NEW old \in ExpenseRows, NEW new \in ExpenseRows,
         new.createdAt = old.createdAt, SameKind(new, old)
  PROVE  new = Dated(old, new.date, new.amount)
  BY DEF ExpenseRows, SameKind, Dated

LEMMA AmendedIncome ==
  ASSUME NEW exps, NEW old \in IncomeRows, NEW new \in IncomeRows,
         new.createdAt = old.createdAt, new.linked = old.linked,
         new.settlement = old.settlement
  PROVE  WithParent(exps, new)
           = Dated(WithParent(exps, old), new.date, new.amount)
  BY DEF WithParent, IncomeRows, Dated

\* Amending a record in place is overwriting it.
LEMMA AmendedIs ==
  ASSUME NEW table, NEW n, NEW date, NEW amount
  PROVE  Book!Amended(table, n, date, amount)
           = Overwrite(table, n, Dated(table[n], date, amount))
  BY DEF Book!Amended, Overwrite, Dated

LEMMA AmendExpenseStep ==
  ASSUME TypeOK, ReferentialIntegrity, AllStamped, AllKnow, NEW w \in Windows, UpdateExpense(w)
  PROVE  Book!AmendExpense \/ UNCHANGED Book!book
<1> DEFINE s == windows[w]
           n == expenses[s.id].createdAt
<1>0. UNCHANGED <<incomes, forgivenesses, entered>>
  BY UpdatedExpense
<1>1. CASE expenses' = expenses
  BY <1>0, <1>1, LinkedByCreationIs DEF Book!book
<1>2. ASSUME s.id \in DOMAIN expenses, NEW row \in ExpenseRows,
             row = [s.row EXCEPT !.createdAt = n], row.createdAt = n,
             expenses' = [expenses EXCEPT ![s.id] = row]
      PROVE  Book!AmendExpense
  <2>1. s.row \in ExpenseRows /\ SameKind(s.row, expenses[s.id]) /\ expenses[s.id] \in ExpenseRows
    BY <1>2, UpdatedExpense DEF AllKnow, Knows, Agrees, TypeOK, IsTable
  <2>2. SameKind(row, expenses[s.id])
    BY <1>2, <2>1 DEF SameKind, ExpenseRows
  <2>3. row = Dated(expenses[s.id], row.date, row.amount)
    BY <1>2, <2>1, <2>2, AmendedExpense
  <2>4. ByCreation(expenses') = Overwrite(ByCreation(expenses), n, row)
    <3>1. ByCreation(Overwrite(expenses, s.id, row))
            = Overwrite(ByCreation(expenses), row.createdAt, row)
      BY <1>2, OrdinalsAreDistinct, OverwriteByCreation
    <3> QED BY <1>2, <3>1 DEF Overwrite
  <2>5. n \in DOMAIN ByCreation(expenses) /\ ByCreation(expenses)[n] = expenses[s.id]
    BY <1>2, OrdinalsAreDistinct, RowByCreation DEF Ordinals
  <2>6. LinkedByCreation' = LinkedByCreation
    <3>1. \A i \in DOMAIN incomes : incomes[i].linked # NoLink =>
            expenses'[incomes[i].linked].createdAt = expenses[incomes[i].linked].createdAt
      BY <1>2 DEF ReferentialIntegrity
    <3>2. LinkedTo(incomes, expenses') = LinkedTo(incomes, expenses)
      BY <3>1, LinkedSame
    <3> QED BY <1>0, <3>2, OrdinalsAreDistinct, LinkedByCreationIs, LinkedBook DEF TypeOK
  <2>7. row.date \in Dates /\ row.amount \in Amounts
    BY <1>2 DEF ExpenseRows
  <2>8. ByCreation(expenses') = Book!Amended(ByCreation(expenses), n, row.date, row.amount)
    BY <2>3, <2>4, <2>5, AmendedIs
  <2> HIDE DEF n
  <2> QED BY <1>0, <2>5, <2>6, <2>7, <2>8 DEF Book!AmendExpense
<1> QED BY <1>1, <1>2, UpdatedExpense

LEMMA AmendIncomeStep ==
  ASSUME TypeOK, AllStamped, AllKnow, NEW w \in Windows, UpdateIncome(w)
  PROVE  Book!AmendIncome \/ UNCHANGED Book!book
<1> DEFINE s == windows[w]
           n == incomes[s.id].createdAt
<1>0. UNCHANGED <<expenses, forgivenesses, entered>>
  BY UpdatedIncome
<1>1. CASE incomes' = incomes
  BY <1>0, <1>1, LinkedByCreationIs DEF Book!book
<1>2. ASSUME s.id \in DOMAIN incomes, NEW row \in IncomeRows,
             row = [s.row EXCEPT !.createdAt = n, !.linked = incomes[s.id].linked],
             row.createdAt = n,
             incomes' = [incomes EXCEPT ![s.id] = row]
      PROVE  Book!AmendIncome
  <2> DEFINE table == LinkedTo(incomes, expenses)
             new == WithParent(expenses, row)
  <2>1. /\ s.row \in IncomeRows /\ s.row.settlement = incomes[s.id].settlement
        /\ incomes[s.id] \in IncomeRows
    BY <1>2, UpdatedIncome DEF AllKnow, Knows, Agrees, TypeOK, IsTable
  <2>2. row.settlement = incomes[s.id].settlement /\ row.linked = incomes[s.id].linked
    BY <1>2, <2>1 DEF IncomeRows
  <2>3. new = Dated(WithParent(expenses, incomes[s.id]), row.date, row.amount)
    <3>1. row \in IncomeRows /\ row.createdAt = incomes[s.id].createdAt
      BY <1>2
    <3> HIDE DEF s, n
    <3> QED BY <2>1, <2>2, <3>1, AmendedIncome
  <2>4. new.createdAt = row.createdAt
    BY ParentedRow
  <2>5. /\ Distinct(table) /\ s.id \in DOMAIN table
        /\ table[s.id].createdAt = n /\ table[s.id] = WithParent(expenses, incomes[s.id])
        /\ n \in Ordinals(table)
    <3>1. Distinct(incomes) /\ IsTable(incomes, IncomeRows)
      BY OrdinalsAreDistinct DEF TypeOK
    <3> QED BY <1>2, <3>1, LinkedRows DEF Ordinals
  <2>6. LinkedTo(incomes', expenses') = Overwrite(table, s.id, new)
    <3>1. LinkedTo(Overwrite(incomes, s.id, row), expenses) = Overwrite(table, s.id, new)
      BY <1>2, LinkedOverwrite
    <3>2. incomes' = Overwrite(incomes, s.id, row)
      BY <1>2 DEF Overwrite
    <3> QED BY <1>0, <3>1, <3>2
  <2> HIDE DEF table, new
  <2>7. ByCreation(Overwrite(table, s.id, new)) = Overwrite(ByCreation(table), n, new)
    BY <1>2, <2>4, <2>5, OverwriteByCreation
  <2>8. LinkedByCreation' = ByCreation(LinkedTo(incomes', expenses'))
    <3>1. IsTable(incomes', IncomeRows)
      BY <1>2, OverwriteKeepsTable DEF TypeOK
    <3>2. Distinct(incomes')
      BY <1>2, OrdinalsAreDistinct DEF Distinct
    <3> QED BY <3>1, <3>2, LinkedByCreationIs, LinkedBook
  <2>9. LinkedByCreation = ByCreation(table)
    BY OrdinalsAreDistinct DEF table
  <2>10. n \in DOMAIN LinkedByCreation /\ LinkedByCreation[n] = WithParent(expenses, incomes[s.id])
    BY <2>5, <2>9, RowByCreation
  <2>11. LinkedByCreation' = Book!Amended(LinkedByCreation, n, row.date, row.amount)
    BY <2>3, <2>6, <2>7, <2>8, <2>9, <2>10, AmendedIs DEF new
  <2>12. row.date \in Dates /\ row.amount \in Amounts
    BY <1>2 DEF IncomeRows
  <2> HIDE DEF n
  <2> QED BY <1>0, <2>10, <2>11, <2>12 DEF Book!AmendIncome
<1> QED BY <1>1, <1>2, UpdatedIncome
\* The paybacks of an expense by rowid are those by ordinal.
LEMMA PaybacksByCreation ==
  ASSUME TypeOK, ReferentialIntegrity, AllStamped, NEW id \in DOMAIN expenses
  PROVE  LET table == LinkedTo(incomes, expenses)
         IN  Book!PaybacksOf(expenses[id].createdAt)
               = {table[i].createdAt : i \in PaybacksOf(id) \cap DOMAIN table}
<1> DEFINE table == LinkedTo(incomes, expenses)
           n == expenses[id].createdAt
<1>1. Distinct(incomes) /\ IsTable(incomes, IncomeRows) /\ Distinct(expenses)
      /\ n # NoLink /\ LinkedByCreation = ByCreation(table)
  BY OrdinalsAreDistinct DEF TypeOK, Ordinals
<1>2. /\ DOMAIN table = DOMAIN incomes /\ Distinct(table)
      /\ \A i \in DOMAIN incomes :
           table[i].linked = IF incomes[i].linked = NoLink THEN NoLink
                             ELSE expenses[incomes[i].linked].createdAt
  <2>1. \A i \in DOMAIN incomes :
          /\ incomes[i] \in IncomeRows /\ table[i] = WithParent(expenses, incomes[i])
    BY <1>1, LinkedRows DEF IsTable
  <2> QED BY <1>1, <2>1, LinkedRows, ParentedRow
<1>3. \A i \in DOMAIN incomes : table[i].linked = n <=> incomes[i].linked = id
  BY <1>1, <1>2 DEF ReferentialIntegrity, Distinct, TypeOK, IsTable, Ids, NoLink
<1> HIDE DEF table, n
<1>4. /\ DOMAIN LinkedByCreation = Ordinals(table)
      /\ \A i \in DOMAIN table : LinkedByCreation[table[i].createdAt] = table[i]
  BY <1>1, <1>2, RowByCreation
<1>5. Book!PaybacksOf(n) = {table[i].createdAt : i \in PaybacksOf(id) \cap DOMAIN table}
  <2>1. ASSUME NEW m \in Ordinals(table), LinkedByCreation[m].linked = n
        PROVE  m \in {table[i].createdAt : i \in PaybacksOf(id) \cap DOMAIN table}
    <3>1. PICK i \in DOMAIN table : m = table[i].createdAt
      BY DEF Ordinals
    <3>2. i \in PaybacksOf(id)
      BY <1>2, <1>3, <1>4, <2>1, <3>1 DEF PaybacksOf
    <3> QED BY <3>1, <3>2
  <2>2. ASSUME NEW i \in PaybacksOf(id) \cap DOMAIN table
        PROVE  table[i].createdAt \in Book!PaybacksOf(n)
    <3>1. table[i].createdAt \in Ordinals(table) /\ table[i].linked = n
      BY <1>2, <1>3 DEF PaybacksOf, Ordinals
    <3> QED BY <1>4, <3>1 DEF Book!PaybacksOf
  <2>3. Book!PaybacksOf(n) = {m \in Ordinals(table) : LinkedByCreation[m].linked = n}
    BY <1>4 DEF Book!PaybacksOf
  <2> QED BY <2>1, <2>2, <2>3
<1> QED BY <1>5 DEF table, n

LEMMA StrikeExpenseStep ==
  ASSUME TypeOK, ReferentialIntegrity, AllStamped, NEW w \in Windows, DeleteExpense(w)
  PROVE  Book!StrikeExpense \/ UNCHANGED Book!book
<1> DEFINE id == windows[w].id
           n == expenses[id].createdAt
           table == LinkedTo(incomes, expenses)
<1>0. /\ id \in Ids
      /\ expenses' = Drop(expenses, {id}) /\ incomes' = Drop(incomes, PaybacksOf(id))
      /\ UNCHANGED <<forgivenesses, entered>>
  BY WindowKinds DEF DeleteExpense, At, TypeOK, Deletes
<1> HIDE DEF id
<1>1. CASE id \notin DOMAIN expenses
  <2>1. PaybacksOf(id) = {}
    BY <1>0, <1>1 DEF PaybacksOf, ReferentialIntegrity, Ids, NoLink
  <2>2. expenses' = expenses /\ incomes' = incomes
    BY <1>0, <1>1, <2>1 DEF Drop, TypeOK, IsTable
  <2> QED BY <1>0, <2>2, LinkedByCreationIs DEF Book!book
<1>2. CASE id \in DOMAIN expenses
  <2>1. ByCreation(expenses') = Drop(ByCreation(expenses), {n})
    <3>1. {expenses[x].createdAt : x \in {id} \cap DOMAIN expenses} = {n}
      BY <1>2
    <3>2. Distinct(expenses)
      BY OrdinalsAreDistinct
    <3> QED BY <1>0, <3>1, <3>2, DropByCreation
  <2>2. LinkedTo(incomes', expenses') = Drop(table, PaybacksOf(id))
    <3>1. \A i \in DOMAIN incomes' : incomes'[i].linked # NoLink =>
            expenses'[incomes'[i].linked].createdAt = expenses[incomes'[i].linked].createdAt
      BY <1>0 DEF Drop, PaybacksOf, ReferentialIntegrity
    <3>2. LinkedTo(incomes', expenses') = LinkedTo(incomes', expenses)
      BY <3>1, LinkedSame
    <3> QED BY <1>0, <3>2, LinkedDrop
  <2>3. LinkedByCreation' = ByCreation(LinkedTo(incomes', expenses'))
    <3>1. IsTable(incomes', IncomeRows)
      BY <1>0, DropKeepsTable DEF TypeOK
    <3>2. Distinct(incomes')
      BY <1>0, OrdinalsAreDistinct DEF Distinct, Drop
    <3> QED BY <3>1, <3>2, LinkedByCreationIs, LinkedBook
  <2>4. Distinct(table) /\ LinkedByCreation = ByCreation(table)
    BY OrdinalsAreDistinct, LinkedRows DEF TypeOK
  <2>5. Book!PaybacksOf(n) = {table[i].createdAt : i \in PaybacksOf(id) \cap DOMAIN table}
    BY <1>2, PaybacksByCreation
  <2> HIDE DEF table
  <2>6. LinkedByCreation' = Drop(LinkedByCreation, Book!PaybacksOf(n))
    BY <2>2, <2>3, <2>4, <2>5, DropByCreation
  <2>7. n \in DOMAIN ByCreation(expenses)
    BY <1>2, OrdinalsAreDistinct, RowByCreation DEF Ordinals
  <2> HIDE DEF n
  <2> QED BY <1>0, <2>1, <2>6, <2>7, BookOperators DEF Book!StrikeExpense
<1> QED BY <1>1, <1>2

LEMMA StrikeIncomeStep ==
  ASSUME TypeOK, AllStamped, NEW w \in Windows, DeleteIncome(w)
  PROVE  Book!StrikeIncome \/ UNCHANGED Book!book
<1> DEFINE id == windows[w].id
           n == incomes[id].createdAt
           table == LinkedTo(incomes, expenses)
<1>0. incomes' = Drop(incomes, {id}) /\ UNCHANGED <<expenses, forgivenesses, entered>>
  BY DEF DeleteIncome
<1> HIDE DEF id
<1>1. CASE id \notin DOMAIN incomes
  <2>1. incomes' = incomes
    BY <1>0, <1>1 DEF Drop, TypeOK, IsTable
  <2> QED BY <1>0, <2>1, LinkedByCreationIs DEF Book!book
<1>2. CASE id \in DOMAIN incomes
  <2>1. LinkedTo(incomes', expenses') = Drop(table, {id})
    BY <1>0, LinkedDrop
  <2>2. LinkedByCreation' = ByCreation(LinkedTo(incomes', expenses'))
    <3>1. IsTable(incomes', IncomeRows)
      BY <1>0, DropKeepsTable DEF TypeOK
    <3>2. Distinct(incomes')
      BY <1>0, OrdinalsAreDistinct DEF Distinct, Drop
    <3> QED BY <3>1, <3>2, LinkedByCreationIs, LinkedBook
  <2>3. /\ Distinct(table) /\ LinkedByCreation = ByCreation(table)
        /\ id \in DOMAIN table /\ table[id].createdAt = n
    BY <1>2, OrdinalsAreDistinct, LinkedRows DEF TypeOK
  <2> HIDE DEF table, n
  <2>4. {table[x].createdAt : x \in {id} \cap DOMAIN table} = {n}
    BY <2>3
  <2>5. LinkedByCreation' = Drop(LinkedByCreation, {n})
    BY <2>1, <2>2, <2>3, <2>4, DropByCreation
  <2>6. n \in DOMAIN LinkedByCreation
    BY <2>3, RowByCreation DEF Ordinals
  <2> QED BY <1>0, <2>5, <2>6, BookOperators DEF Book!StrikeIncome
<1> QED BY <1>1, <1>2

LEMMA UndoForgivenessStep ==
  ASSUME TypeOK, AllStamped, NEW w \in Windows, DeleteForgiveness(w)
  PROVE  Book!UndoForgiveness
<1>1. PICK id \in DOMAIN forgivenesses : forgivenesses' = Drop(forgivenesses, {id})
  BY DEF DeleteForgiveness
<1> DEFINE n == forgivenesses[id].createdAt
<1>2. Distinct(forgivenesses)
  BY OrdinalsAreDistinct
<1>3. {forgivenesses[x].createdAt : x \in {id} \cap DOMAIN forgivenesses} = {n}
  OBVIOUS
<1>4. ByCreation(forgivenesses') = Drop(ByCreation(forgivenesses), {n})
  BY <1>1, <1>2, <1>3, DropByCreation
<1>5. n \in DOMAIN ByCreation(forgivenesses)
  BY <1>2, RowByCreation DEF Ordinals
<1>6. UNCHANGED <<expenses, incomes, entered>>
  BY DEF DeleteForgiveness
<1>7. LinkedByCreation' = LinkedByCreation
  BY <1>6, LinkedByCreationIs
<1> HIDE DEF n
<1> QED BY <1>4, <1>5, <1>6, <1>7, BookOperators DEF Book!UndoForgiveness

\* The refinement of a step, forgiving apart.
LEMMA BookSteps ==
  ASSUME TypeOK, ReferentialIntegrity, KindsInv, AllStamped, KnowInv, [Next]_vars,
         Alone \/ ~recycled'
  PROVE  \/ \E w \in Windows : InsertForgiveness(w)
         \/ Book!Next \/ UNCHANGED Book!book
<1>1. CASE UNCHANGED <<expenses, incomes, forgivenesses, entered>>
  BY <1>1, LinkedByCreationIs DEF Book!book
<1>2. ASSUME NEW w \in Windows, RecordStep(w)
      PROVE  Book!Next \/ UNCHANGED Book!book
  <2>1. UnlinkedSettlements
    BY DEF KnowInv
  <2>2. UpdateExpense(w) \/ UpdateIncome(w) => AllKnow
    BY DEF UpdateExpense, UpdateIncome, KnowInv, AllKnow
  <2> QED
    BY <1>2, <2>1, <2>2, EnterExpenseStep, EnterIncomeStep, AmendExpenseStep, AmendIncomeStep,
       StrikeExpenseStep, StrikeIncomeStep DEF RecordStep, Book!Next
<1>3. ASSUME NEW w \in Windows, DeleteForgiveness(w)
      PROVE  Book!Next
  BY <1>3, UndoForgivenessStep DEF Book!Next
<1> QED BY <1>1, <1>2, <1>3, TableSteps

LEMMA BookInit ==
  ASSUME Init
  PROVE  Book!Init
<1>1. DOMAIN NoRows = {} /\ Book!NoRows = NoRows
  BY DEF NoRows, Book!NoRows
<1>2. ByCreation(NoRows) = NoRows
  BY <1>1, SMT DEF ByCreation, NoRows
<1>3. LinkedByCreation = NoRows
  BY <1>1, SMT DEF LinkedByCreation, Init, NoRows
<1> QED BY <1>1, <1>2, <1>3 DEF Init, Book!Init

\* With any number of windows the tables are the book of module RecordBook,
\* until a rowid is given again and with forgivenesses left aside.
THEOREM BookCorrect == Spec => KeepsTheBook
<1>1. TypeOK /\ ReferentialIntegrity /\ KindsInv /\ AllStamped /\ KnowInv /\ [Next]_vars
        => [BookStep]_vars
  BY BookSteps DEF BookStep, ForgivesOne, InsertForgiveness, TypeOK
<1>2. KeepsTheBook <=> [][BookStep]_vars
  BY DEF KeepsTheBook
<1> QED BY <1>1, <1>2, TypeCorrect, IntegrityCorrect, KindsInvariant, StampedInvariant,
           KnowInvariant, PTL DEF Spec

-----------------------------------------------------------------------------
(* The balance.  The book's is the tables': the records are the same under  *)
(* other keys, and a sum does not depend on the keys.                       *)

LEMMA StampedIsFinite ==
  ASSUME NEW table, NEW n \in Nat, DOMAIN table \subseteq Ids, Stamped(table, n)
  PROVE  IsFiniteSet(DOMAIN table)
<1>1. DOMAIN table \subseteq 1..n
  BY DEF Stamped, Ids
<1> QED BY <1>1, FS_Interval, FS_Subset

LEMMA TablesAreFinite ==
  ASSUME TypeOK, AllStamped
  PROVE  /\ IsFiniteSet(DOMAIN expenses) /\ IsFiniteSet(DOMAIN incomes)
         /\ IsFiniteSet(DOMAIN forgivenesses)
  BY StampedIsFinite DEF TypeOK, AllStamped, IsTable

LEMMA StoredAmounts ==
  ASSUME TypeOK, AllStamped
  PROVE  HasAmounts(expenses) /\ HasAmounts(incomes) /\ HasAmounts(forgivenesses)
<1>1. Amounts \subseteq Int /\ PositiveCents \subseteq Int
  BY EntryAssumption DEF PositiveCents
<1> QED BY <1>1, TablesAreFinite
        DEF TypeOK, IsTable, ExpenseRows, IncomeRows, ForgivenessRows, HasAmounts

LEMMA BookAmounts ==
  ASSUME NEW table, NEW ids
  PROVE  Book!AmountsOf(table, ids) = AmountsOf(table, ids)
  BY Zenon DEF Book!AmountsOf, AmountsOf, Book!MapThenSumSet, MapThenSumSet,
               Book!MapThenFoldSet, MapThenFoldSet

LEMMA BookNetCost ==
  ASSUME NEW es, NEW is, NEW id
  PROVE  Book!NetCost(es, is, id) = NetCost(es, is, id)
  BY BookAmounts DEF Book!NetCost, NetCost

LEMMA BookOwed ==
  ASSUME NEW es, NEW is, NEW fs
  PROVE  Book!OwedByCarla(es, is, fs) = OwedByCarla(es, is, fs)
<1>1. \A payer : Book!MapThenSumSet(LAMBDA id : Book!NetCost(es, is, id), PaidBy(es, payer))
                   = MapThenSumSet(LAMBDA id : NetCost(es, is, id), PaidBy(es, payer))
  BY BookNetCost, Zenon DEF Book!MapThenSumSet, MapThenSumSet,
                            Book!MapThenFoldSet, MapThenFoldSet
<1>2. Book!OwedByJavi2(es, is) = OwedByJavi2(es, is)
  BY <1>1, BookAmounts, Zenon DEF Book!OwedByJavi2, OwedByJavi2, PaidBy
<1>3. \A n : Book!Rounded(n) = Rounded(n)
  BY DEF Book!Rounded, Rounded
<1> QED BY <1>2, <1>3, BookAmounts DEF Book!OwedByCarla, OwedByCarla

LEMMA AmountsByCreation ==
  ASSUME NEW table, Distinct(table), HasAmounts(table), NEW n \in Nat,
         \A id \in DOMAIN table : table[id].createdAt \in 1..n
  PROVE  HasAmounts(ByCreation(table))
<1>1. /\ DOMAIN ByCreation(table) = Ordinals(table)
      /\ \A id \in DOMAIN table : ByCreation(table)[table[id].createdAt] = table[id]
  BY RowByCreation
<1>2. Ordinals(table) \subseteq 1..n
  BY DEF Ordinals
<1>3. IsFiniteSet(Ordinals(table))
  <2>1. IsFiniteSet(1..n)
    BY FS_Interval
  <2> QED BY <1>2, <2>1, FS_Subset
<1>4. \A m \in Ordinals(table) : ByCreation(table)[m].amount \in Int
  BY <1>1 DEF Ordinals, HasAmounts
<1> QED BY <1>1, <1>3, <1>4 DEF HasAmounts

LEMMA LinkedAmounts ==
  ASSUME TypeOK, AllStamped
  PROVE  /\ HasAmounts(LinkedTo(incomes, expenses))
         /\ \A id \in DOMAIN incomes :
              LET row == LinkedTo(incomes, expenses)[id]
              IN  /\ row.amount = incomes[id].amount /\ row.settlement = incomes[id].settlement
                  /\ row.createdAt = incomes[id].createdAt
                  /\ row.linked = IF incomes[id].linked = NoLink THEN NoLink
                                  ELSE expenses[incomes[id].linked].createdAt
<1>1. \A id \in DOMAIN incomes : incomes[id] \in IncomeRows
  BY DEF TypeOK, IsTable
<1>2. \A id \in DOMAIN incomes :
        LET row == LinkedTo(incomes, expenses)[id]
        IN  /\ row.amount = incomes[id].amount /\ row.settlement = incomes[id].settlement
            /\ row.createdAt = incomes[id].createdAt
            /\ row.linked = IF incomes[id].linked = NoLink THEN NoLink
                            ELSE expenses[incomes[id].linked].createdAt
  BY <1>1 DEF LinkedTo, WithParent, IncomeRows
<1>3. DOMAIN LinkedTo(incomes, expenses) = DOMAIN incomes /\ HasAmounts(incomes)
  BY StoredAmounts DEF LinkedTo
<1> QED BY <1>2, <1>3 DEF HasAmounts

LEMMA OwedInBook ==
  ASSUME TypeOK, AllStamped, ReferentialIntegrity
  PROVE  /\ OwedByCarla(ByCreation(expenses), LinkedByCreation, ByCreation(forgivenesses)) = Owed
         /\ Owed \in Int
<1> DEFINE es2 == ByCreation(expenses)
           table == LinkedTo(incomes, expenses)
           is2 == ByCreation(table)
           fs2 == ByCreation(forgivenesses)
           ke == [id \in DOMAIN expenses |-> expenses[id].createdAt]
           ki == [id \in DOMAIN incomes |-> incomes[id].createdAt]
           kf == [id \in DOMAIN forgivenesses |-> forgivenesses[id].createdAt]
<1>1. /\ HasAmounts(expenses) /\ HasAmounts(incomes) /\ HasAmounts(forgivenesses)
      /\ Distinct(expenses) /\ Distinct(incomes) /\ Distinct(forgivenesses)
      /\ LinkedByCreation = is2
  BY StoredAmounts, OrdinalsAreDistinct
<1>2. Distinct(table) /\ HasAmounts(table) /\ DOMAIN table = DOMAIN incomes
      /\ Ordinals(table) = Ordinals(incomes)
  BY <1>1, LinkedRows, LinkedAmounts DEF TypeOK
<1>3. /\ entered.expense \in Nat /\ \A id \in DOMAIN expenses : ke[id] \in 1..entered.expense
      /\ entered.income \in Nat /\ \A id \in DOMAIN incomes : ki[id] \in 1..entered.income
      /\ entered.forgiveness \in Nat
      /\ \A id \in DOMAIN forgivenesses : kf[id] \in 1..entered.forgiveness
  BY DEF TypeOK, AllStamped, Stamped
<1>4. HasAmounts(es2) /\ HasAmounts(is2) /\ HasAmounts(fs2)
  <2>1. \A id \in DOMAIN table : table[id].createdAt = ki[id]
    BY <1>2, LinkedAmounts
  <2> HIDE DEF table
  <2> QED BY <1>1, <1>2, <1>3, <2>1, AmountsByCreation
<1>5. /\ DOMAIN es2 = Ordinals(expenses) /\ \A id \in DOMAIN expenses : es2[ke[id]] = expenses[id]
      /\ DOMAIN fs2 = Ordinals(forgivenesses)
      /\ \A id \in DOMAIN forgivenesses : fs2[kf[id]] = forgivenesses[id]
  BY <1>1, RowByCreation
<1>6. DOMAIN is2 = Ordinals(incomes) /\ \A id \in DOMAIN incomes : is2[ki[id]] = table[id]
  <2>1. \A id \in DOMAIN incomes : table[id].createdAt = ki[id]
    BY LinkedAmounts
  <2> HIDE DEF table
  <2> QED BY <1>2, <2>1, RowByCreation
<1>7. \A id \in DOMAIN incomes :
        /\ is2[ki[id]].amount = incomes[id].amount
        /\ is2[ki[id]].settlement = incomes[id].settlement
        /\ \A e \in DOMAIN expenses : is2[ki[id]].linked = ke[e] <=> incomes[id].linked = e
  <2> TAKE id \in DOMAIN incomes
  <2>1. /\ is2[ki[id]].amount = incomes[id].amount
        /\ is2[ki[id]].settlement = incomes[id].settlement
        /\ is2[ki[id]].linked = IF incomes[id].linked = NoLink THEN NoLink
                                ELSE expenses[incomes[id].linked].createdAt
    BY <1>6, LinkedAmounts
  <2>2. incomes[id].linked \in DOMAIN expenses \cup {NoLink}
    BY DEF ReferentialIntegrity
  <2>3. \A e \in DOMAIN expenses : e # NoLink /\ ke[e] # NoLink
    BY <1>3 DEF TypeOK, IsTable, Ids, NoLink
  <2>4. \A e, d \in DOMAIN expenses : ke[e] = ke[d] => e = d
    BY <1>1 DEF Distinct
  <2> HIDE DEF is2, ki
  <2> QED BY <2>1, <2>2, <2>3, <2>4
<1>8. OwedByJavi2(es2, is2) = OwedByJavi2(expenses, incomes)
  <2>1. Rekeys(ke, expenses, es2)
    BY <1>1, <1>5 DEF Rekeys, Ordinals, Distinct
  <2>2. Rekeys(ki, incomes, is2)
    BY <1>1, <1>6 DEF Rekeys, Ordinals, Distinct
  <2>3. \A x \in DOMAIN expenses :
          /\ es2[ke[x]].amount = expenses[x].amount
          /\ es2[ke[x]].settlement = expenses[x].settlement
          /\ es2[ke[x]].shared = expenses[x].shared
          /\ es2[ke[x]].paidBy = expenses[x].paidBy
    BY <1>5
  <2>4. HasAmounts(expenses) /\ HasAmounts(incomes) /\ HasAmounts(es2) /\ HasAmounts(is2)
    BY <1>1, <1>4
  <2> HIDE DEF es2, is2, ke, ki
  <2> QED BY ONLY <1>7, <2>1, <2>2, <2>3, <2>4, OwedRekeyed
<1>9. Total(Column(fs2), DOMAIN fs2) = Total(Column(forgivenesses), DOMAIN forgivenesses)
  <2>1. \A n : n \in DOMAIN fs2 <=> \E x \in DOMAIN forgivenesses : n = kf[x]
    BY <1>5 DEF Ordinals
  <2>2. \A x, y \in DOMAIN forgivenesses : kf[x] = kf[y] => x = y
    BY <1>1 DEF Distinct
  <2>3. \A x \in DOMAIN forgivenesses :
          /\ Column(fs2)[kf[x]] = Column(forgivenesses)[x]
          /\ Column(forgivenesses)[x] \in Int
    <3> HIDE DEF fs2, kf
    <3> QED BY <1>1, <1>5, <2>1 DEF Column, HasAmounts
  <2>4. IsFiniteSet(DOMAIN forgivenesses)
    BY <1>1 DEF HasAmounts
  <2> HIDE DEF fs2, kf
  <2> QED BY ONLY <2>1, <2>2, <2>3, <2>4, TotalRekeyed
<1> HIDE DEF es2, is2, fs2
<1>10. OwedByCarla(es2, is2, fs2) = OwedByCarla(expenses, incomes, forgivenesses)
  BY <1>1, <1>4, <1>8, <1>9, OwedType
<1>11. Owed \in Int
  BY <1>1, OwedType DEF Owed
<1> QED BY <1>1, <1>10, <1>11 DEF Owed, es2, is2, fs2, table


\* A forgiveness comes off the balance cent by cent.
LEMMA ForgivenBalance ==
  ASSUME NEW es, NEW is, NEW fs, HasAmounts(es), HasAmounts(is), HasAmounts(fs),
         NEW id, id \notin DOMAIN fs, NEW row, row.amount \in Int
  PROVE  OwedByCarla(es, is, Put(fs, id, row)) = OwedByCarla(es, is, fs) - row.amount
<1> DEFINE new == Put(fs, id, row)
<1>1. /\ DOMAIN new = DOMAIN fs \cup {id} /\ new[id] = row
      /\ \A x \in DOMAIN fs : new[x] = fs[x]
  BY DEF Put
<1> HIDE DEF new
<1>2. HasAmounts(new)
  BY <1>1, FS_AddElement DEF HasAmounts
<1>3. Total(Column(new), DOMAIN fs \cup {id}) = row.amount + Total(Column(new), DOMAIN fs)
  <2>1. /\ IsFiniteSet(DOMAIN fs) /\ Column(new)[id] = row.amount
        /\ \A x \in DOMAIN fs \cup {id} : Column(new)[x] \in Int
    BY <1>1, <1>2 DEF HasAmounts, Column
  <2>2. Total(Column(new), DOMAIN fs \cup {id})
          = Column(new)[id] + Total(Column(new), DOMAIN fs)
    BY <2>1, TotalAdd
  <2> QED BY <2>1, <2>2
<1>4. Total(Column(new), DOMAIN fs) = Total(Column(fs), DOMAIN fs)
  <2>1. IsFiniteSet(DOMAIN fs) /\ \A x \in DOMAIN fs : Column(new)[x] = Column(fs)[x]
    BY <1>1 DEF HasAmounts, Column
  <2> QED BY <2>1, TotalSame
<1>5. Total(Column(fs), DOMAIN fs) \in Int
  <2>1. IsFiniteSet(DOMAIN fs) /\ \A x \in DOMAIN fs : Column(fs)[x] \in Int
    BY DEF HasAmounts, Column
  <2> QED BY <2>1, TotalType
<1>6. /\ OwedByCarla(es, is, new)
           = -Rounded(OwedByJavi2(es, is)) - Total(Column(new), DOMAIN new)
      /\ OwedByCarla(es, is, fs)
           = -Rounded(OwedByJavi2(es, is)) - Total(Column(fs), DOMAIN fs)
      /\ Rounded(OwedByJavi2(es, is)) \in Int
  BY <1>2, OwedType
<1>7. Total(Column(new), DOMAIN new) = row.amount + Total(Column(fs), DOMAIN fs)
  BY <1>1, <1>3, <1>4
<1> QED BY <1>5, <1>6, <1>7 DEF new

-----------------------------------------------------------------------------
(* Forgiving, with a single browser window: the lists are those in the      *)
(* store, and what goes in is at most the balance they give.                *)

Forgiving == {"listIncomes", "listForgivenesses", "insertForgiveness"}

IsFreshList(s) ==
  /\ s.at \in {"listIncomes", "listForgivenesses"} => s.expenses = expenses
  /\ s.at = "listForgivenesses" => s.incomes = incomes
  /\ s.at = "insertForgiveness" => s.amount \in PositiveCents /\ s.amount <= Owed

FreshLists == \A w \in Windows : IsFreshList(windows[w])

LEMMA FreshListsStep ==
  ASSUME Alone, TypeOK, FreshLists, [Next]_vars
  PROVE  FreshLists'
<1> WindowsOK
  BY DEF TypeOK, WindowsOK
<1>1. CASE UNCHANGED <<windows, expenses, incomes, forgivenesses>>
  BY <1>1 DEF FreshLists, IsFreshList, Owed
<1>2. ASSUME NEW w \in Windows, NEW s, Goes(w, s), s.at \notin Forgiving
      PROVE  FreshLists'
  <2>1. windows'[w] = s
    BY <1>2 DEF Goes, WindowsOK
  <2> QED BY <1>2, <2>1 DEF Alone, FreshLists, IsFreshList, Forgiving
<1>3. ASSUME NEW w \in Windows, Goes(w, Idle)
      PROVE  FreshLists'
  BY <1>2, <1>3 DEF Idle, Forgiving
<1>4. ASSUME NEW w \in Windows, NEW user, NEW kind, NEW id, NEW seen,
             Goes(w, Box(user, kind, id, seen))
      PROVE  FreshLists'
  BY <1>2, <1>4 DEF Box, Forgiving
<1>5. ASSUME NEW w \in Windows, NEW user, NEW kind, NEW id, NEW seen, NEW in, NEW line,
             NEW loaded, Saving(w, user, kind, id, seen, in, line, loaded)
      PROVE  FreshLists'
  <2>1. Updating(user, kind, id, in, line, seen).at \notin Forgiving
    BY DEF Updating, Forgiving
  <2> QED BY <1>2, <1>3, <1>4, <1>5, <2>1 DEF Saving
<1>6. ASSUME NEW w \in Windows, NEW s, Goes(w, s), UNCHANGED tables, IsFreshList(s)
      PROVE  FreshLists'
  <2>1. windows'[w] = s
    BY <1>6 DEF Goes, WindowsOK
  <2> QED BY <1>6, <2>1 DEF Alone, FreshLists, IsFreshList, tables, Owed
<1>7. ASSUME NEW w \in Windows, Add(w)
      PROVE  FreshLists'
  <2>1. CASE StartPayback(w)
    BY <1>4, <2>1 DEF StartPayback
  <2>2. \A in, line, seen : Adding(in, line, seen).at \notin Forgiving
    BY DEF Adding, Forgiving
  <2>3. CASE AddPlain(w)
    BY <1>2, <1>3, <2>2, <2>3 DEF AddPlain
  <2>4. CASE AddFromBox(w)
    <3> DEFINE box == windows[w]
               parent == expenses[box.id]
    <3>1. box \in Boxes
      BY <2>4, WindowKinds DEF AddFromBox, At, TypeOK
    <3>2. [box EXCEPT !.seen = parent.createdAt].at \notin Forgiving
      BY <3>1 DEF Boxes, Forgiving
    <3> QED BY <1>2, <1>3, <2>2, <2>4, <3>2 DEF AddFromBox
  <2>5. CASE InsertExpense(w) \/ InsertIncome(w)
    BY <1>3, <2>5 DEF InsertExpense, InsertIncome
  <2> QED BY <1>7, <2>1, <2>3, <2>4, <2>5 DEF Add
<1>8. ASSUME NEW w \in Windows, Edit(w)
      PROVE  FreshLists'
  <2>1. CASE OpenExpense(w) \/ OpenParent(w)
    BY <1>3, <1>4, <2>1 DEF OpenExpense, OpenParent
  <2>2. CASE OpenIncome(w)
    BY <1>2, <1>4, <2>2 DEF OpenIncome, Forgiving
  <2>3. CASE SaveExpense(w) \/ SaveParent(w)
    BY <1>3, <1>5, <2>3 DEF SaveExpense, SaveParent
  <2>4. CASE SaveIncome(w)
    BY <1>2, <1>3, <1>5, <2>4 DEF SaveIncome, Forgiving
  <2>5. CASE UpdateExpense(w) \/ UpdateIncome(w)
    BY <1>3, <2>5 DEF UpdateExpense, UpdateIncome
  <2> QED BY <1>8, <2>1, <2>2, <2>3, <2>4, <2>5 DEF Edit
<1>9. ASSUME NEW w \in Windows, Delete(w)
      PROVE  FreshLists'
  <2>1. \A at \in {"deleteExpense", "deleteIncome"} : \A user, id, row :
          Deleting(at, user, id, row).at \notin Forgiving
    BY DEF Deleting, Forgiving
  <2>2. CASE RequestDeleteExpense(w) \/ DeleteParent(w)
    BY <1>2, <1>3, <2>1, <2>2 DEF RequestDeleteExpense, DeleteParent
  <2>3. CASE RequestDeleteIncome(w)
    BY <1>2, <2>1, <2>3 DEF RequestDeleteIncome, Forgiving
  <2>4. CASE DeleteExpense(w) \/ DeleteIncome(w)
    BY <1>3, <2>4 DEF DeleteExpense, DeleteIncome
  <2> QED BY <1>9, <2>2, <2>3, <2>4 DEF Delete
<1>10. ASSUME NEW w \in Windows, Forgive(w)
       PROVE  FreshLists'
  <2>1. CASE ListExpenses(w)
    BY <1>6, <2>1 DEF ListExpenses, IsFreshList
  <2>2. CASE ListIncomes(w)
    BY <1>6, <2>2 DEF ListIncomes, IsFreshList, FreshLists, At
  <2>3. CASE ListForgivenesses(w)
    <3>1. OwedByCarla(windows[w].expenses, windows[w].incomes, forgivenesses) = Owed
      BY <2>3 DEF ListForgivenesses, At, FreshLists, IsFreshList, Owed
    <3>2. ASSUME NEW amount, Forgivable(amount, Owed),
                 Goes(w, [at |-> "insertForgiveness", amount |-> amount])
          PROVE  FreshLists'
      BY <1>6, <2>3, <3>2 DEF ListForgivenesses, IsFreshList, Forgivable
    <3> QED BY <1>3, <2>3, <3>1, <3>2 DEF ListForgivenesses
  <2>4. CASE InsertForgiveness(w)
    BY <1>3, <2>4 DEF InsertForgiveness
  <2>5. CASE DeleteForgiveness(w)
    BY <2>5 DEF DeleteForgiveness, At, Alone, FreshLists, IsFreshList
  <2> QED BY <1>10, <2>1, <2>2, <2>3, <2>4, <2>5 DEF Forgive
<1>11. ASSUME NEW w \in Windows, Abandon(w)
       PROVE  FreshLists'
  BY <1>3, <1>11 DEF Abandon
<1>12. CASE DaysPass \/ UNCHANGED vars
  BY <1>1, <1>12 DEF DaysPass, tables, vars
<1> QED BY <1>7, <1>8, <1>9, <1>10, <1>11, <1>12 DEF Next

LEMMA FreshListsInvariant ==
  ASSUME Alone
  PROVE  Spec => []FreshLists
<1>1. Init => FreshLists
  BY DEF Init, FreshLists, IsFreshList, Idle
<1>2. TypeOK /\ FreshLists /\ [Next]_vars => FreshLists'
  BY FreshListsStep
<1> QED BY <1>1, <1>2, TypeCorrect, PTL DEF Spec

LEMMA InsertedForgiveness ==
  ASSUME TypeOK, AllStamped, FreshLists, NEW w \in Windows, InsertForgiveness(w)
  PROVE  LET n == entered.forgiveness + 1
             row == [createdAt |-> n, amount |-> windows[w].amount]
         IN  /\ windows[w].amount \in Nat \ {0} /\ windows[w].amount <= Owed
             /\ \E id \in 1..n :
                  /\ id \notin DOMAIN forgivenesses
                  /\ forgivenesses' = Put(forgivenesses, id, row)
             /\ entered' = [entered EXCEPT !.forgiveness = n]
             /\ UNCHANGED <<expenses, incomes>>
<1>1. windows[w].amount \in Nat \ {0} /\ windows[w].amount <= Owed
  BY DEF InsertForgiveness, At, FreshLists, IsFreshList, PositiveCents
<1>2. \A id : IsNextRowid(forgivenesses, id) => id \notin DOMAIN forgivenesses
  BY NextRowidIsNew DEF TypeOK
<1> QED BY <1>1, <1>2 DEF InsertForgiveness

LEMMA ForgivesStep ==
  ASSUME TypeOK, AllStamped, ReferentialIntegrity, FreshLists, [Next]_vars,
         NEW new \in DOMAIN forgivenesses' \ DOMAIN forgivenesses
  PROVE  /\ forgivenesses'[new].amount <= Owed
         /\ Owed' = Owed - forgivenesses'[new].amount
<1>1. PICK w \in Windows : InsertForgiveness(w)
  <2>1. ASSUME NEW w \in Windows, RecordStep(w) \/ DeleteForgiveness(w)
        PROVE  DOMAIN forgivenesses' \subseteq DOMAIN forgivenesses
    BY <2>1 DEF RecordStep, InsertExpense, InsertIncome, UpdateExpense, UpdateIncome,
                DeleteExpense, DeleteIncome, DeleteForgiveness, Drop
  <2> QED BY <2>1, TableSteps
<1> DEFINE n == entered.forgiveness + 1
           row == [createdAt |-> n, amount |-> windows[w].amount]
<1>2. PICK id \in 1..n : /\ id \notin DOMAIN forgivenesses
                         /\ forgivenesses' = Put(forgivenesses, id, row)
  BY <1>1, InsertedForgiveness
<1>3. /\ windows[w].amount \in Nat \ {0} /\ windows[w].amount <= Owed
      /\ UNCHANGED <<expenses, incomes>>
  BY <1>1, InsertedForgiveness
<1>4. row.amount = windows[w].amount
  OBVIOUS
<1> HIDE DEF row
<1>5. OwedByCarla(expenses, incomes, Put(forgivenesses, id, row)) = Owed - row.amount
  BY <1>2, <1>3, <1>4, StoredAmounts, ForgivenBalance DEF Owed
<1>6. Owed' = Owed - row.amount
  BY <1>2, <1>3, <1>5 DEF Owed
<1>7. new = id /\ forgivenesses'[new] = row
  BY <1>2 DEF Put
<1> QED BY <1>3, <1>4, <1>6, <1>7

\* With one window a forgiveness takes its own amount off what Carla owes when it
\* is recorded, and is never more: the whole balance forgiven leaves exactly zero.
THEOREM ForgivesCorrect ==
  ASSUME Alone
  PROVE  Spec => ForgivesAtMostTheBalance
<1> DEFINE Forgiven(id) == /\ forgivenesses'[id].amount <= Owed
                           /\ Owed' = Owed - forgivenesses'[id].amount
<1>1. TypeOK /\ AllStamped /\ ReferentialIntegrity /\ FreshLists /\ [Next]_vars
        => [\A id \in DOMAIN forgivenesses' \ DOMAIN forgivenesses : Forgiven(id)]_vars
  BY ForgivesStep
<1> QED BY <1>1, TypeCorrect, StampedInvariant, IntegrityCorrect, FreshListsInvariant, PTL
        DEF Spec, ForgivesAtMostTheBalance

LEMMA ForgiveStep ==
  ASSUME TypeOK, AllStamped, ReferentialIntegrity, FreshLists,
         NEW w \in Windows, InsertForgiveness(w)
  PROVE  Book!Forgive
<1> DEFINE n == entered.forgiveness + 1
           row == [createdAt |-> n, amount |-> windows[w].amount]
<1>1. PICK id \in 1..n : /\ id \notin DOMAIN forgivenesses
                         /\ forgivenesses' = Put(forgivenesses, id, row)
  BY InsertedForgiveness
<1>2. /\ windows[w].amount \in Nat \ {0} /\ windows[w].amount <= Owed
      /\ entered' = [entered EXCEPT !.forgiveness = n]
      /\ UNCHANGED <<expenses, incomes>>
  BY InsertedForgiveness
<1>3. row.createdAt = n /\ n \notin Ordinals(forgivenesses) /\ Distinct(forgivenesses)
  BY OrdinalsAreDistinct DEF TypeOK, AllStamped, Stamped, Ordinals
<1>4. ByCreation(forgivenesses') = Put(ByCreation(forgivenesses), n, row)
  <2> HIDE DEF n, row
  <2> QED BY <1>1, <1>3, PutByCreation
<1>5. LinkedByCreation' = LinkedByCreation
  BY <1>2, LinkedByCreationIs
<1>6. windows[w].amount \in
        1..Book!OwedByCarla(ByCreation(expenses), LinkedByCreation, ByCreation(forgivenesses))
  <2>1. /\ OwedByCarla(ByCreation(expenses), LinkedByCreation, ByCreation(forgivenesses)) = Owed
        /\ Owed \in Int
    BY OwedInBook
  <2>2. windows[w].amount \in 1..Owed
    BY <1>2, <2>1
  <2> QED BY <2>1, <2>2, BookOwed
<1> QED BY <1>2, <1>4, <1>5, <1>6, BookOperators DEF Book!Forgive

\* With one window the tables are the book of module RecordBook: every step of
\* the ledger is a step of the book's or changes nothing in it, forgivenesses
\* and rowids given again included.
THEOREM BookSpecCorrect ==
  ASSUME Alone
  PROVE  Spec => BookSpec
<1>1. TypeOK /\ ReferentialIntegrity /\ KindsInv /\ AllStamped /\ KnowInv /\ FreshLists
        /\ [Next]_vars
      => [Book!Next]_(Book!book)
  BY BookSteps, ForgiveStep DEF Book!Next
<1>2. Init => Book!Init
  BY BookInit
<1> QED BY <1>1, <1>2, TypeCorrect, IntegrityCorrect, KindsInvariant, StampedInvariant,
           KnowInvariant, FreshListsInvariant, PTL DEF Spec, BookSpec, Book!Spec

=============================================================================
