------------------------------- MODULE Ledger -------------------------------
(***************************************************************************)
(* The ledger: the three tables of internal/store and the handlers of      *)
(* internal/server that write them.                                        *)
(*                                                                         *)
(* Each browser window has at most one request in flight.  A handler runs  *)
(* in a goroutine of its own and calls the store several times, outside    *)
(* any transaction; each call is one auto-committed SQL statement, so the  *)
(* steps below are the store's calls.  Parsing, Intents and Submit touch   *)
(* only what the handler has loaded and go with the call before them.      *)
(***************************************************************************)
EXTENDS Entry, Balance, Tables

CONSTANTS
  Windows,                                     \* browser windows
  MaxExpenses, MaxIncomes, MaxForgivenesses    \* bounds: rows ever inserted

ASSUME LedgerAssumption ==
  /\ MaxExpenses \in Nat /\ MaxIncomes \in Nat /\ MaxForgivenesses \in Nat

VARIABLES
  expenses, incomes, forgivenesses,   \* rowid -> row
  windows,    \* what each window shows, or where its request has got to
  editable,   \* the days still inside the edit window (module EntryDate)
  entered,    \* rows ever inserted in each table, which stamps createdAt
  recycled    \* history: an expense or income got a rowid an earlier one had

vars == <<expenses, incomes, forgivenesses, windows, editable, entered, recycled>>
tables == <<expenses, incomes, forgivenesses, entered, recycled>>

-----------------------------------------------------------------------------
(* Rows.  createdAt is the ordinal of the row among all its table ever had: *)
(* the identity ADR-0001 keeps across edits.                                *)

ExpenseRows ==
  [createdAt : Nat, date : Dates, amount : Amounts,
   shared : BOOLEAN, paidBy : Users, settlement : BOOLEAN]

IncomeRows ==
  [createdAt : Nat, date : Dates, amount : Amounts,
   linked : Nat, settlement : BOOLEAN]

ForgivenessRows == [createdAt : Nat, amount : PositiveCents]

IsTable(table, rows) ==
  /\ DOMAIN table \subseteq Ids
  /\ table \in [DOMAIN table -> rows]

(* Windows.  A box is the quick-add form opened on a record: seen is the    *)
(* createdAt of the record it shows.  The other states are a handler's      *)
(* locals between two calls of the store.                                   *)

Idle == [at |-> "idle"]

Boxes ==
  [at : {"box"}, user : Users, kind : {"payback", "expense", "income"},
   id : Ids, seen : Nat]

\* An income was loaded; its parent expense is loaded next.
ParentLookups ==
  [at : {"openParent", "deleteParent"}, user : Users, id : Ids, income : IncomeRows]
    \cup
  [at : {"saveParent"}, user : Users, id : Ids, income : IncomeRows,
   seen : Nat, line : Lines]

Inserts ==
  [at : {"insertExpense"}, row : ExpenseRows]
    \cup
  [at : {"insertIncome"}, row : IncomeRows, seen : Nat]

\* kind is the {kind} of the route, the update's table is the record's.
Updates ==
  [at : {"updateExpense"}, user : Users, kind : {"expense", "income"},
   id : Ids, row : ExpenseRows, seen : Nat]
    \cup
  [at : {"updateIncome"}, user : Users, kind : {"expense", "income"},
   id : Ids, row : IncomeRows, seen : Nat]

Deletes ==
  [at : {"deleteExpense", "deleteIncome"}, user : Users, id : Ids, seen : Nat]

\* Forgiving: what the handler has listed, then what it will insert.
IsForgiving(s) ==
  \/ /\ s.at = "listIncomes"
     /\ IsTable(s.expenses, ExpenseRows)
  \/ /\ s.at = "listForgivenesses"
     /\ IsTable(s.expenses, ExpenseRows) /\ IsTable(s.incomes, IncomeRows)

Forgives == [at : {"insertForgiveness"}, amount : PositiveCents]

WindowOK(s) ==
  \/ s \in {Idle} \cup Boxes \cup ParentLookups
  \/ s \in Inserts \cup Updates \cup Deletes \cup Forgives
  \/ IsForgiving(s)

TypeOK ==
  /\ IsTable(expenses, ExpenseRows)
  /\ IsTable(incomes, IncomeRows)
  /\ IsTable(forgivenesses, ForgivenessRows)
  /\ editable \subseteq Dates
  /\ entered \in [expense : Nat, income : Nat, forgiveness : Nat]
  /\ recycled \in BOOLEAN
  /\ DOMAIN windows = Windows
  /\ \A w \in Windows : WindowOK(windows[w])

Init ==
  /\ expenses = NoRows /\ incomes = NoRows /\ forgivenesses = NoRows
  /\ windows = [w \in Windows |-> Idle]
  /\ editable = Dates
  /\ entered = [expense |-> 0, income |-> 0, forgiveness |-> 0]
  /\ recycled = FALSE

-----------------------------------------------------------------------------
Goes(w, s) == windows' = [windows EXCEPT ![w] = s]

At(w, at) == windows[w].at = at

Editable(date) == date \in editable

\* loadExpense finds the row, and Carla sees only the Shared tab's.
Loads(user, id) ==
  /\ id \in DOMAIN expenses
  /\ user = "carla" => InSharedTab(expenses[id])

\* Bug: a payback is linked to the newest expense, not to the box's.
AddingToNewest(in, line, seen) ==
  LET income == IncomeOf(in, line) IN
  IF Table(in, line) = "income"
  THEN [at |-> "insertIncome", seen |-> seen,
        row |-> [income EXCEPT !.linked = IF @ = NoLink THEN @ ELSE entered.expense]]
  ELSE [at |-> "insertExpense", row |-> ExpenseOf(in, line)]

\* Where an add goes once its line is accepted.
Adding(in, line, seen) ==
  IF Table(in, line) = "income"
  THEN [at |-> "insertIncome", row |-> IncomeOf(in, line), seen |-> seen]
  ELSE [at |-> "insertExpense", row |-> ExpenseOf(in, line)]

\* Where an edit of the box's record goes: the table is the line's.
Updating(user, kind, id, in, line, seen) ==
  IF Table(in, line) = "income"
  THEN [at |-> "updateIncome", user |-> user, kind |-> kind, id |-> id,
        row |-> IncomeOf(in, line), seen |-> seen]
  ELSE [at |-> "updateExpense", user |-> user, kind |-> kind, id |-> id,
        row |-> ExpenseOf(in, line), seen |-> seen]

Box(user, kind, id, seen) ==
  [at |-> "box", user |-> user, kind |-> kind, id |-> id, seen |-> seen]

-----------------------------------------------------------------------------
(* Adding.                                                                  *)

\* GET /payback/{id}: a 404 leaves the window where it was.
StartPayback(w) ==
  /\ At(w, "idle")
  /\ \E user \in Users, id \in DOMAIN expenses :
       /\ Loads(user, id)
       /\ Goes(w, Box(user, "payback", id, expenses[id].createdAt))
  /\ UNCHANGED tables

\* POST /add with no hidden link.  Carla's tab is always the Shared one.
AddPlain(w) ==
  /\ At(w, "idle")
  /\ \E user \in Users, tab \in BOOLEAN, line \in Lines :
       LET in == PlainAdd(user, tab \/ user = "carla") IN
       Goes(w, IF Refused(in, line) THEN Idle ELSE Adding(in, line, NoLink))
  /\ UNCHANGED tables

\* POST /add from a payback box: 409 back under the plain add when the parent
\* is gone, 422 back in the box, naming the parent just loaded.
AddFromBox(w) ==
  LET box == windows[w] IN
  /\ At(w, "box") /\ box.kind = "payback"
  /\ \/ /\ ~Loads(box.user, box.id)
        /\ Goes(w, Idle)
     \/ /\ Loads(box.user, box.id)
        /\ \E line \in Lines :
             LET parent == expenses[box.id]
                 in == AddPayback(box.id, parent) IN
             Goes(w, IF Refused(in, line)
                     THEN [box EXCEPT !.seen = parent.createdAt]
                     ELSE Adding(in, line, box.seen))
  /\ UNCHANGED tables

\* Store.Create.
InsertExpense(w) ==
  LET n == entered.expense + 1 IN
  /\ At(w, "insertExpense") /\ entered.expense < MaxExpenses
  /\ \E id \in 1..n :
       /\ IsNextRowid(expenses, id)
       /\ expenses' = Put(expenses, id, [windows[w].row EXCEPT !.createdAt = n])
       /\ recycled' = (recycled \/ id # n)
  /\ entered' = [entered EXCEPT !.expense = n]
  /\ Goes(w, Idle)
  /\ UNCHANGED <<incomes, forgivenesses>>

\* Bug: foreign_keys left off.
ParentExistsOff(row) == TRUE

\* REFERENCES expense(id), with foreign_keys=ON.
ParentExists(row) == row.linked \in DOMAIN expenses \cup {NoLink}

\* Store.CreateIncome: a 500 when the foreign key has no row to refer to.
InsertIncome(w) ==
  LET n == entered.income + 1
      row == windows[w].row IN
  /\ At(w, "insertIncome") /\ entered.income < MaxIncomes
  /\ \/ /\ ParentExists(row)
        /\ \E id \in 1..n :
             /\ IsNextRowid(incomes, id)
             /\ incomes' = Put(incomes, id, [row EXCEPT !.createdAt = n])
             /\ recycled' = (recycled \/ id # n)
        /\ entered' = [entered EXCEPT !.income = n]
     \/ /\ ~ParentExists(row)
        /\ UNCHANGED <<incomes, entered, recycled>>
  /\ Goes(w, Idle)
  /\ UNCHANGED <<expenses, forgivenesses>>

-----------------------------------------------------------------------------
(* Editing.                                                                 *)

\* GET /edit/expense/{id}: 404 and 403 leave the window where it was.
OpenExpense(w) ==
  /\ At(w, "idle")
  /\ \E user \in Users, id \in DOMAIN expenses :
       /\ Loads(user, id) /\ Editable(expenses[id].date)
       /\ Goes(w, Box(user, "expense", id, expenses[id].createdAt))
  /\ UNCHANGED tables

\* The tab of an income that has no parent, and who may see it.
UnlinkedVisible(user, i) == user = "carla" => i.settlement

\* GET /edit/income/{id}, up to loadIncome's second read.
OpenIncome(w) ==
  /\ At(w, "idle")
  /\ \E user \in Users, id \in DOMAIN incomes :
       LET i == incomes[id] IN
       \/ /\ i.linked # NoLink
          /\ Goes(w, [at |-> "openParent", user |-> user, id |-> id, income |-> i])
       \/ /\ i.linked = NoLink
          /\ UnlinkedVisible(user, i) /\ Editable(i.date)
          /\ Goes(w, Box(user, "income", id, i.createdAt))
  /\ UNCHANGED tables

\* Bug: Carla's scope is not asked of a payback's parent.
ParentFound(s) == s.income.linked \in DOMAIN expenses

\* loadIncome's second read finds the parent, in a tab the user may see.
ParentVisible(s) ==
  /\ s.income.linked \in DOMAIN expenses
  /\ s.user = "carla" => expenses[s.income.linked].shared

OpenParent(w) ==
  LET s == windows[w] IN
  /\ At(w, "openParent")
  /\ Goes(w, IF ParentVisible(s) /\ Editable(s.income.date)
             THEN Box(s.user, "income", s.id, s.income.createdAt)
             ELSE Idle)
  /\ UNCHANGED tables

\* Bug: the edit window is asked only when the box opens.
SavingAsOpened(w, user, kind, id, seen, in, line, loaded) ==
  Goes(w, IF Refused(in, line) THEN Box(user, kind, id, loaded.createdAt)
          ELSE Updating(user, kind, id, in, line, seen))

\* POST /edit/{kind}/{id} of a record just loaded, dated date: 403 past the edit
\* window, 422 back in the box, else the update.
Saving(w, user, kind, id, seen, in, line, loaded) ==
  Goes(w, IF ~Editable(loaded.date) THEN Idle
          ELSE IF Refused(in, line) THEN Box(user, kind, id, loaded.createdAt)
          ELSE Updating(user, kind, id, in, line, seen))

SaveExpense(w) ==
  LET box == windows[w] IN
  /\ At(w, "box") /\ box.kind = "expense"
  /\ \/ /\ ~Loads(box.user, box.id)
        /\ Goes(w, Idle)
     \/ /\ Loads(box.user, box.id)
        /\ \E line \in Lines :
             Saving(w, box.user, "expense", box.id, box.seen,
                    EditExpense(expenses[box.id]), line, expenses[box.id])
  /\ UNCHANGED tables

SaveIncome(w) ==
  LET box == windows[w] IN
  /\ At(w, "box") /\ box.kind = "income"
  /\ \/ /\ box.id \notin DOMAIN incomes
        /\ Goes(w, Idle)
     \/ /\ box.id \in DOMAIN incomes
        /\ LET i == incomes[box.id] IN
           \/ /\ i.linked # NoLink
              /\ \E line \in Lines :
                   Goes(w, [at |-> "saveParent", user |-> box.user, id |-> box.id,
                            income |-> i, seen |-> box.seen, line |-> line])
           \/ /\ i.linked = NoLink /\ ~UnlinkedVisible(box.user, i)
              /\ Goes(w, Idle)
           \/ /\ i.linked = NoLink /\ UnlinkedVisible(box.user, i)
              /\ \E line \in Lines :
                   Saving(w, box.user, "income", box.id, box.seen,
                          EditIncome(i, i.settlement), line, i)
  /\ UNCHANGED tables

SaveParent(w) ==
  LET s == windows[w] IN
  /\ At(w, "saveParent")
  /\ \/ /\ ~ParentVisible(s)
        /\ Goes(w, Idle)
     \/ /\ ParentVisible(s)
        /\ Saving(w, s.user, "income", s.id, s.seen,
                  EditIncome(s.income, expenses[s.income.linked].shared),
                  s.line, s.income)
  /\ UNCHANGED tables

\* Store.Update: every column but id and created_at; a 404 when the row is gone.
UpdateExpense(w) ==
  LET s == windows[w] IN
  /\ At(w, "updateExpense")
  /\ expenses' =
       IF s.id \in DOMAIN expenses
       THEN [expenses EXCEPT ![s.id] =
               [s.row EXCEPT !.createdAt = expenses[s.id].createdAt]]
       ELSE expenses
  /\ Goes(w, Idle)
  /\ UNCHANGED <<incomes, forgivenesses, entered, recycled>>

\* Store.UpdateIncome: the link is not among the columns it writes.
UpdateIncome(w) ==
  LET s == windows[w] IN
  /\ At(w, "updateIncome")
  /\ incomes' =
       IF s.id \in DOMAIN incomes
       THEN [incomes EXCEPT ![s.id] =
               [s.row EXCEPT !.createdAt = incomes[s.id].createdAt,
                             !.linked = incomes[s.id].linked]]
       ELSE incomes
  /\ Goes(w, Idle)
  /\ UNCHANGED <<expenses, forgivenesses, entered, recycled>>

-----------------------------------------------------------------------------
(* Deleting: the record is loaded for Carla's scope, then deleted by id.    *)

Deleting(at, user, id, row) ==
  [at |-> at, user |-> user, id |-> id, seen |-> row.createdAt]

RequestDeleteExpense(w) ==
  /\ At(w, "idle")
  /\ \E user \in Users, id \in DOMAIN expenses :
       /\ Loads(user, id)
       /\ Goes(w, Deleting("deleteExpense", user, id, expenses[id]))
  /\ UNCHANGED tables

RequestDeleteIncome(w) ==
  /\ At(w, "idle")
  /\ \E user \in Users, id \in DOMAIN incomes :
       LET i == incomes[id] IN
       \/ /\ i.linked # NoLink
          /\ Goes(w, [at |-> "deleteParent", user |-> user, id |-> id, income |-> i])
       \/ /\ i.linked = NoLink /\ UnlinkedVisible(user, i)
          /\ Goes(w, Deleting("deleteIncome", user, id, i))
  /\ UNCHANGED tables

\* Bug: the id deleted is the parent's.
DeleteByParentId(w) ==
  LET s == windows[w] IN
  /\ At(w, "deleteParent")
  /\ Goes(w, IF ParentVisible(s)
             THEN Deleting("deleteIncome", s.user, s.income.linked, s.income)
             ELSE Idle)
  /\ UNCHANGED tables

DeleteParent(w) ==
  LET s == windows[w] IN
  /\ At(w, "deleteParent")
  /\ Goes(w, IF ParentVisible(s)
             THEN Deleting("deleteIncome", s.user, s.id, s.income)
             ELSE Idle)
  /\ UNCHANGED tables

\* Bug: a link without ON DELETE CASCADE.
NoPaybacks(id) == {}

\* The paybacks of an expense: what ON DELETE CASCADE takes with it.
PaybacksOf(id) == {i \in DOMAIN incomes : incomes[i].linked = id}

\* Store.Delete, a 404 when the row is gone.
DeleteExpense(w) ==
  LET id == windows[w].id IN
  /\ At(w, "deleteExpense")
  /\ expenses' = Drop(expenses, {id})
  /\ incomes' = Drop(incomes, PaybacksOf(id))
  /\ Goes(w, Idle)
  /\ UNCHANGED <<forgivenesses, entered, recycled>>

DeleteIncome(w) ==
  /\ At(w, "deleteIncome")
  /\ incomes' = Drop(incomes, {windows[w].id})
  /\ Goes(w, Idle)
  /\ UNCHANGED <<expenses, forgivenesses, entered, recycled>>

-----------------------------------------------------------------------------
(* Forgiving: three lists, the balance they give, an INSERT.  Only Javi.    *)

ListExpenses(w) ==
  /\ At(w, "idle") /\ entered.forgiveness < MaxForgivenesses
  /\ Goes(w, [at |-> "listIncomes", expenses |-> expenses])
  /\ UNCHANGED tables

ListIncomes(w) ==
  /\ At(w, "listIncomes")
  /\ Goes(w, [at |-> "listForgivenesses", expenses |-> windows[w].expenses,
              incomes |-> incomes])
  /\ UNCHANGED tables

Forgivable(amount, owed) == amount \in PositiveCents /\ amount <= owed

\* newForgiveness: the amount is the whole balance when left blank.  A refusal
\* (nothing owed, or a bad amount or date) leaves nothing behind.
ListForgivenesses(w) ==
  LET owed == OwedByCarla(windows[w].expenses, windows[w].incomes, forgivenesses) IN
  /\ At(w, "listForgivenesses")
  /\ \/ Goes(w, Idle)
     \/ \E amount \in Amounts \cup {owed} :
          /\ Forgivable(amount, owed)
          /\ Goes(w, [at |-> "insertForgiveness", amount |-> amount])
  /\ UNCHANGED tables

InsertForgiveness(w) ==
  LET n == entered.forgiveness + 1 IN
  /\ At(w, "insertForgiveness") /\ entered.forgiveness < MaxForgivenesses
  /\ \E id \in 1..n :
       /\ IsNextRowid(forgivenesses, id)
       /\ forgivenesses' = Put(forgivenesses, id,
                             [createdAt |-> n, amount |-> windows[w].amount])
  /\ entered' = [entered EXCEPT !.forgiveness = n]
  /\ Goes(w, Idle)
  /\ UNCHANGED <<expenses, incomes, recycled>>

\* POST /delete/forgiveness/{id}: one statement, so the window stays idle.
DeleteForgiveness(w) ==
  /\ At(w, "idle")
  /\ \E id \in DOMAIN forgivenesses : forgivenesses' = Drop(forgivenesses, {id})
  /\ UNCHANGED <<expenses, incomes, windows, entered, recycled>>

-----------------------------------------------------------------------------
\* The user leaves the box, or the handler ends early: a store error, the
\* client's disconnection cancelling its context, the process killed.
Abandon(w) ==
  /\ ~At(w, "idle")
  /\ Goes(w, Idle)
  /\ UNCHANGED tables

\* Days go by: a date leaves the edit window and never comes back.
DaysPass ==
  /\ \E left \in SUBSET editable : left # editable /\ editable' = left
  /\ UNCHANGED <<tables, windows>>

Add(w) == StartPayback(w) \/ AddPlain(w) \/ AddFromBox(w)
            \/ InsertExpense(w) \/ InsertIncome(w)

Edit(w) == OpenExpense(w) \/ OpenIncome(w) \/ OpenParent(w)
             \/ SaveExpense(w) \/ SaveIncome(w) \/ SaveParent(w)
             \/ UpdateExpense(w) \/ UpdateIncome(w)

Delete(w) == RequestDeleteExpense(w) \/ RequestDeleteIncome(w) \/ DeleteParent(w)
               \/ DeleteExpense(w) \/ DeleteIncome(w)

Forgive(w) == ListExpenses(w) \/ ListIncomes(w) \/ ListForgivenesses(w)
                \/ InsertForgiveness(w) \/ DeleteForgiveness(w)

Next ==
  \/ DaysPass
  \/ /\ \E w \in Windows : Add(w) \/ Edit(w) \/ Delete(w) \/ Forgive(w) \/ Abandon(w)
     /\ UNCHANGED editable

Spec == Init /\ [][Next]_vars

=============================================================================
