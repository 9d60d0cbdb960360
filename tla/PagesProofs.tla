----------------------------- MODULE PagesProofs -----------------------------
(***************************************************************************)
(* Theorems about Pages, for any windows, records and amounts.             *)
(***************************************************************************)
EXTENDS Pages, BookProofs

LEMMA LedgerSteps == [PagesNext]_<<vars, page>> => [Next]_vars
BY DEF PagesNext

\* The ledger goes on while a page is made as it does without one.
LEMMA LedgerRuns == PagesSpec => Spec
<1>1. PagesInit => Init
  BY DEF PagesInit
<1> QED BY <1>1, LedgerSteps, PTL DEF PagesSpec, Spec

-----------------------------------------------------------------------------
(* What a page has listed. *)

PageOK ==
  \/ page = NoPage
  \/ /\ page.at \in {"listIncomes", "listForgivenesses"}
     /\ IsTable(page.expenses, ExpenseRows)
     /\ page.at = "listForgivenesses" => IsTable(page.incomes, IncomeRows)

\* TypeOK, and the lists of the page in the making are lists of the tables' rows.
THEOREM PagesTypeCorrect == PagesSpec => []PagesTypeOK
<1>1. PagesInit => PageOK
  BY DEF PagesInit, PageOK
<1>2. TypeOK /\ PageOK /\ [PagesNext]_<<vars, page>> => PageOK'
  <2> SUFFICES ASSUME TypeOK, PageOK, [PagesNext]_<<vars, page>>
               PROVE  PageOK'
    OBVIOUS
  <2>1. CASE UNCHANGED page
    BY <2>1 DEF PageOK, NoPage
  <2>2. CASE RequestPage
    BY <2>2 DEF RequestPage, PageOK, TypeOK
  <2>3. CASE PageListsIncomes
    BY <2>3 DEF PageListsIncomes, PageOK, TypeOK, NoPage
  <2>4. CASE ShowPage \/ LosePage
    BY <2>4 DEF ShowPage, LosePage, PageOK
  <2> QED BY <2>1, <2>2, <2>3, <2>4 DEF PagesNext, Render
<1>3. TypeOK /\ PageOK => PagesTypeOK
  BY DEF PagesTypeOK, PageOK
<1> QED BY <1>1, <1>2, <1>3, LedgerRuns, TypeCorrect, PTL DEF PagesSpec

-----------------------------------------------------------------------------
(* The Shared page.  As long as no rowid is given again, an expense that was *)
(* listed is the one still stored under its rowid, and as shared as then.   *)

IsStillShared(listed) ==
  \A e \in DOMAIN listed :
    /\ e <= entered.expense
    /\ e \in DOMAIN expenses => expenses[e].shared = listed[e].shared

ListedInv == page.at = "listIncomes" /\ ~recycled => IsStillShared(page.expenses)

LEMMA StaysShared ==
  ASSUME TypeOK, TypeOK', AllStamped, ~recycled => AllKnow, [Next]_vars, ~recycled',
         NEW listed, DOMAIN listed \subseteq Ids, ~recycled => IsStillShared(listed)
  PROVE  IsStillShared(listed)'
<1> entered.expense \in Nat /\ entered'.expense \in Nat
  BY DEF TypeOK
<1>1. CASE UNCHANGED <<expenses, incomes, forgivenesses, entered, recycled>>
  BY <1>1 DEF IsStillShared
<1>2. ASSUME NEW w \in Windows, InsertForgiveness(w) \/ DeleteForgiveness(w)
      PROVE  IsStillShared(listed)'
  <2>1. UNCHANGED <<expenses, recycled>> /\ entered'.expense = entered.expense
    BY <1>2 DEF InsertForgiveness, DeleteForgiveness, TypeOK
  <2> QED BY <2>1 DEF IsStillShared
<1>3. ASSUME NEW w \in Windows, RecordStep(w)
      PROVE  IsStillShared(listed)'
  <2>1. ~recycled
    BY <1>3 DEF RecordStep, InsertExpense, InsertIncome, UpdateExpense, UpdateIncome,
                DeleteExpense, DeleteIncome
  <2>2. RecordsKept
    BY <1>3, <2>1, RecordStepKeeps
  <2> QED BY <2>1, <2>2 DEF IsStillShared, RecordsKept, SameKind, Ids
<1> QED BY <1>1, <1>2, <1>3, TableSteps

LEMMA ListedStep ==
  ASSUME TypeOK, TypeOK', AllStamped, ~recycled => AllKnow, PagesTypeOK, ListedInv,
         [PagesNext]_<<vars, page>>
  PROVE  ListedInv'
<1>1. CASE UNCHANGED page
  <2> SUFFICES ASSUME page.at = "listIncomes", ~recycled'
               PROVE  IsStillShared(page.expenses)'
    BY <1>1 DEF ListedInv
  <2>1. DOMAIN page.expenses \subseteq Ids
    BY DEF PagesTypeOK, NoPage, IsTable
  <2>2. IsStillShared(page.expenses) \/ recycled
    BY DEF ListedInv
  <2>3. PICK listed : listed = page.expenses
    OBVIOUS
  <2>4. DOMAIN listed \subseteq Ids /\ (~recycled => IsStillShared(listed))
    BY <2>1, <2>2, <2>3
  <2>5. IsStillShared(listed)'
    BY <2>4, LedgerSteps, StaysShared
  <2> QED BY <1>1, <2>3, <2>5
<1>2. CASE RequestPage /\ UNCHANGED vars
  BY <1>2 DEF RequestPage, ListedInv, IsStillShared, AllStamped, Stamped, vars
<1>3. CASE PageListsIncomes \/ ShowPage \/ LosePage
  BY <1>3 DEF PageListsIncomes, ShowPage, LosePage, NoPage, ListedInv
<1> QED BY <1>1, <1>2, <1>3 DEF PagesNext, Render

LEMMA ListedInvariant == PagesSpec => []ListedInv
<1>1. PagesInit => ListedInv
  BY DEF PagesInit, NoPage, ListedInv
<1>2. KnowInv => (~recycled => AllKnow)
  BY DEF KnowInv, AllKnow
<1>3. TypeOK /\ TypeOK' /\ AllStamped /\ (~recycled => AllKnow) /\ PagesTypeOK /\ ListedInv
        /\ [PagesNext]_<<vars, page>> => ListedInv'
  BY ListedStep
<1> QED BY <1>1, <1>2, <1>3, LedgerRuns, TypeCorrect, StampedInvariant, KnowInvariant,
           PagesTypeCorrect, PTL DEF PagesSpec

\* SharedPageIsScopedUnlessRecycled: whatever the handlers write between the two
\* lists, an income that goes on the Shared page has a shared parent or is a
\* settlement, until a rowid is given again.
THEOREM ScopedCorrect == PagesSpec => []SharedPageIsScopedUnlessRecycled
<1>1. ReferentialIntegrity /\ ListedInv => SharedPageIsScopedUnlessRecycled
  <2> SUFFICES ASSUME ReferentialIntegrity, ListedInv, ~recycled, page.at = "listIncomes",
                      NEW i \in ShownIncomes(page.expenses, incomes, TRUE),
                      ~incomes[i].settlement
               PROVE  /\ incomes[i].linked \in DOMAIN expenses
                      /\ expenses[incomes[i].linked].shared
    BY DEF SharedPageIsScopedUnlessRecycled, SharedPageIsScoped
  <2>1. /\ i \in DOMAIN incomes /\ incomes[i].linked # NoLink
        /\ ParentShared(page.expenses, incomes[i].linked)
    BY DEF ShownIncomes, TabIncomes
  <2>2. incomes[i].linked \in DOMAIN expenses
    BY <2>1 DEF ReferentialIntegrity
  <2> QED BY <2>1, <2>2 DEF ParentShared, ListedInv, IsStillShared
<1> QED BY <1>1, ListedInvariant, LedgerRuns, IntegrityCorrect, PTL

-----------------------------------------------------------------------------
(* Settlements.  They have no parent, stored as well as listed, with one    *)
(* window or as long as no rowid is given again.                            *)

Unlinked(is) == \A i \in DOMAIN is : is[i].settlement => is[i].linked = NoLink

LEMMA UnlinkedTableStep ==
  ASSUME TypeOK, UnlinkedSettlements, Alone \/ ~recycled => AllKnow,
         Alone \/ ~recycled => Unlinked(incomes), [Next]_vars, Alone \/ ~recycled'
  PROVE  Unlinked(incomes)'
<1>1. CASE UNCHANGED <<incomes, recycled>>
  BY <1>1 DEF Unlinked
<1>2. ASSUME NEW w \in Windows, RecordStep(w)
      PROVE  Unlinked(incomes)'
  <2>1. Unlinked(incomes) /\ AllKnow
    BY <1>2 DEF RecordStep, InsertExpense, InsertIncome, UpdateExpense, UpdateIncome,
                DeleteExpense, DeleteIncome
  <2>2. CASE InsertExpense(w) \/ UpdateExpense(w)
    BY <2>1, <2>2 DEF InsertExpense, UpdateExpense, Unlinked
  <2>3. CASE InsertIncome(w)
    <3>1. windows[w].row \in IncomeRows /\ windows[w].at = "insertIncome"
      BY <2>3, InsertedIncome
    <3>2. windows[w].row.settlement => windows[w].row.linked = NoLink
      BY <3>1 DEF UnlinkedSettlements, At
    <3>3. CASE UNCHANGED incomes
      BY <2>1, <3>3 DEF Unlinked
    <3>4. ASSUME NEW id, NEW row, incomes' = Put(incomes, id, row),
                 row = [windows[w].row EXCEPT !.createdAt = entered.income + 1]
          PROVE  Unlinked(incomes)'
      <4>1. row.settlement => row.linked = NoLink
        BY <3>1, <3>2, <3>4 DEF IncomeRows
      <4> QED BY <2>1, <3>4, <4>1 DEF Put, Unlinked
    <3> QED BY <2>3, <3>3, <3>4, InsertedIncome
  <2>4. CASE UpdateIncome(w)
    <3> DEFINE s == windows[w]
    <3>1. CASE incomes' = incomes
      BY <2>1, <3>1 DEF Unlinked
    <3>2. ASSUME s.id \in DOMAIN incomes, NEW row,
                 row = [s.row EXCEPT !.createdAt = incomes[s.id].createdAt,
                                     !.linked = incomes[s.id].linked],
                 incomes' = [incomes EXCEPT ![s.id] = row]
          PROVE  Unlinked(incomes)'
      <4>1. s.row.settlement = incomes[s.id].settlement /\ s.row \in IncomeRows
        BY <2>1, <2>4, <3>2, UpdatedIncome DEF AllKnow, Knows, Agrees
      <4>2. row.settlement = incomes[s.id].settlement /\ row.linked = incomes[s.id].linked
        BY <3>2, <4>1 DEF IncomeRows
      <4> HIDE DEF s
      <4> QED BY <2>1, <3>2, <4>2 DEF Unlinked
    <3> QED BY <2>4, <3>1, <3>2, UpdatedIncome
  <2>5. CASE DeleteExpense(w) \/ DeleteIncome(w)
    BY <2>1, <2>5 DEF DeleteExpense, DeleteIncome, Drop, Unlinked
  <2> QED BY <1>2, <2>2, <2>3, <2>4, <2>5 DEF RecordStep
<1>3. ASSUME NEW w \in Windows, InsertForgiveness(w) \/ DeleteForgiveness(w)
      PROVE  UNCHANGED <<incomes, recycled>>
  BY <1>3 DEF InsertForgiveness, DeleteForgiveness
<1> QED BY <1>1, <1>2, <1>3, TableSteps

LEMMA UnlinkedInvariant == Spec => [](Alone \/ ~recycled => Unlinked(incomes))
<1>1. Init => Unlinked(incomes)
  BY DEF Init, NoRows, Unlinked
<1>2. KnowInv => UnlinkedSettlements /\ (Alone \/ ~recycled => AllKnow)
  BY DEF KnowInv, AllKnow
<1>3. TypeOK /\ UnlinkedSettlements /\ (Alone \/ ~recycled => AllKnow)
        /\ (Alone \/ ~recycled => Unlinked(incomes)) /\ [Next]_vars
      => (Alone \/ ~recycled => Unlinked(incomes))'
  <2> SUFFICES ASSUME TypeOK, UnlinkedSettlements, Alone \/ ~recycled => AllKnow,
                      Alone \/ ~recycled => Unlinked(incomes), [Next]_vars
               PROVE  Alone \/ ~recycled' => Unlinked(incomes)'
    BY DEF Alone
  <2> QED BY UnlinkedTableStep
<1> QED BY <1>1, <1>2, <1>3, TypeCorrect, KnowInvariant, PTL DEF Spec

-----------------------------------------------------------------------------
(* The lists of a page are finite, of legal expenses and settlements on     *)
(* their own, though they are of two moments.                               *)

Legal(es) == \A e \in DOMAIN es : IsLegal(es[e])

Countable ==
  /\ page # NoPage =>
       IsFiniteSet(DOMAIN page.expenses) /\ Legal(page.expenses)
  /\ page.at = "listForgivenesses" =>
       /\ IsFiniteSet(DOMAIN page.incomes)
       /\ Alone \/ ~recycled => Unlinked(page.incomes)

LEMMA RecycledStays ==
  ASSUME TypeOK, [Next]_vars, recycled
  PROVE  recycled'
<1>1. CASE UNCHANGED recycled
  BY <1>1
<1>2. ASSUME NEW w \in Windows, RecordStep(w)
      PROVE  recycled'
  BY <1>2 DEF RecordStep, InsertExpense, InsertIncome, UpdateExpense, UpdateIncome,
              DeleteExpense, DeleteIncome
<1>3. ASSUME NEW w \in Windows, InsertForgiveness(w) \/ DeleteForgiveness(w)
      PROVE  UNCHANGED recycled
  BY <1>3 DEF InsertForgiveness, DeleteForgiveness
<1> QED BY <1>1, <1>2, <1>3, TableSteps

LEMMA CountableStep ==
  ASSUME TypeOK, TypeOK', AllStamped, ExpenseKinds, Alone \/ ~recycled => Unlinked(incomes),
         PageOK, Countable, [PagesNext]_<<vars, page>>
  PROVE  Countable'
<1>1. CASE UNCHANGED page
  <2>1. recycled => recycled'
    BY LedgerSteps, RecycledStays
  <2> QED BY <1>1, <2>1 DEF Countable, NoPage, Legal, Unlinked, Alone
<1>2. CASE RequestPage
  BY <1>2, TablesAreFinite DEF RequestPage, Countable, ExpenseKinds, Legal
<1>3. CASE PageListsIncomes /\ UNCHANGED vars
  <2>1. page # NoPage
    BY <1>3 DEF PageListsIncomes, NoPage
  <2> QED BY <1>3, <2>1, TablesAreFinite
          DEF PageListsIncomes, Countable, Legal, Unlinked, Alone, vars
<1>4. CASE ShowPage \/ LosePage
  BY <1>4 DEF ShowPage, LosePage, NoPage, Countable
<1> QED BY <1>1, <1>2, <1>3, <1>4 DEF PagesNext, Render

LEMMA CountableInvariant == PagesSpec => [](PageOK /\ Countable)
<1>1. PagesInit => Countable
  BY DEF PagesInit, NoPage, Countable
<1>2. TypeOK /\ TypeOK' /\ AllStamped /\ ExpenseKinds
        /\ (Alone \/ ~recycled => Unlinked(incomes)) /\ PageOK /\ Countable
        /\ [PagesNext]_<<vars, page>> => Countable'
  BY CountableStep
<1>3. PagesTypeOK => PageOK
  BY DEF PagesTypeOK, PageOK
<1> QED BY <1>1, <1>2, <1>3, LedgerRuns, TypeCorrect, StampedInvariant, KindsCorrect,
           UnlinkedInvariant, PagesTypeCorrect, PTL DEF PagesSpec

LEMMA ListedAmounts ==
  ASSUME PageOK, Countable, page.at = "listForgivenesses"
  PROVE  /\ HasAmounts(page.expenses) /\ HasAmounts(page.incomes)
         /\ NoLink \notin DOMAIN page.expenses
<1>1. /\ IsTable(page.expenses, ExpenseRows) /\ IsTable(page.incomes, IncomeRows)
      /\ IsFiniteSet(DOMAIN page.expenses) /\ IsFiniteSet(DOMAIN page.incomes)
  BY DEF PageOK, Countable, NoPage
<1>2. Amounts \subseteq Int
  BY EntryAssumption DEF PositiveCents
<1> QED BY <1>1, <1>2 DEF IsTable, ExpenseRows, IncomeRows, HasAmounts, Ids, NoLink

-----------------------------------------------------------------------------
(* The balance above the rows. *)

LEMMA RestrictionAmounts ==
  ASSUME NEW table, HasAmounts(table), NEW ids \in SUBSET DOMAIN table
  PROVE  /\ HasAmounts(Restriction(table, ids)) /\ DOMAIN Restriction(table, ids) = ids
         /\ \A id \in ids : Restriction(table, ids)[id] = table[id]
  BY FS_Subset DEF HasAmounts, Restriction

LEMMA RowsGiveTheBalance ==
  ASSUME NEW es, NEW is, NEW fs, HasAmounts(es), HasAmounts(is), HasAmounts(fs),
         Unlinked(is), NoLink \notin DOMAIN es,
         \A e \in DOMAIN es : es[e].shared \in BOOLEAN
  PROVE  OwedByCarla(es, is, fs)
           = OwedByCarla(Restriction(es, TabExpenses(es, TRUE)),
                         Restriction(is, ShownIncomes(es, is, TRUE)), fs)
<1> DEFINE A == TabExpenses(es, TRUE)
           B == ShownIncomes(es, is, TRUE)
           es2 == Restriction(es, A)
           is2 == Restriction(is, B)
<1>1. A \in SUBSET DOMAIN es /\ B \in SUBSET DOMAIN is
  BY DEF TabExpenses, ShownIncomes, TabIncomes
<1>2. /\ HasAmounts(es2) /\ DOMAIN es2 = A /\ \A e \in A : es2[e] = es[e]
      /\ HasAmounts(is2) /\ DOMAIN is2 = B /\ \A i \in B : is2[i] = is[i]
  BY <1>1, RestrictionAmounts
<1>3. \A e \in DOMAIN es : es[e].shared \/ es[e].settlement => e \in A
  BY DEF TabExpenses, InSharedTab
<1>4. ASSUME NEW payer
      PROVE  PaidBy(es2, payer) = PaidBy(es, payer)
  <2> HIDE DEF A, B, es2, is2
  <2> QED BY <1>1, <1>2, <1>3 DEF PaidBy
<1>5. Settled(es2) = Settled(es) /\ \A e \in Settled(es) : es2[e].amount = es[e].amount
  <2> HIDE DEF A, B, es2, is2
  <2> QED BY <1>1, <1>2, <1>3 DEF Settled
<1>6. Settled(is2) = Settled(is) /\ \A i \in Settled(is) : is2[i].amount = is[i].amount
  <2>1. Settled(is) \subseteq B
    BY DEF Settled, ShownIncomes, TabIncomes, Unlinked
  <2> HIDE DEF A, B, es2, is2
  <2> QED BY <1>1, <1>2, <2>1 DEF Settled
<1>7. ASSUME NEW payer, NEW e \in PaidBy(es, payer)
      PROVE  NetCost(es2, is2, e) = NetCost(es, is, e)
  <2>1. e \in DOMAIN es /\ es[e].shared /\ e \in A
    BY <1>3 DEF PaidBy
  <2>2. Linked(is, e) \subseteq B
    BY <2>1 DEF Linked, ShownIncomes, TabIncomes, ParentShared
  <2>3. Linked(is2, e) = Linked(is, e)
    <3> HIDE DEF A, B, es2, is2
    <3> QED BY <1>1, <1>2, <2>2 DEF Linked
  <2>4. Total(Column(is2), Linked(is, e)) = Total(Column(is), Linked(is, e))
    <3> HIDE DEF A, B, es2, is2
    <3>1. IsFiniteSet(Linked(is, e))
      BY FS_Subset DEF Linked, HasAmounts
    <3>2. \A i \in Linked(is, e) : Column(is2)[i] = Column(is)[i]
      BY <1>1, <1>2, <2>2 DEF Column
    <3> QED BY <3>1, <3>2, TotalSame
  <2>5. e \in DOMAIN es2 /\ es2[e].amount = es[e].amount
    <3> HIDE DEF A, B, es2, is2
    <3> QED BY <1>2, <2>1
  <2> HIDE DEF A, B, es2, is2
  <2> QED BY <1>2, <2>1, <2>3, <2>4, <2>5, NetCostType
<1> HIDE DEF A, B, es2, is2
<1>8. OwedByCarla(es2, is2, fs) = OwedByCarla(es, is, fs)
  BY <1>2, <1>4, <1>5, <1>6, <1>7, OwedSame
<1> QED BY <1>8 DEF A, B, es2, is2

\* BannerAgreesWithRows: the balance is the rows' whatever is written between the
\* lists, with one window or until a rowid is given again.
THEOREM BannerCorrect == PagesSpec => [](Alone \/ ~recycled => BannerAgreesWithRows)
<1>1. TypeOK /\ AllStamped /\ PageOK /\ Countable
        => (Alone \/ ~recycled => BannerAgreesWithRows)
  <2> SUFFICES ASSUME TypeOK, AllStamped, PageOK, Countable, Alone \/ ~recycled,
                      page.at = "listForgivenesses"
               PROVE  OwedByCarla(page.expenses, page.incomes, forgivenesses)
                        = OwedByCarla(Restriction(page.expenses, TabExpenses(page.expenses, TRUE)),
                            Restriction(page.incomes,
                              ShownIncomes(page.expenses, page.incomes, TRUE)), forgivenesses)
    BY DEF BannerAgreesWithRows
  <2>1. Unlinked(page.incomes) /\ HasAmounts(forgivenesses)
    BY StoredAmounts DEF Countable
  <2>2. \A e \in DOMAIN page.expenses : page.expenses[e].shared \in BOOLEAN
    BY DEF PageOK, NoPage, IsTable, ExpenseRows
  <2> QED BY <2>1, <2>2, ListedAmounts, RowsGiveTheBalance
<1> QED BY <1>1, LedgerRuns, TypeCorrect, StampedInvariant, CountableInvariant, PTL

-----------------------------------------------------------------------------
(* The totals of the days. *)

CostColumn(es, is, shared) == [e \in DOMAIN es |-> Cost(es, is, shared, e)]

DayRows(es, shared, date) == {e \in TabExpenses(es, shared) : es[e].date = date}

LEMMA DayAsTotal ==
  ASSUME NEW es, NEW is, NEW shared, NEW date, IsFiniteSet(DOMAIN es)
  PROVE  DayTotal(es, is, shared, date)
           = Total(CostColumn(es, is, shared), DayRows(es, shared, date))
<1> DEFINE S == DayRows(es, shared, date)
           Folds(f) ==
             f = [s \in SUBSET S |->
                    IF s = {} THEN 0
                    ELSE Cost(es, is, shared, CHOOSE x \in s : TRUE)
                           + f[s \ {CHOOSE x \in s : TRUE}]]
<1>1. IsFiniteSet(S) /\ S \subseteq DOMAIN es
  BY FS_Subset DEF DayRows, TabExpenses
<1>2. \A f : Folds(f) <=> Sums(f, CostColumn(es, is, shared), S)
  <2>1. \A s \in SUBSET S : s # {} => (CHOOSE x \in s : TRUE) \in DOMAIN es
    BY <1>1
  <2> HIDE DEF S
  <2> QED BY <2>1 DEF Sums, CostColumn
<1>3. DayTotal(es, is, shared, date) = (CHOOSE f : Folds(f))[S]
  BY Zenon DEF DayTotal, DayRows, MapThenSumSet, MapThenFoldSet
<1>4. Folds(CHOOSE f : Folds(f))
  <2> HIDE DEF Folds
  <2> QED BY <1>1, <1>2, SumsExist
<1> HIDE DEF Folds, S
<1> QED BY <1>1, <1>2, <1>3, <1>4, TotalSums DEF S

\* What an expense costs its tab is what it cost, and a settlement costs nothing.
LEMMA TabCosts ==
  ASSUME NEW es, NEW is, HasAmounts(es), HasAmounts(is), Unlinked(is), Legal(es),
         NoLink \notin DOMAIN es, NEW e \in DOMAIN es, es[e].shared \in BOOLEAN
  PROVE  /\ es[e].settlement => Cost(es, is, TRUE, e) = 0
         /\ ~es[e].settlement /\ es[e].shared => Cost(es, is, TRUE, e) = NetCost(es, is, e)
         /\ ~es[e].settlement /\ ~es[e].shared => Cost(es, is, FALSE, e) = NetCost(es, is, e)
<1>1. CASE es[e].settlement
  <2>1. ~es[e].shared
    BY <1>1 DEF Legal, IsLegal
  <2>2. PaybacksOn(es, is, TRUE, e) = {}
    BY <2>1 DEF PaybacksOn, TabIncomes, ParentShared, Unlinked
  <2> QED BY <1>1, <2>2 DEF Cost
<1>2. ASSUME NEW shared \in BOOLEAN, es[e].shared = shared, ~es[e].settlement
      PROVE  Cost(es, is, shared, e) = NetCost(es, is, e)
  <2>1. PaybacksOn(es, is, shared, e) = Linked(is, e)
    BY <1>2 DEF PaybacksOn, TabIncomes, ParentShared, Unlinked, Linked
  <2> QED BY <1>2, <2>1 DEF Cost, NetCost, Linked
<1> QED BY <1>1, <1>2

PaidOn(es, date) == {e \in DOMAIN es : es[e].date = date /\ ~es[e].settlement}
NetOver(es, is, ids) == MapThenSumSet(LAMBDA e : NetCost(es, is, e), ids)

LEMMA DaysAddUp ==
  ASSUME NEW es, NEW is, HasAmounts(es), HasAmounts(is), Unlinked(is), Legal(es),
         NoLink \notin DOMAIN es, \A e \in DOMAIN es : es[e].shared \in BOOLEAN,
         NEW date
  PROVE  DayTotal(es, is, TRUE, date) + DayTotal(es, is, FALSE, date)
           = NetOver(es, is, PaidOn(es, date))
<1> DEFINE Day == {e \in DOMAIN es : es[e].date = date}
           Ours == {e \in Day : ~es[e].settlement /\ es[e].shared}
           Mine == {e \in Day : ~es[e].settlement /\ ~es[e].shared}
           Even == {e \in Day : es[e].settlement}
           Net == NetColumn(es, is)
           T == CostColumn(es, is, TRUE)
           F == CostColumn(es, is, FALSE)
<1>1. /\ Ours \subseteq DOMAIN es /\ IsFiniteSet(Ours)
      /\ Mine \subseteq DOMAIN es /\ IsFiniteSet(Mine)
      /\ Even \subseteq DOMAIN es /\ IsFiniteSet(Even)
      /\ Ours \cup Even \subseteq DOMAIN es /\ IsFiniteSet(Ours \cup Even)
      /\ Ours \cup Mine \subseteq DOMAIN es /\ IsFiniteSet(Ours \cup Mine)
      /\ Ours \cap Even = {} /\ Ours \cap Mine = {}
  BY FS_Subset DEF HasAmounts
<1>2. DayRows(es, TRUE, date) = Ours \cup Even /\ DayRows(es, FALSE, date) = Mine
  BY DEF DayRows, TabExpenses, InSharedTab, Legal, IsLegal
<1>3. /\ \A e \in Ours : T[e] = Net[e] /\ Net[e] \in Int
      /\ \A e \in Mine : F[e] = Net[e] /\ Net[e] \in Int
      /\ \A e \in Even : T[e] = 0
  <2>1. /\ \A e \in DOMAIN es : T[e] = Cost(es, is, TRUE, e) /\ F[e] = Cost(es, is, FALSE, e)
        /\ \A e \in DOMAIN es : Net[e] = NetCost(es, is, e)
    BY DEF CostColumn, NetColumn
  <2>2. ASSUME NEW e \in DOMAIN es
        PROVE  /\ es[e].settlement => Cost(es, is, TRUE, e) = 0
               /\ ~es[e].settlement /\ es[e].shared => Cost(es, is, TRUE, e) = NetCost(es, is, e)
               /\ ~es[e].settlement /\ ~es[e].shared => Cost(es, is, FALSE, e) = NetCost(es, is, e)
               /\ NetCost(es, is, e) \in Int
    <3> HIDE DEF Day, Ours, Mine, Even, T, F, Net
    <3>1. NetCost(es, is, e) \in Int
      BY NetCostType
    <3> QED BY <3>1, TabCosts
  <2> HIDE DEF T, F, Net
  <2> QED BY <2>1, <2>2
<1>4. PaidOn(es, date) = Ours \cup Mine
  BY DEF PaidOn
<1>5. IsFiniteSet(DOMAIN es)
  BY DEF HasAmounts
<1>6. /\ DayTotal(es, is, TRUE, date) = Total(T, Ours \cup Even)
      /\ DayTotal(es, is, FALSE, date) = Total(F, Mine)
  <2> HIDE DEF Ours, Mine, Even
  <2> QED BY <1>2, <1>5, DayAsTotal
<1>7. NetOver(es, is, Ours \cup Mine) = Total(Net, Ours \cup Mine)
  <2> HIDE DEF Ours, Mine
  <2> QED BY <1>1, NetCostsAreTotal DEF NetOver
<1> HIDE DEF Day, Ours, Mine, Even, T, F, Net
<1>8. Total(T, Ours \cup Even) = Total(T, Ours) + Total(T, Even)
  BY <1>1, <1>3, TotalUnion
<1>9. Total(T, Even) = 0 /\ Total(T, Ours) = Total(Net, Ours) /\ Total(F, Mine) = Total(Net, Mine)
  BY <1>1, <1>3, TotalZero, TotalSame
<1>10. Total(Net, Ours \cup Mine) = Total(Net, Ours) + Total(Net, Mine)
  BY <1>1, <1>3, TotalUnion
<1>11. Total(Net, Ours) \in Int /\ Total(Net, Mine) \in Int
  BY <1>1, <1>3, TotalType
<1>12. Total(T, Ours \cup Even) = Total(Net, Ours)
  BY <1>8, <1>9, <1>11
<1>13. NetOver(es, is, PaidOn(es, date)) = Total(Net, Ours) + Total(Net, Mine)
  BY <1>4, <1>7, <1>10
<1> QED BY <1>6, <1>9, <1>12, <1>13

\* DaysCostWhatWasPaid: the tabs count every expense and every payback of a day
\* once, for any records, with one window or until a rowid is given again.
THEOREM DaysCorrect == PagesSpec => [](Alone \/ ~recycled => DaysCostWhatWasPaid)
<1>1. PageOK /\ Countable => (Alone \/ ~recycled => DaysCostWhatWasPaid)
  <2> SUFFICES ASSUME PageOK, Countable, Alone \/ ~recycled, page.at = "listForgivenesses"
               PROVE  \A date \in Dates :
                        DayTotal(page.expenses, page.incomes, TRUE, date)
                          + DayTotal(page.expenses, page.incomes, FALSE, date)
                        = NetOver(page.expenses, page.incomes, PaidOn(page.expenses, date))
    BY Zenon DEF DaysCostWhatWasPaid, NetOver, PaidOn
  <2>1. Unlinked(page.incomes) /\ Legal(page.expenses)
    BY DEF Countable, NoPage
  <2>2. \A e \in DOMAIN page.expenses : page.expenses[e].shared \in BOOLEAN
    BY DEF PageOK, NoPage, IsTable, ExpenseRows
  <2> QED BY <2>1, <2>2, ListedAmounts, DaysAddUp
<1> QED BY <1>1, LedgerRuns, CountableInvariant, PTL

=============================================================================
