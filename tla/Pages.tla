-------------------------------- MODULE Pages --------------------------------
(***************************************************************************)
(* The home page (internal/server: renderHome, view.go): one tab of the    *)
(* ledger, grouped by day, under the Shared balance.  It is made of three  *)
(* lists read one after the other while the handlers of Ledger write.      *)
(* Carla is only ever sent the Shared tab.                                 *)
(***************************************************************************)
EXTENDS LedgerProperties

VARIABLE page   \* the page being rendered: the lists read so far

NoPage == [at |-> "none"]

PagesTypeOK ==
  /\ TypeOK
  /\ \/ page = NoPage
     \/ /\ page.at \in {"listIncomes", "listForgivenesses"}
        /\ IsTable(page.expenses, ExpenseRows)
        /\ page.at = "listForgivenesses" => IsTable(page.incomes, IncomeRows)

-----------------------------------------------------------------------------
(* tabRecords: what a tab lists, out of every expense es and income is.     *)

\* Bug: the settlements are left to the ordinary tab.
TabExpensesShared(es, shared) == {e \in DOMAIN es : es[e].shared = shared}

TabExpenses(es, shared) == {e \in DOMAIN es : InSharedTab(es[e]) = shared}

\* Bug: a settlement's tab is taken for its paybacks'.
ParentSharedByTab(es, e) == e \in DOMAIN es /\ InSharedTab(es[e])

\* A parent that is not in the list reads as not shared.
ParentShared(es, e) == e \in DOMAIN es /\ es[e].shared

\* Bug: the incomes on their own are listed in both tabs.
TabIncomesInBoth(es, is, shared) ==
  {i \in DOMAIN is :
     \/ is[i].settlement /\ shared
     \/ /\ ~is[i].settlement /\ is[i].linked # NoLink
        /\ ParentShared(es, is[i].linked) = shared
     \/ ~is[i].settlement /\ is[i].linked = NoLink}

TabIncomes(es, is, shared) ==
  {i \in DOMAIN is :
     \/ is[i].settlement /\ shared
     \/ /\ ~is[i].settlement /\ is[i].linked # NoLink
        /\ ParentShared(es, is[i].linked) = shared
     \/ ~is[i].settlement /\ is[i].linked = NoLink /\ ~shared}

\* bucketIncomes: the incomes of the tab that hang from the row of an expense.
PaybacksOn(es, is, shared, e) ==
  {i \in TabIncomes(es, is, shared) : is[i].linked = e}

\* The incomes a tab shows: on a row of their own, or on their parent's.
ShownIncomes(es, is, shared) ==
  {i \in TabIncomes(es, is, shared) :
     is[i].linked \in TabExpenses(es, shared) \cup {NoLink}}

\* groupByDay: what an expense adds to its day's total.
Cost(es, is, shared, e) ==
  IF es[e].settlement /\ PaybacksOn(es, is, shared, e) = {} THEN 0
  ELSE es[e].amount - AmountsOf(is, PaybacksOn(es, is, shared, e))

DayTotal(es, is, shared, date) ==
  MapThenSumSet(LAMBDA e : Cost(es, is, shared, e),
    {e \in TabExpenses(es, shared) : es[e].date = date})

-----------------------------------------------------------------------------
(* renderHome.                                                              *)

\* The same lists are read for either tab: which one the page is of is settled
\* only when they are turned into rows.
RequestPage ==
  /\ page = NoPage
  /\ page' = [at |-> "listIncomes", expenses |-> expenses]

PageListsIncomes ==
  /\ page.at = "listIncomes"
  /\ page' = [at |-> "listForgivenesses",
              expenses |-> page.expenses, incomes |-> incomes]

\* The last list, and the page is sent.
ShowPage == page.at = "listForgivenesses" /\ page' = NoPage

\* A store error, or the client gone.
LosePage == page # NoPage /\ page' = NoPage

Render == RequestPage \/ PageListsIncomes \/ ShowPage \/ LosePage

PagesInit == Init /\ page = NoPage

PagesNext ==
  \/ Next /\ UNCHANGED page
  \/ Render /\ UNCHANGED vars

PagesSpec == PagesInit /\ [][PagesNext]_<<vars, page>>

-----------------------------------------------------------------------------
\* Every income on the Shared page is, as it is read, a settlement or a payback
\* of a shared expense, though the expenses were read before: what Carla sees is
\* the Shared tab only (CONTEXT.md, "sees only the Shared tab").
SharedPageIsScoped ==
  page.at = "listIncomes" =>
    \A i \in ShownIncomes(page.expenses, incomes, TRUE) :
      \/ incomes[i].settlement
      \/ incomes[i].linked \in DOMAIN expenses /\ expenses[incomes[i].linked].shared

\* SharedPageIsScoped until a rowid is given again.
SharedPageIsScopedUnlessRecycled == recycled \/ SharedPageIsScoped

\* What both tabs say a day cost is what the day's expenses cost, less all their
\* paybacks: no record counts in both tabs or in none, and a settlement is no
\* cost, paybacks of a settlement and records read late included (ADR-0015).
DaysCostWhatWasPaid ==
  page.at = "listForgivenesses" =>
    LET es == page.expenses
        is == page.incomes
        Paid(date) == {e \in DOMAIN es : es[e].date = date /\ ~es[e].settlement}
    IN  \A date \in Dates :
          DayTotal(es, is, TRUE, date) + DayTotal(es, is, FALSE, date)
            = MapThenSumSet(LAMBDA e : NetCost(es, is, e), Paid(date))

Restriction(table, ids) == [id \in ids |-> table[id]]

\* The balance over every record is the balance of the rows under it, so that the
\* two users can check it (server.go: it "runs over every stored record, not just
\* what the list shows").
BannerAgreesWithRows ==
  page.at = "listForgivenesses" =>
    LET es == page.expenses
        is == page.incomes
    IN  OwedByCarla(es, is, forgivenesses)
          = OwedByCarla(Restriction(es, TabExpenses(es, TRUE)),
                        Restriction(is, ShownIncomes(es, is, TRUE)), forgivenesses)

\* Every income is on a page of one of the two tabs (ADR-0015: "/ lists ordinary
\* expenses and incomes; /shared lists shared expenses, settlements, and the
\* paybacks of a shared expense").
EveryIncomeIsShown ==
  \A i \in DOMAIN incomes :
    \E shared \in BOOLEAN : i \in ShownIncomes(expenses, incomes, shared)

=============================================================================
