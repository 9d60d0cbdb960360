------------------------------ MODULE Balance ------------------------------
(***************************************************************************)
(* The Shared balance (internal/expense/balance.go), over tables: partial  *)
(* functions from ids to rows.                                             *)
(***************************************************************************)
EXTENDS Integers, FiniteSetsExt

AmountsOf(table, ids) == MapThenSumSet(LAMBDA id : table[id].amount, ids)

\* The expense's amount less its linked paybacks.
NetCost(expenses, incomes, id) ==
  expenses[id].amount
    - AmountsOf(incomes, {i \in DOMAIN incomes : incomes[i].linked = id})

\* Bug: a Settlement moves the balance the wrong way.
OwedByJavi2Unsettled(expenses, incomes) ==
  LET NetPaidBy(payer) ==
        MapThenSumSet(LAMBDA id : NetCost(expenses, incomes, id),
          {id \in DOMAIN expenses :
             /\ ~expenses[id].settlement
             /\ expenses[id].shared
             /\ expenses[id].paidBy = payer})
      SettledBy(table) ==
        AmountsOf(table, {id \in DOMAIN table : table[id].settlement})
  IN  NetPaidBy("carla") - NetPaidBy("javi")
        + 2 * SettledBy(expenses) - 2 * SettledBy(incomes)

\* What Javi owes Carla in half cents, before rounding (negative: she owes).
OwedByJavi2(expenses, incomes) ==
  LET NetPaidBy(payer) ==
        MapThenSumSet(LAMBDA id : NetCost(expenses, incomes, id),
          {id \in DOMAIN expenses :
             /\ ~expenses[id].settlement
             /\ expenses[id].shared
             /\ expenses[id].paidBy = payer})
      SettledBy(table) ==
        AmountsOf(table, {id \in DOMAIN table : table[id].settlement})
  IN  NetPaidBy("carla") - NetPaidBy("javi")
        - 2 * SettledBy(expenses) + 2 * SettledBy(incomes)

\* Half cents to the nearest cent, a half away from zero: Go's / truncates.
Rounded(n) == IF n < 0 THEN -((-n + 1) \div 2) ELSE (n + 1) \div 2

\* Bug: a Forgiveness taken off before rounding.
OwedByCarlaRoundedLast(expenses, incomes, forgivenesses) ==
  -Rounded(OwedByJavi2(expenses, incomes)
             + 2 * AmountsOf(forgivenesses, DOMAIN forgivenesses))

\* What Carla owes Javi, as shown (negative: he owes).  A Forgiveness comes
\* off the rounded figure.
OwedByCarla(expenses, incomes, forgivenesses) ==
  -Rounded(OwedByJavi2(expenses, incomes))
    - AmountsOf(forgivenesses, DOMAIN forgivenesses)

=============================================================================
