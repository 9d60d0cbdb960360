SPECIFICATION Spec
CONSTANTS
  Windows = {w1}
  Amounts = {1}
  Dates = {day}
  MaxExpenses = 2
  MaxIncomes = 2
  MaxForgivenesses = 1
PROPERTIES BookSpec ForgivesAtMostTheBalance SettlementLeavesAtMostACent OldRecordsAreFrozen
