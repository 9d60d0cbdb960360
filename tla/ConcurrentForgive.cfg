SPECIFICATION Spec
CONSTANTS
  Windows = {w1, w2}
  Amounts = {1}
  Dates = {day}
  MaxExpenses = 1
  MaxIncomes = 0
  MaxForgivenesses = 2
PROPERTY ForgivesAtMostTheBalance
