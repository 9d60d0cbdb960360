SPECIFICATION Spec
CONSTANTS
  Windows = {w1, w2}
  Amounts = {1}
  Dates = {day}
  MaxExpenses = 2
  MaxIncomes = 1
  MaxForgivenesses = 0
PROPERTY GoneParentIsRefused
