SPECIFICATION PagesSpec
CONSTANTS
  Windows = {w1}
  Amounts = {1}
  Dates = {day}
  MaxExpenses = 2
  MaxIncomes = 2
  MaxForgivenesses = 0
INVARIANTS SharedPageIsScopedUnlessRecycled DaysCostWhatWasPaid BannerAgreesWithRows
