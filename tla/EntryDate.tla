----------------------------- MODULE EntryDate ------------------------------
(***************************************************************************)
(* Days and date tokens: Go's calendar as the program uses it, how a token *)
(* resolves (parse.go), the edit window (expense.go) and which days can be *)
(* read back from the date column (crud.go).  A day is <<year, month, day>>.*)
(***************************************************************************)
EXTENDS Integers

-----------------------------------------------------------------------------
(* Go's time package, with years that begin in March as its own arithmetic. *)

\* Days since a fixed day, the same for every way to write one day.
DayNumber(y, m, d) ==
  LET march == y * 12 + m - 3
      year == march \div 12
  IN  365 * year + year \div 4 - year \div 100 + year \div 400
        + (153 * (march % 12) + 2) \div 5 + d

DayNumbered(n) ==
  LET era  == (n - 1) \div 146097
      left == (n - 1) % 146097
      yoe  == (left - left \div 1460 + left \div 36524 - left \div 146096) \div 365
      doy  == left - (365 * yoe + yoe \div 4 - yoe \div 100)
      mp   == (5 * doy + 2) \div 153
      m    == IF mp < 10 THEN mp + 3 ELSE mp - 9
  IN  <<era * 400 + yoe + (IF m <= 2 THEN 1 ELSE 0), m,
        doy - (153 * mp + 2) \div 5 + 1>>

\* time.Date: a day or a month out of its range runs into the next, or back.
Date(y, m, d) == DayNumbered(DayNumber(y, m, d))

IsDay(day) == day = DayNumbered(DayNumber(day[1], day[2], day[3]))

After(a, b) == DayNumber(a[1], a[2], a[3]) > DayNumber(b[1], b[2], b[3])

\* AddDate.
YearBefore(day) == Date(day[1] - 1, day[2], day[3])
DaysBefore(n, day) == Date(day[1], day[2], day[3] - n)

-----------------------------------------------------------------------------
(* "-N", "DD/MM" and "DD/MM/YYYY": the numbers are not looked at.           *)

Relative(n) == [form |-> "relative", back |-> n]
Short(m, d) == [form |-> "short", month |-> m, day |-> d]
Full(y, m, d) == [form |-> "full", year |-> y, month |-> m, day |-> d]

\* Bug: a day still to come this year is not rolled back.
ResolvedThisYear(token, today) ==
  Date(IF token.form = "full" THEN token.year ELSE today[1], token.month, token.day)

\* resolveDate.
Resolved(token, today) ==
  CASE token.form = "relative" -> DaysBefore(token.back, today)
    [] token.form = "full" -> Date(token.year, token.month, token.day)
    [] token.form = "short" ->
         LET candidate == Date(today[1], token.month, token.day)
         IN  IF After(candidate, today) THEN YearBefore(candidate) ELSE candidate

\* Bug: a record exactly one year old may still be edited.
EditableInclusive(day, today) == ~After(YearBefore(today), day)

Editable(day, today) == After(day, YearBefore(today))

\* Format writes as many digits as a year has, and a sign; Parse takes four
\* digits and a hyphen.
Readable(day) == day[1] \in 0..9999

=============================================================================
