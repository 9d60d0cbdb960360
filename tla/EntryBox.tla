------------------------------ MODULE EntryBox ------------------------------
(***************************************************************************)
(* One record from the line it was entered with to the edit boxes that     *)
(* open with its canonical line, while days go by: a box may be saved on a *)
(* later day than it was opened.  The user leaves the box as it is.        *)
(***************************************************************************)
EXTENDS EntryDate, EntryText

CONSTANTS
  FirstDay, LastDay,   \* bound: the days the system runs
  LinesOn(_)           \* bound: the lines that may be entered on a day

VARIABLES
  today,
  typed,    \* the line the record was entered with, empty before
  stored,   \* the record's day
  text,     \* its amount, kind, description and account
  box       \* the line in the edit box, empty while it is closed

record == <<typed, stored, text>>
vars == <<today, record, box>>

DateOf(p) == IF p.dates = <<>> THEN today ELSE Resolved(p.dates[1], today)

TextOf(p) == [amount |-> p.amount, sigil |-> p.sigil,
              description |-> p.description, account |-> p.account]

TypeOK ==
  /\ IsDay(today) /\ IsDay(stored)
  /\ text.amount \in 0..MaxInt /\ text.sigil \in {"plain", "plus", "equals"}
  /\ box # <<>> => typed # <<>>

Init ==
  /\ today = FirstDay
  /\ typed = <<>> /\ stored = FirstDay /\ text = TextOf(Blank)
  /\ box = <<>>

NextDay ==
  /\ After(LastDay, today)
  /\ today' = DaysBefore(-1, today)
  /\ UNCHANGED <<record, box>>

\* Parse finds no error; the kind rules are those of Entry.
Enter ==
  /\ typed = <<>>
  /\ \E line \in LinesOn(today) :
       LET p == Parse(line) IN
       /\ OK(p)
       /\ typed' = line /\ stored' = DateOf(p) /\ text' = TextOf(p)
  /\ UNCHANGED <<today, box>>

\* GET /edit.
OpenBox ==
  /\ typed # <<>> /\ box = <<>> /\ Editable(stored, today)
  /\ box' = EntryLine(text, Short(stored[2], stored[3]))
  /\ UNCHANGED <<today, record>>

\* POST /edit, some day: 403 past the edit window, 422 for a line with an error.
SaveBox ==
  /\ box # <<>>
  /\ IF Editable(stored, today) /\ OK(Parse(box))
     THEN stored' = DateOf(Parse(box)) /\ text' = TextOf(Parse(box))
     ELSE UNCHANGED <<stored, text>>
  /\ box' = <<>>
  /\ UNCHANGED <<today, typed>>

Next == NextDay \/ Enter \/ OpenBox \/ SaveBox

Spec == Init /\ [][Next]_vars

-----------------------------------------------------------------------------
\* The line a box opens with can be saved and says what the record holds,
\* whatever was typed: a description may hold numbers with and without a sigil
\* (EntryLine: "the line re-parses to the same record").
BoxSaysWhatIsStored ==
  box # <<>> => OK(Parse(box)) /\ TextOf(Parse(box)) = text

\* Of the numbers in a line the first one that is positive.
IsPositive(token) == token.form = "number" /\ Exact(token) > 0
IsAmount(line, i) ==
  i \in DOMAIN line /\ IsPositive(line[i]) /\ \A j \in 1..(i - 1) : ~IsPositive(line[j])
AmountToken(line) == line[CHOOSE i \in DOMAIN line : IsAmount(line, i)]

\* The amount stored is the one typed, rounded to the cent, when an int can hold
\* the numbers of the line.
Fits(line) == \A i \in DOMAIN line : line[i].form = "number" => Exact(line[i]) <= MaxInt
AmountIsTheOneTyped ==
  typed # <<>> /\ Fits(typed) => text.amount = Exact(AmountToken(typed))

\* Saving the line the box opened with keeps the record's day, however long the
\* box was open (ADR-0008: every editable item renders drift-free).
EditKeepsDate == [][box # <<>> => stored' = stored]_vars

IsLeapDay(day) == day[2] = 2 /\ day[3] = 29

\* EditKeepsDate for every record that is neither dated in the future nor on a
\* 29 February: across year ends, leap years and the edit window's last day.
EditKeepsOrdinaryDate ==
  [][box # <<>> /\ ~After(stored, today) /\ ~IsLeapDay(stored) => stored' = stored]_vars

\* A DD/MM about to be typed resolves to a day no later than today, and one that
\* may be edited at once: on a 29 February the day after a year before may not.
ShortDateIsRecent ==
  typed = <<>> =>
    \A month \in 1..12, day \in 1..31 :
      LET on == Resolved(Short(month, day), today) IN
      /\ ~After(on, today)
      /\ Editable(on, today) \/ (IsLeapDay(today) /\ on = YearBefore(today))

\* resolveDate: "the most recent occurrence at or before today", for any numbers.
ShortDateIsPast ==
  \A month \in 0..99, day \in 0..99 : ~After(Resolved(Short(month, day), today), today)

\* AmountIsTheOneTyped for numbers of any length.
AmountNeverWraps ==
  typed # <<>> => text.amount = Exact(AmountToken(typed))

\* ParsedEntry: with no errors "the line is safe to store".  A stored day that
\* cannot be read back makes every list fail.
StoredDayIsReadable == Readable(stored)

=============================================================================
