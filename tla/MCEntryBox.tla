---------------------------- MODULE MCEntryBox -----------------------------
(* The days and the lines of EntryBox, for TLC. *)
EXTENDS EntryBox

LeapWinter == <<2024, 2, 20>>
NextSpring == <<2025, 3, 5>>
Summer == <<2026, 7, 21>>

Word == [form |-> "word", text |-> "w"]
Plain(date) == <<Number("plain", 1, <<>>), Word, date>>

\* A plain line with every date of the years around.
DatedLines ==
  {Plain(Relative(n)) : n \in {0, 29, 365, 366}}
    \cup {Plain(Short(m, d)) : m \in 1..12, d \in 1..31}
    \cup {Plain(Full(y, m, d)) : y \in 2023..2025, m \in 1..12, d \in {1, 29, 31}}

\* In 11 bits the last two numbers wrap around, to below zero and to 368.
Tokens ==
  {Number("plain", 0, <<>>), Number("plus", 1, <<0, 5>>), Number("plain", 2, <<4, 9, 5>>),
   Number("equals", 3, <<7>>), Number("plain", 12, <<>>), Number("plus", 700, <<>>),
   Account("a"), Account("b"), Word, Short(7, 20), Relative(1)}

\* Every line of up to four tokens.
AllLines == UNION {[1..n -> Tokens] : n \in 1..4}

\* All lines on the last day, all dates on the days before.
Lines(on) == IF on = LastDay THEN AllLines ELSE DatedLines

\* Dates far away and dates that are none.
FarLines(on) == {Plain(Full(y, m, d)) : y \in {0, 2026, 9999}, m \in 0..13, d \in {0, 1, 31}}

=============================================================================
