----------------------------- MODULE EntryText ------------------------------
(***************************************************************************)
(* The entry line: Parse's walk over the tokens of a line, the arithmetic  *)
(* of an amount in W-bit integers, and the canonical line that fills an    *)
(* edit box (EntryLine).  A token is a record told apart by its form: a    *)
(* number with its sigil, whole part and decimals, a date, an @account, or *)
(* a word.                                                                 *)
(***************************************************************************)
EXTENDS Integers, Sequences, SequencesExt

CONSTANT W    \* bits of an int

\* An int is in -Half .. Half - 1.
Half == 2^(W - 1)

ASSUME EntryTextAssumption == W \in Nat \ {0} /\ Half \in Nat \ {0}

MaxInt == Half - 1
Wrap(n) == ((n + Half) % (2 * Half)) - Half

NoAccount == "none"

Number(sigil, whole, frac) ==
  [form |-> "number", sigil |-> sigil, whole |-> whole, frac |-> frac]
Account(tag) == [form |-> "account", tag |-> tag]

-----------------------------------------------------------------------------
(* amountMinorUnits.                                                        *)

\* strconv.Atoi gives the largest int for a number it cannot hold.
Atoi(n) == IF n > MaxInt THEN MaxInt ELSE n

\* The digit i of the decimals, padded with zeros.
Digit(frac, i) == IF i \in DOMAIN frac THEN frac[i] ELSE 0

\* Bug: the third decimal is cut off.
UnitsCutOff(token) ==
  Wrap(Atoi(token.whole) * 100 + 10 * Digit(token.frac, 1) + Digit(token.frac, 2))

Units(token) ==
  LET cents == 10 * Digit(token.frac, 1) + Digit(token.frac, 2)
      up == IF Digit(token.frac, 3) >= 5 THEN 1 ELSE 0
  IN  Wrap(Atoi(token.whole) * 100 + cents + up)

\* What was typed, in cents, half a cent rounding up: the reference for Units.
Thousandths(token) ==
  1000 * token.whole + 100 * Digit(token.frac, 1)
    + 10 * Digit(token.frac, 2) + Digit(token.frac, 3)
Exact(token) == (Thousandths(token) + 5) \div 10

-----------------------------------------------------------------------------
(* Parse.                                                                   *)

Blank == [amount |-> 0, sigil |-> "plain", description |-> <<>>,
          account |-> NoAccount, dates |-> <<>>, accounts |-> 0]

\* The first number of a positive amount is the amount; every other token that
\* is neither a date nor an account is left in the description.
Take(p, token) ==
  CASE token.form = "number" /\ p.amount = 0 /\ Units(token) > 0 ->
         [p EXCEPT !.amount = Units(token), !.sigil = token.sigil]
    [] token.form \in {"relative", "short", "full"} ->
         [p EXCEPT !.dates = Append(@, token)]
    [] token.form = "account" ->
         [p EXCEPT !.accounts = @ + 1,
                   !.account = IF p.accounts = 0 THEN token.tag ELSE @]
    [] OTHER -> [p EXCEPT !.description = Append(@, token)]

Parse(line) == FoldLeft(Take, Blank, line)

\* No save-gate error.
OK(p) ==
  /\ p.amount > 0 /\ p.description # <<>>
  /\ Len(p.dates) <= 1 /\ p.accounts <= 1

-----------------------------------------------------------------------------
(* EntryLine.                                                               *)

\* Bug: the cents without their leading zero ("%d.%d").
FormatAmountShort(sigil, amount) ==
  Number(sigil, amount \div 100,
         IF amount % 100 = 0 THEN <<>>
         ELSE IF amount % 100 < 10 THEN <<amount % 10>>
         ELSE <<(amount % 100) \div 10, amount % 10>>)

\* formatAmount behind the record's sigil.
FormatAmount(sigil, amount) ==
  Number(sigil, amount \div 100,
         IF amount % 100 = 0 THEN <<>> ELSE <<(amount % 100) \div 10, amount % 10>>)

AccountPart(text) == IF text.account = NoAccount THEN <<>> ELSE <<Account(text.account)>>

\* Bug: the description before the amount.
EntryLineDescribed(text, date) ==
  text.description \o <<FormatAmount(text.sigil, text.amount), date>> \o AccountPart(text)

EntryLine(text, date) ==
  <<FormatAmount(text.sigil, text.amount)>> \o text.description \o <<date>>
    \o AccountPart(text)

=============================================================================
