---------------------------- MODULE EntryProofs ----------------------------
(***************************************************************************)
(* Theorems about module EntryBox, for lines of any length, integers of    *)
(* any width and any days.                                                 *)
(***************************************************************************)
EXTENDS EntryBox, FiniteSetTheorems, SequenceTheorems, TLAPS

Forms == {"number", "word", "account", "relative", "short", "full"}
DateForms == {"relative", "short", "full"}
Sigils == {"plain", "plus", "equals"}

IsToken(t) ==
  /\ t.form \in Forms
  /\ t.form = "number" => t.sigil \in Sigils /\ t.whole \in Nat /\ t.frac \in Seq(0..9)
  /\ t.form = "account" => t.tag # NoAccount
  /\ t.form = "relative" => t.back \in Nat
  /\ t.form = "short" => t.month \in Nat /\ t.day \in Nat
  /\ t.form = "full" => t.year \in Nat /\ t.month \in Nat /\ t.day \in Nat

IsLine(line) == \E n \in Nat : DOMAIN line = 1..n /\ \A k \in 1..n : IsToken(line[k])

-----------------------------------------------------------------------------
(* Amounts.                                                                 *)

LEMMA Digits ==
  ASSUME NEW frac \in Seq(0..9), NEW i \in Nat
  PROVE  Digit(frac, i) \in 0..9
  BY DEF Digit

LEMMA ExactIs ==
  ASSUME NEW t, t.whole \in Nat, t.frac \in Seq(0..9)
  PROVE  /\ Exact(t) \in Nat
         /\ Exact(t) = 100 * t.whole + 10 * Digit(t.frac, 1) + Digit(t.frac, 2)
                         + (IF Digit(t.frac, 3) >= 5 THEN 1 ELSE 0)
<1> DEFINE a == t.whole
           d == Digit(t.frac, 1)
           e == Digit(t.frac, 2)
           f == Digit(t.frac, 3)
<1>1. a \in Nat /\ d \in 0..9 /\ e \in 0..9 /\ f \in 0..9
  BY Digits
<1>2. Exact(t) = (1000 * a + 100 * d + 10 * e + f + 5) \div 10
  BY DEF Exact, Thousandths
<1> HIDE DEF a, d, e, f
<1>3. (1000 * a + 100 * d + 10 * e + f + 5) \div 10
        = 100 * a + 10 * d + e + (IF f >= 5 THEN 1 ELSE 0)
  BY <1>1
<1>4. 100 * a + 10 * d + e + (IF f >= 5 THEN 1 ELSE 0) \in Nat
  BY <1>1
<1> QED BY <1>2, <1>3, <1>4 DEF a, d, e, f

LEMMA WrapFits ==
  ASSUME NEW n \in 0..MaxInt
  PROVE  Wrap(n) = n
<1>1. \A h \in Nat \ {0}, m \in Nat : m < h => (m + h) % (2 * h) = m + h
  OBVIOUS
<1> QED BY <1>1, EntryTextAssumption DEF Wrap, MaxInt

LEMMA UnitsAre ==
  ASSUME NEW t
  PROVE  Units(t) = Wrap(Atoi(t.whole) * 100 + (10 * Digit(t.frac, 1) + Digit(t.frac, 2))
                           + (IF Digit(t.frac, 3) >= 5 THEN 1 ELSE 0))
  BY DEF Units

LEMMA UnitsAreExact ==
  ASSUME NEW t, t.whole \in Nat, t.frac \in Seq(0..9), Exact(t) <= MaxInt
  PROVE  Units(t) = Exact(t)
<1> DEFINE a == t.whole
           d == Digit(t.frac, 1)
           e == Digit(t.frac, 2)
           up == IF Digit(t.frac, 3) >= 5 THEN 1 ELSE 0
           exact == Exact(t)
<1>1. a \in Nat /\ d \in 0..9 /\ e \in 0..9 /\ up \in {0, 1} /\ MaxInt \in Nat
  BY Digits, EntryTextAssumption DEF MaxInt
<1>2. exact = 100 * a + 10 * d + e + up /\ exact <= MaxInt
  BY ExactIs
<1>3. Units(t) = Wrap(Atoi(a) * 100 + (10 * d + e) + up)
  BY UnitsAre
<1> HIDE DEF a, d, e, up, exact
<1>4. a <= MaxInt
  BY <1>1, <1>2
<1>5. Atoi(a) * 100 + (10 * d + e) + up = exact
  BY <1>1, <1>2, <1>4 DEF Atoi
<1>6. exact \in 0..MaxInt
  BY <1>1, <1>2
<1> QED BY <1>3, <1>5, <1>6, WrapFits DEF exact

LEMMA UnitsAreInts ==
  ASSUME NEW t, t.whole \in Nat, t.frac \in Seq(0..9)
  PROVE  Units(t) \in Int /\ Units(t) <= MaxInt
<1>1. \A h \in Nat \ {0}, m \in Int : m % (2 * h) \in 0..(2 * h - 1)
  OBVIOUS
<1>2. \A n \in Int : Wrap(n) \in Int /\ Wrap(n) <= MaxInt
  BY <1>1, EntryTextAssumption DEF Wrap, MaxInt
<1> DEFINE a == Atoi(t.whole)
           d == Digit(t.frac, 1)
           e == Digit(t.frac, 2)
           up == IF Digit(t.frac, 3) >= 5 THEN 1 ELSE 0
<1>3. a \in Int /\ d \in 0..9 /\ e \in 0..9 /\ up \in {0, 1}
  BY Digits, EntryTextAssumption DEF MaxInt, Atoi
<1>4. Units(t) = Wrap(a * 100 + (10 * d + e) + up)
  BY UnitsAre
<1> HIDE DEF a, d, e, up
<1>5. a * 100 + (10 * d + e) + up \in Int
  BY <1>3
<1> QED BY <1>2, <1>4, <1>5

\* What an edit box writes for an amount is read back as that amount.
LEMMA AmountReadsBack ==
  ASSUME NEW sigil, NEW amount \in 1..MaxInt
  PROVE  LET t == FormatAmount(sigil, amount)
         IN  /\ t.form = "number" /\ t.sigil = sigil
             /\ t.whole \in Nat /\ t.frac \in Seq(0..9)
             /\ Units(t) = amount
<1> DEFINE t == FormatAmount(sigil, amount)
<1>1. /\ amount = 100 * (amount \div 100) + (amount % 100)
      /\ amount % 100 = 10 * ((amount % 100) \div 10) + (amount % 10)
      /\ amount \div 100 \in Nat /\ amount % 100 \in 0..99
      /\ (amount % 100) \div 10 \in 0..9 /\ amount % 10 \in 0..9
  <2>1. \A n \in Nat : /\ n = 100 * (n \div 100) + (n % 100)
                       /\ n % 100 = 10 * ((n % 100) \div 10) + (n % 10)
                       /\ n \div 100 \in Nat /\ n % 100 \in 0..99
                       /\ (n % 100) \div 10 \in 0..9 /\ n % 10 \in 0..9
    OBVIOUS
  <2> QED BY <2>1, EntryTextAssumption DEF MaxInt
<1>2. /\ t.form = "number" /\ t.sigil = sigil /\ t.whole = amount \div 100
      /\ t.frac = IF amount % 100 = 0 THEN <<>> ELSE <<(amount % 100) \div 10, amount % 10>>
  BY DEF FormatAmount, Number
<1> HIDE DEF t
<1>3. t.whole \in Nat /\ t.frac \in Seq(0..9)
  <2>1. \A a, b \in 0..9 : <<a, b>> \in Seq(0..9)
    OBVIOUS
  <2>2. <<>> \in Seq(0..9)
    OBVIOUS
  <2> QED BY <1>1, <1>2, <2>1, <2>2
<1>4. 10 * Digit(t.frac, 1) + Digit(t.frac, 2) = amount % 100 /\ Digit(t.frac, 3) = 0
  <2>1. CASE amount % 100 = 0
    BY <1>2, <2>1 DEF Digit
  <2>2. CASE amount % 100 # 0
    BY <1>1, <1>2, <2>2 DEF Digit
  <2> QED BY <2>1, <2>2
<1>5. Digit(t.frac, 1) \in 0..9 /\ Digit(t.frac, 2) \in 0..9
  BY <1>3, Digits
<1>6. Exact(t) = 100 * t.whole + 10 * Digit(t.frac, 1) + Digit(t.frac, 2)
                   + (IF Digit(t.frac, 3) >= 5 THEN 1 ELSE 0)
  BY <1>3, ExactIs
<1>7. Exact(t) = amount
  <2> DEFINE d == Digit(t.frac, 1)
             e == Digit(t.frac, 2)
             whole == amount \div 100
             rest == amount % 100
  <2>1. d \in 0..9 /\ e \in 0..9 /\ whole \in Nat /\ rest \in Nat /\ 10 * d + e = rest
    BY <1>1, <1>4, <1>5
  <2>2. Exact(t) = 100 * whole + 10 * d + e + 0
    BY <1>2, <1>4, <1>6
  <2>3. amount = 100 * whole + rest
    BY <1>1
  <2> HIDE DEF d, e, whole, rest
  <2> QED BY <2>1, <2>2, <2>3
<1>8. Units(t) = amount
  BY <1>3, <1>7, UnitsAreExact, EntryTextAssumption DEF MaxInt
<1> QED BY <1>2, <1>3, <1>8 DEF t

-----------------------------------------------------------------------------
(* Parse reads a line token by token.  FoldLeft folds over the positions of *)
(* the line, the largest one last; it is well defined because a smallest    *)
(* set of positions on which it would not be does not exist.                *)

LEMMA SmallestOf ==
  ASSUME NEW B \in SUBSET Nat, B # {}
  PROVE  \E m \in B : \A k \in B : m <= k
<1>1. PICK m \in B : \A k \in B : ~(<<k, m>> \in OpToRel(<, Nat))
  BY NatLessThanWellFounded, WFMin
<1>2. ASSUME NEW k \in B
      PROVE  m <= k
  <2>1. ~(k < m)
    BY <1>1 DEF OpToRel
  <2> QED BY <2>1
<1> QED BY <1>2

\* Induction over the tokens of a line, for the set of positions that are good.
LEMMA Climbs ==
  ASSUME NEW n \in Nat, NEW Good, 0 \in Good, \A m \in 1..n : m - 1 \in Good => m \in Good
  PROVE  \A k \in 0..n : k \in Good
<1> DEFINE Bad == {k \in 0..n : k \notin Good}
<1> SUFFICES ASSUME Bad # {}
             PROVE  FALSE
  OBVIOUS
<1>1. PICK m \in Bad : \A k \in Bad : m <= k
  <2>1. Bad \in SUBSET Nat
    OBVIOUS
  <2> HIDE DEF Bad
  <2> QED BY <2>1, SmallestOf
<1>2. m \in 1..n /\ m - 1 \in Good
  BY <1>1
<1> QED BY <1>2

LEMMA SmallestSet ==
  ASSUME NEW S, IsFiniteSet(S), NEW Bad \in SUBSET (SUBSET S), Bad # {}
  PROVE  \E T \in Bad : \A U \in Bad : U \subseteq T => U = T
<1>1. IsWellFoundedOn(StrictSubsetOrdering(S), SUBSET S)
  BY FS_StrictSubsetOrderingWellFounded, FS_FiniteSubsetsOfFinite
<1>2. PICK T \in Bad : \A U \in Bad : ~(<<U, T>> \in StrictSubsetOrdering(S))
  BY <1>1, WFMin
<1>3. ASSUME NEW U \in Bad, U \subseteq T
      PROVE  U = T
  <2> SUFFICES ASSUME U # T
               PROVE  <<U, T>> \in StrictSubsetOrdering(S)
    BY <1>2
  <2> QED BY <1>3 DEF StrictSubsetOrdering
<1> WITNESS T \in Bad
<1> QED BY <1>3

LEMMA SmallestPositions ==
  ASSUME NEW n \in Nat
  PROVE  \A Bad \in SUBSET (SUBSET (1..n)) :
           Bad # {} => \E T \in Bad : \A U \in Bad : U \subseteq T => U = T
<1> DEFINE P == 1..n
<1>1. IsFiniteSet(P)
  BY FS_Interval
<1> HIDE DEF P
<1>2. \A Bad \in SUBSET (SUBSET P) :
        Bad # {} => \E T \in Bad : \A U \in Bad : U \subseteq T => U = T
  BY <1>1, SmallestSet
<1> QED BY <1>2 DEF P

LEMMA LargestOf ==
  ASSUME NEW n \in Nat, NEW s \in SUBSET (1..n), s # {}
  PROVE  Max(s) \in s
<1> DEFINE B == {n - x : x \in s}
<1>1. B \in SUBSET Nat /\ B # {}
  <2>1. \A x \in 1..n : n - x \in Nat
    OBVIOUS
  <2> QED BY <2>1
<1>2. PICK m \in B : \A k \in B : m <= k
  <2> HIDE DEF B
  <2> QED BY <1>1, SmallestOf
<1>3. PICK x \in s : m = n - x
  OBVIOUS
<1>4. ASSUME NEW y \in s
      PROVE  x >= y
  <2>1. n - x <= n - y /\ x \in 1..n /\ y \in 1..n
    BY <1>2, <1>3
  <2> QED BY <2>1
<1> QED BY <1>3, <1>4 DEF Max

\* What a walk over s has read before the last position of s.
Before(s) == s \ {Max(s)}

\* f gives each set of positions what is read of the line at those positions.
Reads(f, line, S) ==
  f = [s \in SUBSET S |->
         IF s = {} THEN Blank ELSE Take(f[Before(s)], line[Max(s)])]

LEMMA BeforeIs ==
  ASSUME NEW n \in Nat, NEW s \in SUBSET (1..n), s # {}
  PROVE  Before(s) \subseteq s /\ Before(s) # s /\ Before(s) \in SUBSET (1..n)
  BY LargestOf DEF Before

LEMMA ReadsUnique ==
  ASSUME NEW n \in Nat, NEW line, NEW S \in SUBSET (1..n), NEW T \in SUBSET S, NEW e, NEW f,
         Reads(e, line, S), Reads(f, line, T)
  PROVE  \A s \in SUBSET T : e[s] = f[s]
<1> DEFINE Bad == {s \in SUBSET T : e[s] # f[s]}
<1> SUFFICES ASSUME Bad # {}
             PROVE  FALSE
  OBVIOUS
<1>1. Bad \in SUBSET (SUBSET (1..n))
  OBVIOUS
<1>2. PICK s \in Bad : \A u \in Bad : u \subseteq s => u = s
  <2> HIDE DEF Bad
  <2> QED BY <1>1, SmallestPositions
<1>3. s # {}
  BY DEF Reads
<1>4. Before(s) \subseteq s /\ Before(s) # s
  BY <1>1, <1>3, BeforeIs
<1>5. e[Before(s)] = f[Before(s)]
  BY <1>2, <1>4
<1>6. e[s] = Take(e[Before(s)], line[Max(s)]) /\ f[s] = Take(f[Before(s)], line[Max(s)])
  BY <1>3 DEF Reads
<1> QED BY <1>5, <1>6

LEMMA ReadsExist ==
  ASSUME NEW n \in Nat, NEW line
  PROVE  \E f : Reads(f, line, 1..n)
<1> DEFINE Bad == {T \in SUBSET (1..n) : ~\E f : Reads(f, line, T)}
<1> SUFFICES ASSUME Bad # {}
             PROVE  FALSE
  OBVIOUS
<1>1. PICK T \in Bad : \A U \in Bad : U \subseteq T => U = T
  <2>1. Bad \in SUBSET (SUBSET (1..n))
    OBVIOUS
  <2> HIDE DEF Bad
  <2>2. \A B \in SUBSET (SUBSET (1..n)) :
          B # {} => \E T \in B : \A U \in B : U \subseteq T => U = T
    BY ONLY n \in Nat, SmallestPositions
  <2> QED BY <2>1, <2>2
<1> DEFINE Less(U) == CHOOSE f : Reads(f, line, U)
           All == [s \in SUBSET T |->
                     IF s = {} THEN Blank ELSE Take(Less(Before(s))[Before(s)], line[Max(s)])]
<1>2. \A U \in SUBSET T : U # T => Reads(Less(U), line, U)
  BY <1>1
<1>3. ASSUME NEW s \in SUBSET T, s # {}
      PROVE  /\ Before(s) \in SUBSET T /\ Before(s) # T /\ Before(s) \subseteq s
             /\ s \in SUBSET (1..n)
  <2>1. s \in SUBSET (1..n)
    OBVIOUS
  <2>2. Before(s) \subseteq s /\ Before(s) # s
    BY <1>3, <2>1, BeforeIs
  <2> QED BY <2>1, <2>2
<1>4. ASSUME NEW s \in SUBSET T, s # {}, s # T
      PROVE  All[s] = Less(s)[s]
  <2>1. Reads(Less(s), line, s) /\ Reads(Less(Before(s)), line, Before(s))
    BY <1>2, <1>3, <1>4
  <2>2. Less(s)[Before(s)] = Less(Before(s))[Before(s)]
    <3>1. /\ s \in SUBSET (1..n) /\ Before(s) \in SUBSET s
          /\ Before(s) \in SUBSET Before(s)
      BY <1>3, <1>4
    <3> HIDE DEF Less
    <3>2. Reads(Less(s), line, s) /\ Reads(Less(Before(s)), line, Before(s))
      BY <2>1
    <3>3. \A u \in SUBSET Before(s) : Less(s)[u] = Less(Before(s))[u]
      BY ONLY n \in Nat, <3>1, <3>2, ReadsUnique
    <3> QED BY <3>3
  <2>3. Less(s)[s] = Take(Less(s)[Before(s)], line[Max(s)])
    <3> HIDE DEF Less
    <3> QED BY <1>4, <2>1 DEF Reads
  <2>4. All[s] = Take(Less(Before(s))[Before(s)], line[Max(s)])
    <3> HIDE DEF Less
    <3> QED BY <1>4
  <2> QED BY <2>2, <2>3, <2>4
<1>5. ASSUME NEW s \in SUBSET T, s # {}
      PROVE  Less(Before(s))[Before(s)] = All[Before(s)]
  <2>1. CASE Before(s) = {}
    <3>1. Reads(Less({}), line, {})
      BY <1>2, <1>3, <1>5, <2>1
    <3>2. Less({})[{}] = Blank
      <4> HIDE DEF Less
      <4> QED BY <3>1 DEF Reads
    <3>3. All[{}] = Blank
      OBVIOUS
    <3> HIDE DEF Less, All
    <3> QED BY <2>1, <3>2, <3>3
  <2>2. CASE Before(s) # {}
    <3> HIDE DEF Less, All
    <3> QED BY <1>3, <1>4, <1>5, <2>2
  <2> QED BY <2>1, <2>2
<1>6. Reads(All, line, T)
  <2>1. \A s \in SUBSET T : s # {} => All[s] = Take(All[Before(s)], line[Max(s)])
    <3> SUFFICES ASSUME NEW s \in SUBSET T, s # {}
                 PROVE  All[s] = Take(All[Before(s)], line[Max(s)])
      OBVIOUS
    <3>1. All[s] = Take(Less(Before(s))[Before(s)], line[Max(s)])
      <4> HIDE DEF Less
      <4> QED OBVIOUS
    <3> HIDE DEF All, Less
    <3> QED BY <1>5, <3>1
  <2>2. All[{}] = Blank /\ All = [s \in SUBSET T |-> All[s]]
    OBVIOUS
  <2> HIDE DEF All
  <2> QED BY <2>1, <2>2 DEF Reads
<1> QED BY <1>1, <1>6

\* What has been read after each token of the line.
LEMMA ParseSteps ==
  ASSUME NEW line, NEW n \in Nat, DOMAIN line = 1..n
  PROVE  \E p : /\ p[0] = Blank /\ p[n] = Parse(line)
                /\ \A k \in 1..n : p[k] = Take(p[k - 1], line[k])
<1> DEFINE f == CHOOSE g : Reads(g, line, DOMAIN line)
<1>1. Reads(f, line, 1..n)
  BY ReadsExist
<1>2. Parse(line) = f[1..n]
  BY Zenon DEF Parse, FoldLeft, MapThenFoldSet, Reads, Before
<1> HIDE DEF f
<1> DEFINE p == [k \in 0..n |-> f[1..k]]
<1>5. p[n] = Parse(line)
  BY <1>2
<1>3. p[0] = Blank
  <2>1. 1..0 = {} /\ f[{}] = Blank
    BY <1>1 DEF Reads
  <2> QED BY <2>1
<1>4. ASSUME NEW k \in 1..n
      PROVE  p[k] = Take(p[k - 1], line[k])
  <2>1. Max(1..k) = k
    BY DEF Max
  <2>2. Before(1..k) = 1..(k - 1)
    BY <2>1 DEF Before
  <2>3. 1..k \in SUBSET (1..n) /\ 1..k # {}
    <3>1. k \in 1..k /\ \A x \in 1..k : x \in 1..n
      OBVIOUS
    <3> QED BY <3>1
  <2>4. f[1..k] = Take(f[Before(1..k)], line[Max(1..k)])
    BY <1>1, <2>3 DEF Reads
  <2> QED BY <2>1, <2>2, <2>4
<1> HIDE DEF p
<1> QED BY <1>3, <1>4, <1>5

-----------------------------------------------------------------------------
(* What Parse makes of a line.                                              *)

TokensOf(line) == {line[k] : k \in DOMAIN line}

Parsed(T) ==
  [amount : 0..MaxInt, sigil : Sigils,
   description : Seq({t \in T : t.form \in {"number", "word"}}),
   account : {t.tag : t \in T} \cup {NoAccount},
   dates : Seq({t \in T : t.form \in DateForms}), accounts : Nat]

IsParsed(p, T) == p \in Parsed(T) /\ (p.accounts = 0 <=> p.account = NoAccount)

LEMMA BlankIsParsed ==
  ASSUME NEW T PROVE IsParsed(Blank, T)
  BY EntryTextAssumption DEF IsParsed, Parsed, Blank, Sigils, MaxInt

LEMMA TakeIsParsed ==
  ASSUME NEW T, NEW p, IsParsed(p, T), NEW t \in T, IsToken(t)
  PROVE  IsParsed(Take(p, t), T)
<1>1. CASE t.form = "number" /\ p.amount = 0 /\ Units(t) > 0
  <2>1. Units(t) \in 0..MaxInt
    BY <1>1, UnitsAreInts, EntryTextAssumption DEF IsToken, MaxInt
  <2>2. Take(p, t) = [p EXCEPT !.amount = Units(t), !.sigil = t.sigil]
    BY <1>1 DEF Take
  <2> QED BY <1>1, <2>1, <2>2 DEF IsParsed, Parsed, IsToken
<1>2. CASE t.form \in DateForms
  <2>1. Take(p, t) = [p EXCEPT !.dates = Append(@, t)]
    BY <1>2 DEF Take, DateForms
  <2>2. Append(p.dates, t) \in Seq({u \in T : u.form \in DateForms})
    BY <1>2 DEF IsParsed, Parsed
  <2> QED BY <2>1, <2>2 DEF IsParsed, Parsed
<1>3. CASE t.form = "account"
  <2> DEFINE tag == IF p.accounts = 0 THEN t.tag ELSE p.account
             more == p.accounts + 1
  <2>1. Take(p, t) = [p EXCEPT !.accounts = more, !.account = tag]
    BY <1>3 DEF Take
  <2>2. /\ tag \in {u.tag : u \in T} \cup {NoAccount} /\ tag # NoAccount
        /\ more \in Nat /\ more # 0
    BY <1>3 DEF IsParsed, Parsed, IsToken
  <2> HIDE DEF tag, more
  <2> QED BY <2>1, <2>2 DEF IsParsed, Parsed
<1>4. CASE ~(t.form = "number" /\ p.amount = 0 /\ Units(t) > 0)
           /\ t.form \in {"number", "word"}
  <2>1. Take(p, t) = [p EXCEPT !.description = Append(@, t)]
    BY <1>4 DEF Take
  <2>2. Append(p.description, t) \in Seq({u \in T : u.form \in {"number", "word"}})
    BY <1>4 DEF IsParsed, Parsed
  <2> QED BY <2>1, <2>2 DEF IsParsed, Parsed
<1> QED BY <1>1, <1>2, <1>3, <1>4 DEF IsToken, Forms, DateForms

LEMMA ParseIsParsed ==
  ASSUME NEW line, IsLine(line)
  PROVE  IsParsed(Parse(line), TokensOf(line))
<1>1. PICK n \in Nat : DOMAIN line = 1..n /\ \A k \in 1..n : IsToken(line[k])
  BY DEF IsLine
<1>2. PICK p : /\ p[0] = Blank /\ p[n] = Parse(line)
               /\ \A k \in 1..n : p[k] = Take(p[k - 1], line[k])
  BY <1>1, ParseSteps
<1> DEFINE Good == {k \in 0..n : IsParsed(p[k], TokensOf(line))}
<1>3. 0 \in Good
  BY <1>2, BlankIsParsed
<1>4. ASSUME NEW m \in 1..n, m - 1 \in Good
      PROVE  m \in Good
  <2>1. line[m] \in TokensOf(line) /\ IsToken(line[m]) /\ p[m] = Take(p[m - 1], line[m])
    BY <1>1, <1>2 DEF TokensOf
  <2> QED BY <1>4, <2>1, TakeIsParsed
<1>5. n \in Good
  <2> HIDE DEF Good
  <2> QED BY <1>3, <1>4, Climbs
<1> QED BY <1>2, <1>5

-----------------------------------------------------------------------------
(* The amount.                                                              *)

\* What has been read of a line after k tokens: no amount yet, or the first one.
AmountSoFar(line, k, amount) ==
  \/ amount = 0 /\ \A j \in 1..k : ~IsPositive(line[j])
  \/ \E i \in 1..k : IsAmount(line, i) /\ amount = Exact(line[i]) /\ amount > 0

LEMMA TakesTheFirst ==
  ASSUME NEW line, NEW n \in Nat, DOMAIN line = 1..n, Fits(line), NEW k \in 1..n,
         IsToken(line[k]), NEW p, p \in Parsed(TokensOf(line)),
         AmountSoFar(line, k - 1, p.amount)
  PROVE  AmountSoFar(line, k, Take(p, line[k]).amount)
<1> DEFINE t == line[k]
<1>1. t.form = "number" => Units(t) = Exact(t) /\ Exact(t) \in Nat
  BY UnitsAreExact, ExactIs DEF Fits, IsToken
<1>2. CASE t.form = "number" /\ p.amount = 0 /\ Units(t) > 0
  <2>1. Take(p, t).amount = Exact(t)
    BY <1>1, <1>2 DEF Take, Parsed
  <2>2. \A j \in 1..(k - 1) : ~IsPositive(line[j])
    BY <1>2 DEF AmountSoFar
  <2>3. IsAmount(line, k)
    BY <1>1, <1>2, <2>2 DEF IsAmount, IsPositive
  <2>4. Exact(t) > 0
    BY <1>1, <1>2
  <2> HIDE DEF t
  <2>5. k \in 1..k /\ line[k] = t
    BY DEF t
  <2> QED BY <2>1, <2>3, <2>4, <2>5 DEF AmountSoFar
<1>3. CASE ~(t.form = "number" /\ p.amount = 0 /\ Units(t) > 0)
  <2>1. Take(p, t).amount = p.amount
    BY <1>3 DEF Take, Parsed
  <2>2. CASE p.amount = 0
    <3>1. ~IsPositive(t)
      BY <1>1, <1>3, <2>2 DEF IsPositive
    <3>2. \A j \in 1..(k - 1) : ~IsPositive(line[j])
      BY <2>2 DEF AmountSoFar
    <3>3. \A j \in 1..k : ~IsPositive(line[j])
      <4>1. \A j \in 1..k : j \in 1..(k - 1) \/ j = k
        OBVIOUS
      <4> QED BY <3>1, <3>2, <4>1
    <3> QED BY <2>1, <2>2, <3>3 DEF AmountSoFar
  <2>3. CASE p.amount # 0
    <3>1. \A i \in 1..(k - 1) : i \in 1..k
      OBVIOUS
    <3> QED BY <2>1, <2>3, <3>1 DEF AmountSoFar
  <2> QED BY <2>2, <2>3
<1> QED BY <1>2, <1>3

\* Without a save-gate error the amount of a line is that of its first positive number.
LEMMA AmountIsExact ==
  ASSUME NEW line, IsLine(line), Fits(line), Parse(line).amount > 0
  PROVE  Parse(line).amount = Exact(AmountToken(line))
<1>1. PICK n \in Nat : DOMAIN line = 1..n /\ \A k \in 1..n : IsToken(line[k])
  BY DEF IsLine
<1>2. PICK p : /\ p[0] = Blank /\ p[n] = Parse(line)
               /\ \A k \in 1..n : p[k] = Take(p[k - 1], line[k])
  BY <1>1, ParseSteps
<1> DEFINE Good == {k \in 0..n : /\ IsParsed(p[k], TokensOf(line))
                               /\ AmountSoFar(line, k, p[k].amount)}
<1>3. 0 \in Good
  BY <1>2, BlankIsParsed DEF AmountSoFar, Blank
<1>4. ASSUME NEW m \in 1..n, m - 1 \in Good
      PROVE  m \in Good
  <2>1. line[m] \in TokensOf(line) /\ IsToken(line[m]) /\ p[m] = Take(p[m - 1], line[m])
    BY <1>1, <1>2 DEF TokensOf
  <2>2. IsParsed(p[m], TokensOf(line))
    BY <1>4, <2>1, TakeIsParsed
  <2>3. AmountSoFar(line, m, p[m].amount)
    BY <1>1, <1>4, <2>1, TakesTheFirst DEF IsParsed
  <2> QED BY <2>2, <2>3
<1>5. n \in Good
  <2> HIDE DEF Good
  <2> QED BY <1>3, <1>4, Climbs
<1>6. PICK i \in 1..n : IsAmount(line, i) /\ Parse(line).amount = Exact(line[i])
  BY <1>2, <1>5 DEF AmountSoFar
<1>7. \A j \in 1..n : IsAmount(line, j) => j = i
  BY <1>1, <1>6 DEF IsAmount
<1>8. AmountToken(line) = line[i]
  BY <1>1, <1>6, <1>7 DEF AmountToken
<1> QED BY <1>6, <1>8

-----------------------------------------------------------------------------
(* The canonical line.                                                      *)

\* What a record holds of its line.
IsText(t, T) ==
  /\ t.amount \in 1..MaxInt /\ t.sigil \in Sigils
  /\ t.description \in Seq({u \in T : u.form \in {"number", "word"}}) /\ t.description # <<>>

LineLength(t) == Len(t.description) + 2 + (IF t.account = NoAccount THEN 0 ELSE 1)

LEMMA LineIs ==
  ASSUME NEW T, NEW t, IsText(t, T), NEW date
  PROVE  /\ Len(t.description) \in Nat
         /\ DOMAIN EntryLine(t, date) = 1..LineLength(t)
         /\ EntryLine(t, date)[1] = FormatAmount(t.sigil, t.amount)
         /\ \A k \in 1..Len(t.description) : EntryLine(t, date)[k + 1] = t.description[k]
         /\ EntryLine(t, date)[Len(t.description) + 2] = date
         /\ t.account # NoAccount =>
              EntryLine(t, date)[Len(t.description) + 3] = Account(t.account)
<1> DEFINE d == t.description
           m == Len(d)
           a == FormatAmount(t.sigil, t.amount)
           c == Account(t.account)
           U == T \cup {a, date, c}
           tail == AccountPart(t)
<1>1. d \in Seq(U)
  <2>1. {u \in T : u.form \in {"number", "word"}} \subseteq U
    OBVIOUS
  <2> QED BY <2>1, SeqMonotonic DEF IsText
<1>2. a \in U /\ date \in U /\ c \in U
  OBVIOUS
<1>3. EntryLine(t, date) = ((<<a>> \o d) \o <<date>>) \o tail
  BY DEF EntryLine
<1>4. /\ t.account = NoAccount => tail = <<>>
      /\ t.account # NoAccount => tail = <<c>>
  BY DEF AccountPart
<1> HIDE DEF d, a, c, U, tail
<1>5. /\ <<a>> \in Seq(U) /\ Len(<<a>>) = 1 /\ <<a>>[1] = a
      /\ <<date>> \in Seq(U) /\ Len(<<date>>) = 1 /\ <<date>>[1] = date
      /\ m \in Nat
  BY <1>1, <1>2, LenProperties
<1>6. /\ tail \in Seq(U)
      /\ t.account = NoAccount => Len(tail) = 0
      /\ t.account # NoAccount => Len(tail) = 1 /\ tail[1] = c
  <2>1. CASE t.account = NoAccount
    BY <1>4, <2>1, EmptySeq
  <2>2. CASE t.account # NoAccount
    <3>1. tail = <<c>>
      BY <1>4, <2>2
    <3>2. <<c>> \in Seq(U) /\ Len(<<c>>) = 1 /\ <<c>>[1] = c
      BY <1>2
    <3> QED BY <2>2, <3>1, <3>2
  <2> QED BY <2>1, <2>2
<1> DEFINE front == <<a>> \o d
           whole == front \o <<date>>
<1>7. /\ front \in Seq(U) /\ Len(front) = m + 1
      /\ \A i \in 1..(m + 1) : front[i] = IF i <= 1 THEN <<a>>[i] ELSE d[i - 1]
  <2>1. /\ front \in Seq(U) /\ Len(front) = 1 + m
        /\ \A i \in 1..(1 + m) : front[i] = IF i <= 1 THEN <<a>>[i] ELSE d[i - 1]
    <3>1. <<a>> \in Seq(U) /\ d \in Seq(U) /\ Len(<<a>>) = 1
      BY <1>1, <1>5
    <3> QED BY ONLY <3>1, ConcatProperties, ZenonT(60) DEF m
  <2> HIDE DEF front, m
  <2> QED BY <1>5, <2>1
<1> HIDE DEF front
<1>8. /\ whole \in Seq(U) /\ Len(whole) = m + 2
      /\ \A i \in 1..(m + 1) : whole[i] = front[i]
      /\ whole[m + 2] = date
  <2>1. /\ whole \in Seq(U) /\ Len(whole) = Len(front) + 1
        /\ \A i \in 1..(Len(front) + 1) :
             whole[i] = IF i <= Len(front) THEN front[i] ELSE <<date>>[i - Len(front)]
    <3>1. front \in Seq(U) /\ <<date>> \in Seq(U) /\ Len(<<date>>) = 1
      BY <1>5, <1>7
    <3> QED BY ONLY <3>1, ConcatProperties, ZenonT(60)
  <2> HIDE DEF whole, m
  <2>2. Len(front) = m + 1 /\ m \in Nat
    BY <1>5, <1>7
  <2>3. \A i \in 1..(m + 1) : whole[i] = front[i]
    BY <2>1, <2>2
  <2>4. whole[m + 2] = <<date>>[1]
    BY <2>1, <2>2
  <2> QED BY <1>5, <2>1, <2>2, <2>3, <2>4
<1> HIDE DEF whole
<1> DEFINE line == whole \o tail
<1>9. /\ line \in Seq(U) /\ Len(line) = m + 2 + Len(tail)
      /\ \A i \in 1..(m + 2) : line[i] = whole[i]
      /\ Len(tail) = 1 => line[m + 3] = tail[1]
  <2>1. /\ line \in Seq(U) /\ Len(line) = Len(whole) + Len(tail)
        /\ \A i \in 1..(Len(whole) + Len(tail)) :
             line[i] = IF i <= Len(whole) THEN whole[i] ELSE tail[i - Len(whole)]
    <3>1. whole \in Seq(U) /\ tail \in Seq(U)
      BY <1>6, <1>8
    <3> QED BY ONLY <3>1, ConcatProperties, ZenonT(60)
  <2>2. Len(tail) \in {0, 1}
    BY <1>6
  <2> HIDE DEF line, m
  <2> QED BY <1>5, <1>8, <2>1, <2>2
<1>10. DOMAIN line = 1..LineLength(t)
  <2>1. DOMAIN line = 1..(m + 2 + Len(tail))
    BY <1>9, LenProperties
  <2>2. Len(tail) = IF t.account = NoAccount THEN 0 ELSE 1
    BY <1>6
  <2> QED BY <2>1, <2>2 DEF LineLength, d
<1>11. line[1] = a /\ line[m + 2] = date /\ \A k \in 1..m : line[k + 1] = d[k]
  <2> HIDE DEF line, m
  <2>1. 1 \in 1..(m + 1) /\ 1 \in 1..(m + 2) /\ m + 2 \in 1..(m + 2)
    BY <1>5
  <2>2. \A k \in 1..m : k + 1 \in 1..(m + 1) /\ k + 1 \in 1..(m + 2) /\ (k + 1) - 1 = k /\ ~(k + 1 <= 1)
    BY <1>5
  <2> QED BY <1>5, <1>7, <1>8, <1>9, <2>1, <2>2
<1>12. EntryLine(t, date) = line
  BY <1>3 DEF front, whole
<1> HIDE DEF line
<1> QED BY <1>5, <1>6, <1>9, <1>10, <1>11, <1>12 DEF d, a, c

\* What has been read of the line behind its amount and the first words.
SoFar(t, words) ==
  [amount |-> t.amount, sigil |-> t.sigil, description |-> words,
   account |-> NoAccount, dates |-> <<>>, accounts |-> 0]

LEMMA TakesTheWord ==
  ASSUME NEW T, NEW t, IsText(t, T), NEW k \in 1..Len(t.description)
  PROVE  Take(SoFar(t, SubSeq(t.description, 1, k - 1)), t.description[k])
           = SoFar(t, SubSeq(t.description, 1, k))
<1> DEFINE d == t.description
           D == {u \in T : u.form \in {"number", "word"}}
           before == SubSeq(d, 1, k - 1)
           after == SubSeq(d, 1, k)
<1>1. d \in Seq(D)
  BY DEF IsText
<1>2. d[k] \in D
  <2> HIDE DEF D
  <2> QED BY <1>1, ElementOfSeq
<1>3. Append(before, d[k]) = after
  <2> HIDE DEF D, d
  <2>1. Len(d) \in Nat /\ \A i \in 1..Len(d) : d[i] \in D
    BY <1>1, LenProperties, ElementOfSeq
  <2>2. k \in 1..Len(d) /\ k \in 1..k
    BY DEF d
  <2>3. before \in Seq(D)
    <3>1. \A i \in 1..(k - 1) : d[i] \in D
      BY <2>1, <2>2
    <3> QED BY <2>2, <3>1, SubSeqProperties
  <2>4. after = before \o <<d[k]>>
    <3>1. 1 \in 1..Len(d) /\ k \in 1..Len(d)
      BY <2>1, <2>2
    <3> QED BY <1>1, <3>1, SubSeqRecursiveSecond
  <2> QED BY <1>2, <2>3, <2>4, AppendIsConcat
<1>4. t.amount # 0
  BY EntryTextAssumption DEF IsText, MaxInt
<1> HIDE DEF before, after
<1>5. Take(SoFar(t, before), d[k]) = [SoFar(t, before) EXCEPT !.description = Append(@, d[k])]
  BY <1>2, <1>4 DEF Take, SoFar
<1>6. [SoFar(t, before) EXCEPT !.description = Append(@, d[k])] = SoFar(t, Append(before, d[k]))
  <2>1. \A w, u : [SoFar(t, w) EXCEPT !.description = u] = SoFar(t, u)
    BY DEF SoFar
  <2>2. SoFar(t, before).description = before
    BY DEF SoFar
  <2> QED BY <2>1, <2>2
<1> QED BY <1>3, <1>5, <1>6 DEF before, after, d

\* The line of an edit box is read back as the record it was made from.
LEMMA ReadsBack ==
  ASSUME NEW T, NEW t, IsText(t, T), NEW date, date.form \in DateForms
  PROVE  Parse(EntryLine(t, date)) =
           [amount |-> t.amount, sigil |-> t.sigil, description |-> t.description,
            account |-> t.account, dates |-> <<date>>,
            accounts |-> IF t.account = NoAccount THEN 0 ELSE 1]
<1> DEFINE line == EntryLine(t, date)
           d == t.description
           m == Len(d)
           n == LineLength(t)
           Part(k) == SubSeq(d, 1, k)
<1>1. /\ m \in Nat /\ DOMAIN line = 1..n
      /\ line[1] = FormatAmount(t.sigil, t.amount)
      /\ \A k \in 1..m : line[k + 1] = d[k]
      /\ line[m + 2] = date
      /\ t.account # NoAccount => line[m + 3] = Account(t.account)
  BY LineIs
<1>2. n \in Nat /\ m + 2 \in 1..n /\ \A k \in 0..m : k + 1 \in 1..n
  <2>1. n = m + 2 + (IF t.account = NoAccount THEN 0 ELSE 1)
    BY DEF LineLength
  <2>2. m \in Nat
    BY <1>1
  <2> HIDE DEF m, n
  <2> QED BY <2>1, <2>2
<1> HIDE DEF line, n
<1>3. PICK p : /\ p[0] = Blank /\ p[n] = Parse(line)
               /\ \A k \in 1..n : p[k] = Take(p[k - 1], line[k])
  BY <1>1, <1>2, ParseSteps
<1>4. p[1] = SoFar(t, Part(0))
  <2> DEFINE a == FormatAmount(t.sigil, t.amount)
  <2>1. a.form = "number" /\ a.sigil = t.sigil /\ Units(a) = t.amount /\ Units(a) > 0
    BY AmountReadsBack, EntryTextAssumption DEF IsText, MaxInt
  <2>2. Part(0) = <<>>
    BY SubSeqEmpty
  <2>3. p[1] = Take(Blank, a)
    <3>1. 1 \in 1..n
      BY <1>1, <1>2
    <3> QED BY <1>1, <1>3, <3>1
  <2> HIDE DEF a
  <2>4. Take(Blank, a) = [Blank EXCEPT !.amount = Units(a), !.sigil = a.sigil]
    BY <2>1 DEF Take, Blank
  <2> QED BY <2>1, <2>2, <2>3, <2>4 DEF SoFar, Blank
<1> DEFINE Good == {k \in 0..m : p[k + 1] = SoFar(t, Part(k))}
<1>5. 0 \in Good
  BY <1>1, <1>4
<1>6. ASSUME NEW k \in 1..m, k - 1 \in Good
      PROVE  k \in Good
  <2>1. p[k] = SoFar(t, Part(k - 1)) /\ k \in 0..m
    BY <1>6
  <2>2. p[k + 1] = Take(p[k], d[k])
    BY <1>1, <1>2, <1>3, <2>1
  <2>3. Take(SoFar(t, Part(k - 1)), d[k]) = SoFar(t, Part(k))
    BY TakesTheWord
  <2> QED BY <2>1, <2>2, <2>3
<1>7. p[m + 1] = SoFar(t, d)
  <2>1. m \in Good
    <3> HIDE DEF Good, m
    <3>1. m \in Nat /\ m \in 0..m
      BY <1>1
    <3> QED BY <1>5, <1>6, <3>1, Climbs
  <2>2. Part(m) = d
    BY SubSeqFull DEF IsText
  <2> QED BY <2>1, <2>2
<1> HIDE DEF Part, Good
<1>8. p[m + 2] = [SoFar(t, d) EXCEPT !.dates = <<date>>]
  <2>1. p[m + 2] = Take(SoFar(t, d), date)
    BY <1>1, <1>2, <1>3, <1>7
  <2>2. Take(SoFar(t, d), date) = [SoFar(t, d) EXCEPT !.dates = Append(@, date)]
    BY DEF Take, DateForms
  <2>3. Append(<<>>, date) = <<date>>
    OBVIOUS
  <2> QED BY <2>1, <2>2, <2>3 DEF SoFar
<1>9. CASE t.account = NoAccount
  <2>1. n = m + 2
    BY <1>1, <1>9 DEF n, LineLength
  <2> QED BY <1>3, <1>8, <1>9, <2>1 DEF SoFar, line
<1>10. CASE t.account # NoAccount
  <2>1. n = m + 3 /\ n \in 1..n /\ n - 1 = m + 2
    BY <1>1, <1>10 DEF n, LineLength
  <2>2. Parse(line) = Take(p[m + 2], Account(t.account))
    BY <1>1, <1>3, <1>10, <2>1
  <2>3. Take(p[m + 2], Account(t.account))
          = [p[m + 2] EXCEPT !.accounts = 1, !.account = t.account]
    BY <1>8 DEF Take, Account, SoFar
  <2> QED BY <1>8, <1>10, <2>2, <2>3 DEF SoFar, line
<1> QED BY <1>9, <1>10

-----------------------------------------------------------------------------
(* The record and its box.                                                  *)

LinesAreTyped == \A day : \A line \in LinesOn(day) : IsLine(line)

\* The record says what was typed, and the box says what the record does.
TextInv ==
  /\ typed # <<>> => IsLine(typed) /\ OK(Parse(typed)) /\ text = TextOf(Parse(typed))
  /\ box # <<>> => typed # <<>> /\ box = EntryLine(text, Short(stored[2], stored[3]))

LEMMA TypedText ==
  ASSUME NEW line, IsLine(line), OK(Parse(line))
  PROVE  IsText(TextOf(Parse(line)), TokensOf(line))
<1>1. IsParsed(Parse(line), TokensOf(line))
  BY ParseIsParsed
<1> QED BY <1>1, EntryTextAssumption DEF IsParsed, Parsed, IsText, TextOf, OK, MaxInt

LEMMA BoxReadsBack ==
  ASSUME TextInv, box # <<>>
  PROVE  /\ OK(Parse(box)) /\ TextOf(Parse(box)) = text
         /\ Parse(box).dates = <<Short(stored[2], stored[3])>>
<1> DEFINE date == Short(stored[2], stored[3])
           T == TokensOf(typed)
<1>1. IsText(text, T)
  BY TypedText DEF TextInv
<1>2. box = EntryLine(text, date) /\ date.form \in DateForms
  BY DEF TextInv, Short, DateForms
<1> HIDE DEF date, T
<1>3. Parse(box) = [amount |-> text.amount, sigil |-> text.sigil,
                    description |-> text.description, account |-> text.account,
                    dates |-> <<date>>, accounts |-> IF text.account = NoAccount THEN 0 ELSE 1]
  BY <1>1, <1>2, ReadsBack
<1>4. OK(Parse(box))
  <2>1. Len(<<date>>) = 1 /\ text.amount > 0
    BY <1>1, EntryTextAssumption DEF IsText, MaxInt
  <2> QED BY <1>1, <1>3, <2>1 DEF OK, IsText
<1>5. text = [amount |-> text.amount, sigil |-> text.sigil,
              description |-> text.description, account |-> text.account]
  BY DEF TextInv, TextOf
<1>6. TextOf(Parse(box)) = text
  BY <1>3, <1>5 DEF TextOf
<1> QED BY <1>3, <1>4, <1>6 DEF date

LEMMA TextInvariant ==
  ASSUME LinesAreTyped
  PROVE  Spec => []TextInv
<1>1. Init => TextInv
  BY DEF Init, TextInv
<1>2. TextInv /\ [Next]_vars => TextInv'
  <2> SUFFICES ASSUME TextInv, [Next]_vars
               PROVE  TextInv'
    OBVIOUS
  <2>1. CASE NextDay \/ UNCHANGED vars
    BY <2>1 DEF NextDay, record, vars, TextInv
  <2>2. CASE Enter
    <3>1. PICK line \in LinesOn(today) : /\ OK(Parse(line)) /\ typed' = line
                                         /\ text' = TextOf(Parse(line))
      BY <2>2 DEF Enter
    <3>2. IsLine(line)
      BY <3>1 DEF LinesAreTyped
    <3>3. box = <<>> /\ box' = <<>>
      BY <2>2 DEF Enter, TextInv
    <3> QED BY <3>1, <3>2, <3>3 DEF TextInv
  <2>3. CASE OpenBox
    BY <2>3 DEF OpenBox, record, TextInv
  <2>4. CASE SaveBox
    <3>1. text' = text /\ typed' = typed /\ box' = <<>>
      BY <2>4, BoxReadsBack DEF SaveBox
    <3> QED BY <3>1 DEF TextInv
  <2> QED BY <2>1, <2>2, <2>3, <2>4 DEF Next
<1> QED BY <1>1, <1>2, PTL DEF Spec

\* The line of an edit box can be saved and says what the record holds, for a
\* line of any tokens and any length (expense.go, EntryLine).
THEOREM BoxCorrect ==
  ASSUME LinesAreTyped
  PROVE  Spec => []BoxSaysWhatIsStored
<1>1. TextInv => BoxSaysWhatIsStored
  BY BoxReadsBack DEF BoxSaysWhatIsStored
<1> QED BY <1>1, TextInvariant, PTL

\* The amount stored is the one typed, to the cent, for as long as the record
\* lives and in any width of an int that can hold it (parse.go, amountMinorUnits).
THEOREM AmountCorrect ==
  ASSUME LinesAreTyped
  PROVE  Spec => []AmountIsTheOneTyped
<1>1. TextInv => AmountIsTheOneTyped
  BY AmountIsExact DEF TextInv, TextOf, OK, AmountIsTheOneTyped
<1> QED BY <1>1, TextInvariant, PTL

-----------------------------------------------------------------------------
(* The calendar.  Its arithmetic has years that begin in March; what follows *)
(* from it is that a day of the calendar has one number, and where in its   *)
(* year it is.                                                              *)

\* The days before the first of March of a year, and before a month of such a year.
YearStart(y) == 365 * y + y \div 4 - y \div 100 + y \div 400
MonthStart(mp) == (153 * mp + 2) \div 5

LEMMA YearLength ==
  ASSUME NEW y \in Int
  PROVE  YearStart(y) \in Int /\ YearStart(y + 1) - YearStart(y) \in {365, 366}
  BY DEF YearStart

LEMMA YearsGrow ==
  ASSUME NEW y \in Int, NEW z \in Int, y <= z
  PROVE  YearStart(y) + 365 * (z - y) <= YearStart(z)
  BY SMTT(30) DEF YearStart

LEMMA EraStart ==
  ASSUME NEW era \in Int, NEW yoe \in 0..399
  PROVE  YearStart(era * 400 + yoe) = 146097 * era + YearStart(yoe)
  BY SMTT(30) DEF YearStart

LEMMA EraEnd ==
  ASSUME NEW era \in Int, NEW yoe \in 0..399
  PROVE  YearStart(era * 400 + yoe + 1) = 146097 * era + YearStart(yoe + 1)
  BY SMTT(30) DEF YearStart

YearOfEra(left) == (left - left \div 1460 + left \div 36524 - left \div 146096) \div 365

LEMMA YearFits ==
  ASSUME NEW left \in Int, 0 <= left, left < 146097
  PROVE  /\ YearOfEra(left) \in 0..399
         /\ YearStart(YearOfEra(left)) <= left
         /\ left < YearStart(YearOfEra(left) + 1)
<1> DEFINE y == YearOfEra(left)
           a == left \div 1460
           b == left \div 36524
           c == left \div 146096
           p == y \div 4
           q == y \div 100
           r == y \div 400
           pp == (y + 1) \div 4
           qq == (y + 1) \div 100
           rr == (y + 1) \div 400
<1>1. /\ a \in Int /\ 1460 * a <= left /\ left < 1460 * a + 1460
      /\ b \in Int /\ 36524 * b <= left /\ left < 36524 * b + 36524
      /\ c \in Int /\ 146096 * c <= left /\ left < 146096 * c + 146096
  <2>1. a \in Int /\ 1460 * a <= left /\ left < 1460 * a + 1460
    BY SMT
  <2>2. b \in Int /\ 36524 * b <= left /\ left < 36524 * b + 36524
    BY SMT
  <2>3. c \in Int /\ 146096 * c <= left /\ left < 146096 * c + 146096
    BY SMT
  <2> QED BY <2>1, <2>2, <2>3, SMT
<1>2. y = (left - a + b - c) \div 365
  BY SMT DEF YearOfEra
<1> HIDE DEF a, b, c, y
<1>3. y \in Int /\ 365 * y <= left - a + b - c /\ left - a + b - c < 365 * y + 365
  BY <1>1, <1>2, SMT
<1>4. /\ p \in Int /\ 4 * p <= y /\ y < 4 * p + 4
      /\ q \in Int /\ 100 * q <= y /\ y < 100 * q + 100
      /\ r \in Int /\ 400 * r <= y /\ y < 400 * r + 400
  BY <1>3, SMT
<1>5. /\ pp \in Int /\ 4 * pp <= y + 1 /\ y + 1 < 4 * pp + 4
      /\ qq \in Int /\ 100 * qq <= y + 1 /\ y + 1 < 100 * qq + 100
      /\ rr \in Int /\ 400 * rr <= y + 1 /\ y + 1 < 400 * rr + 400
  BY <1>3, SMT
<1>6. YearStart(y) = 365 * y + p - q + r /\ YearStart(y + 1) = 365 * (y + 1) + pp - qq + rr
  BY SMT DEF YearStart
<1> HIDE DEF p, q, r, pp, qq, rr
<1>7. /\ y \in 0..399
      /\ 365 * y + p - q + r <= left
      /\ left < 365 * (y + 1) + pp - qq + rr
  BY <1>1, <1>3, <1>4, <1>5, SMTT(30)
<1> QED BY <1>6, <1>7, SMT DEF y

LEMMA MonthFits ==
  ASSUME NEW doy \in 0..365, NEW mp, mp = (5 * doy + 2) \div 153
  PROVE  /\ mp \in 0..11
         /\ MonthStart(mp) <= doy /\ doy < MonthStart(mp + 1)
  BY SMTT(30) DEF MonthStart

\* The same from the first of January on.
NewYear(y) == YearStart(y - 1) + 307
Leap(y) == YearStart(y) - YearStart(y - 1) - 365
Offset(m) == IF m >= 3 THEN MonthStart(m - 3) + 59 ELSE MonthStart(m + 9) - 306
Length(m) == IF m = 2 THEN 28 ELSE IF m \in {4, 6, 9, 11} THEN 30 ELSE 31

\* A date that is on the calendar.
OnCalendar(y, m, d) ==
  m \in 1..12 /\ d \in Int /\ 1 <= d /\ d <= Length(m) + (IF m = 2 THEN Leap(y) ELSE 0)

LEMMA Offsets ==
  /\ Offset(1) = 0 /\ Offset(2) = 31 /\ Offset(3) = 59 /\ Offset(4) = 90
  /\ Offset(5) = 120 /\ Offset(6) = 151 /\ Offset(7) = 181 /\ Offset(8) = 212
  /\ Offset(9) = 243 /\ Offset(10) = 273 /\ Offset(11) = 304 /\ Offset(12) = 334
  BY SMT DEF Offset, MonthStart

LEMMA Years ==
  ASSUME NEW y \in Int
  PROVE  /\ NewYear(y) \in Int /\ Leap(y) \in {0, 1}
         /\ NewYear(y + 1) = NewYear(y) + 365 + Leap(y)
<1>1. /\ YearStart(y) \in Int /\ YearStart(y - 1) \in Int
      /\ YearStart((y - 1) + 1) - YearStart(y - 1) \in {365, 366} /\ (y - 1) + 1 = y
      /\ (y + 1) - 1 = y
  BY YearLength, SMT
<1> QED BY <1>1, SMT DEF NewYear, Leap

LEMMA NumberIs ==
  ASSUME NEW y \in Int, NEW m \in 1..12, NEW d \in Int
  PROVE  DayNumber(y, m, d)
           = NewYear(y) + Offset(m) + (IF m >= 3 THEN Leap(y) ELSE 0) + d - 1
<1>1. /\ YearStart(y) \in Int /\ YearStart(y - 1) \in Int
  BY YearLength, SMT
<1> DEFINE march == y * 12 + m - 3
<1>2. DayNumber(y, m, d) = YearStart(march \div 12) + MonthStart(march % 12) + d
  BY SMT DEF DayNumber, YearStart, MonthStart
<1>3. CASE m >= 3
  <2>1. march \div 12 = y /\ march % 12 = m - 3
    BY <1>3, SMT
  <2>2. MonthStart(m - 3) \in Int
    BY SMT DEF MonthStart
  <2> HIDE DEF march
  <2> QED BY <1>1, <1>2, <1>3, <2>1, <2>2, SMT DEF NewYear, Leap, Offset
<1>4. CASE ~(m >= 3)
  <2>1. march \div 12 = y - 1 /\ march % 12 = m + 9
    BY <1>4, SMT
  <2>2. MonthStart(m + 9) \in Int
    BY SMT DEF MonthStart
  <2> HIDE DEF march
  <2> QED BY <1>1, <1>2, <1>4, <2>1, <2>2, SMT DEF NewYear, Leap, Offset
<1> QED BY <1>3, <1>4

LEMMA MonthLengths ==
  ASSUME NEW mp \in 0..10
  PROVE  MonthStart(mp + 1) - MonthStart(mp) = Length(IF mp < 10 THEN mp + 3 ELSE mp - 9)
  BY SMTT(30) DEF MonthStart, Length

\* Every number is that of one date, and the date is on the calendar.
LEMMA DayIs ==
  ASSUME NEW n \in Int
  PROVE  \E y \in Int, m \in 1..12, d \in Int :
           DayNumbered(n) = <<y, m, d>> /\ OnCalendar(y, m, d) /\ DayNumber(y, m, d) = n
<1> DEFINE era  == (n - 1) \div 146097
           left == (n - 1) % 146097
           yoe  == YearOfEra(left)
           doy  == left - (365 * yoe + yoe \div 4 - yoe \div 100)
           mp   == (5 * doy + 2) \div 153
           m    == IF mp < 10 THEN mp + 3 ELSE mp - 9
           y    == era * 400 + yoe + (IF m <= 2 THEN 1 ELSE 0)
           d    == doy - (153 * mp + 2) \div 5 + 1
<1>1. DayNumbered(n) = <<y, m, d>>
  BY SMT DEF DayNumbered, YearOfEra
<1>2. era \in Int /\ left \in Int /\ 0 <= left /\ left < 146097 /\ n = 146097 * era + left + 1
  BY SMT
<1> HIDE DEF era, left
<1>3. yoe \in 0..399 /\ YearStart(yoe) <= left /\ left < YearStart(yoe + 1)
  BY <1>2, YearFits
<1> HIDE DEF yoe
<1>4. /\ YearStart(yoe) \in Int /\ YearStart(yoe + 1) \in Int
      /\ YearStart(yoe + 1) - YearStart(yoe) \in {365, 366}
      /\ YearStart(yoe) = 365 * yoe + yoe \div 4 - yoe \div 100
  BY <1>3, YearLength, SMT DEF YearStart
<1>5. doy = left - YearStart(yoe)
  BY <1>4
<1> HIDE DEF doy
<1>6. doy \in 0..365 /\ doy < YearStart(yoe + 1) - YearStart(yoe)
  BY <1>2, <1>3, <1>4, <1>5, SMT
<1>7. mp \in 0..11 /\ MonthStart(mp) <= doy /\ doy < MonthStart(mp + 1) /\ MonthStart(mp) \in Int
  BY <1>6, MonthFits, SMT DEF MonthStart
<1>8. d = doy - MonthStart(mp) + 1
  BY SMT DEF MonthStart
<1> HIDE DEF mp, d
<1>9. m \in 1..12 /\ y \in Int /\ d \in Int /\ 1 <= d
  BY <1>2, <1>3, <1>6, <1>7, <1>8, SMT
<1> DEFINE march == era * 400 + yoe
<1>10. /\ march \in Int
       /\ YearStart(march) = 146097 * era + YearStart(yoe)
       /\ YearStart(march + 1) = 146097 * era + YearStart(yoe + 1)
  <2>1. YearStart(march) = 146097 * era + YearStart(yoe)
    BY <1>2, <1>3, EraStart
  <2>2. YearStart(march + 1) = 146097 * era + YearStart(yoe + 1)
    BY <1>2, <1>3, EraEnd
  <2> QED BY <1>2, <1>3, <2>1, <2>2, SMT
<1> HIDE DEF march
<1>11. CASE mp < 10
  <2>1. m = mp + 3 /\ y = march /\ m >= 3 /\ m # 2
    BY <1>2, <1>3, <1>7, <1>11, <1>10, SMT DEF march
  <2> HIDE DEF m, y
  <2>2. DayNumber(y, m, d) = NewYear(y) + Offset(m) + Leap(y) + d - 1
    BY <1>9, <2>1, NumberIs
  <2>3. Offset(m) = MonthStart(mp) + 59
    BY <1>7, <2>1, SMT DEF Offset
  <2>4. NewYear(y) + Leap(y) = YearStart(march) - 58 /\ NewYear(y) \in Int /\ Leap(y) \in Int
    <3>1. YearStart(march - 1) \in Int
      BY <1>10, YearLength
    <3> QED BY <1>4, <1>10, <2>1, <3>1, <1>2, SMT DEF NewYear, Leap
  <2>5. DayNumber(y, m, d) = n
    BY <1>2, <1>4, <1>5, <1>7, <1>8, <1>9, <1>10, <2>2, <2>3, <2>4, SMT
  <2>6. d <= Length(m)
    <3>1. MonthStart(mp + 1) - MonthStart(mp) = Length(m)
      BY <1>7, <1>11, <2>1, MonthLengths
    <3> QED BY <1>6, <1>7, <1>8, <3>1, SMT DEF MonthStart
  <2>7. OnCalendar(y, m, d)
    BY <1>9, <2>1, <2>6, SMT DEF OnCalendar, Length
  <2> QED BY <1>1, <1>9, <2>5, <2>7, Zenon
<1>12. CASE ~(mp < 10)
  <2>1. m = mp - 9 /\ y = march + 1 /\ ~(m >= 3)
    BY <1>2, <1>3, <1>7, <1>12, <1>10, SMT DEF march
  <2> HIDE DEF m, y
  <2>3. Offset(m) = MonthStart(mp) - 306
    BY <1>7, <2>1, SMT DEF Offset
  <2>4. /\ NewYear(y) = YearStart(march) + 307
        /\ Leap(y) = YearStart(march + 1) - YearStart(march) - 365
    BY <1>10, <2>1, SMT DEF NewYear, Leap
  <2>2. DayNumber(y, m, d) = NewYear(y) + Offset(m) + d - 1
    <3>1. DayNumber(y, m, d) = NewYear(y) + Offset(m) + 0 + d - 1
      BY <1>9, <2>1, NumberIs
    <3>2. NewYear(y) \in Int /\ Offset(m) \in Int
      BY <1>2, <1>4, <1>7, <1>10, <2>3, <2>4, SMT
    <3> QED BY <1>9, <3>1, <3>2, SMT
  <2>5. DayNumber(y, m, d) = n
    BY <1>2, <1>4, <1>5, <1>7, <1>8, <1>9, <1>10, <2>2, <2>3, <2>4, SMT
  <2>6. ASSUME mp = 10 PROVE OnCalendar(y, m, d)
    <3>1. MonthStart(mp + 1) - MonthStart(mp) = Length(m)
      BY <1>7, <2>1, <2>6, MonthLengths
    <3>2. d <= Length(m)
      BY <1>6, <1>7, <1>8, <3>1, SMT DEF MonthStart
    <3> QED BY <1>9, <2>1, <2>6, <3>2, SMT DEF OnCalendar, Length
  <2>7. ASSUME mp = 11 PROVE OnCalendar(y, m, d)
    <3>1. MonthStart(11) = 337 /\ Length(2) = 28 /\ m = 2
      BY <2>1, <2>7, SMT DEF MonthStart, Length
    <3>2. d <= Length(m) + Leap(y)
      BY <1>2, <1>4, <1>6, <1>8, <1>10, <2>4, <2>7, <3>1, SMT
    <3> QED BY <1>9, <3>1, <3>2, SMT DEF OnCalendar
  <2>8. mp = 10 \/ mp = 11
    BY <1>7, <1>12, SMT
  <2>9. OnCalendar(y, m, d)
    BY <2>6, <2>7, <2>8
  <2> QED BY <1>1, <1>9, <2>5, <2>9, Zenon
<1> QED BY <1>11, <1>12

-----------------------------------------------------------------------------
(* Days.                                                                    *)

Days == {DayNumbered(n) : n \in Int}
Num(day) == DayNumber(day[1], day[2], day[3])

LEMMA NumberType ==
  ASSUME NEW y \in Int, NEW m \in Int, NEW d \in Int
  PROVE  DayNumber(y, m, d) \in Int
  BY SMT DEF DayNumber

LEMMA DateIs ==
  ASSUME NEW y \in Int, NEW m \in Int, NEW d \in Int
  PROVE  Date(y, m, d) \in Days /\ Num(Date(y, m, d)) = DayNumber(y, m, d)
<1> DEFINE n == DayNumber(y, m, d)
<1>1. n \in Int
  BY NumberType
<1> HIDE DEF n
<1>2. DayNumbered(n) \in Days /\ Num(DayNumbered(n)) = n
  BY <1>1, DayIs DEF Days, Num
<1> QED BY <1>2 DEF n, Date

\* A day is a date on the calendar, and the one its number gives.
LEMMA DaysAre ==
  ASSUME NEW day \in Days
  PROVE  /\ day = <<day[1], day[2], day[3]>>
         /\ day[1] \in Int /\ day[2] \in 1..12 /\ day[3] \in 1..31
         /\ OnCalendar(day[1], day[2], day[3])
         /\ Num(day) \in Int /\ day = DayNumbered(Num(day)) /\ IsDay(day)
<1>1. PICK n \in Int : day = DayNumbered(n)
  BY DEF Days
<1>2. PICK y \in Int, m \in 1..12, d \in Int :
        DayNumbered(n) = <<y, m, d>> /\ OnCalendar(y, m, d) /\ DayNumber(y, m, d) = n
  BY DayIs
<1>3. d \in 1..31
  <2>1. Leap(y) \in {0, 1}
    BY Years
  <2> QED BY <1>2, <2>1, SMT DEF OnCalendar, Length
<1>4. day[1] = y /\ day[2] = m /\ day[3] = d
  BY <1>1, <1>2
<1> QED BY <1>1, <1>2, <1>3, <1>4 DEF Num, IsDay

LEMMA InYear ==
  ASSUME NEW y \in Int, NEW m \in 1..12, NEW d \in 1..31
  PROVE  NewYear(y) <= DayNumber(y, m, d) /\ DayNumber(y, m, d) < NewYear(y + 1)
<1>1. DayNumber(y, m, d) = NewYear(y) + Offset(m) + (IF m >= 3 THEN Leap(y) ELSE 0) + d - 1
  BY NumberIs
<1>2. /\ NewYear(y) \in Int /\ Leap(y) \in {0, 1}
      /\ NewYear(y + 1) = NewYear(y) + 365 + Leap(y)
  BY Years
<1> QED BY <1>1, <1>2, Offsets, SMT

LEMMA OneYear ==
  ASSUME NEW y \in Int, NEW z \in Int, NEW n \in Int,
         NewYear(y) <= n, n < NewYear(y + 1), NewYear(z) <= n, n < NewYear(z + 1)
  PROVE  y = z
<1>1. ASSUME NEW a \in Int, NEW b \in Int, a < b
      PROVE  NewYear(a + 1) <= NewYear(b)
  <2>1. a \in Int /\ b - 1 \in Int /\ a <= b - 1 /\ (a + 1) - 1 = a
    BY <1>1, SMT
  <2>2. YearStart(a) + 365 * ((b - 1) - a) <= YearStart(b - 1)
    BY <2>1, YearsGrow
  <2>3. YearStart(a) \in Int /\ YearStart(b - 1) \in Int
    BY <2>1, YearLength
  <2> QED BY <2>1, <2>2, <2>3, SMT DEF NewYear
<1>2. NewYear(y) \in Int /\ NewYear(z) \in Int /\ NewYear(y + 1) \in Int /\ NewYear(z + 1) \in Int
  BY Years, SMT
<1>3. ~(y < z) /\ ~(z < y)
  BY <1>1, <1>2, SMT
<1> QED BY <1>3, SMT

Later(k, e, m, d) == m < k \/ (m = k /\ d < e)

\* Days of one year are in the order of their months and days.
LEMMA RealOrder ==
  ASSUME NEW y \in Int, NEW m \in 1..12, NEW d \in Int, NEW k \in 1..12, NEW e \in Int,
         OnCalendar(y, m, d), OnCalendar(y, k, e)
  PROVE  DayNumber(y, m, d) < DayNumber(y, k, e) <=> Later(k, e, m, d)
<1>1. /\ DayNumber(y, m, d) = NewYear(y) + Offset(m) + (IF m >= 3 THEN Leap(y) ELSE 0) + d - 1
      /\ DayNumber(y, k, e) = NewYear(y) + Offset(k) + (IF k >= 3 THEN Leap(y) ELSE 0) + e - 1
  BY NumberIs
<1>2. NewYear(y) \in Int /\ Leap(y) \in {0, 1}
  BY Years
<1> QED BY <1>1, <1>2, Offsets, SMTT(60) DEF OnCalendar, Length, Later

\* So are they in another year, but for a 29 February that year does not have.
KeepsOrder(y, z, m, d, k, e) ==
  OnCalendar(y, m, d) /\ OnCalendar(y, k, e) /\ Later(k, e, m, d)
    => /\ DayNumber(z, m, d) <= DayNumber(z, k, e)
       /\ DayNumber(z, m, d) = DayNumber(z, k, e) => m = 2 /\ d = 29

LEMMA OtherYear ==
  ASSUME NEW y \in Int, NEW z \in Int,
         NEW m \in 1..12, NEW d \in Int, NEW k \in 1..12, NEW e \in Int
  PROVE  KeepsOrder(y, z, m, d, k, e)
<1>1. /\ DayNumber(z, m, d) = NewYear(z) + Offset(m) + (IF m >= 3 THEN Leap(z) ELSE 0) + d - 1
      /\ DayNumber(z, k, e) = NewYear(z) + Offset(k) + (IF k >= 3 THEN Leap(z) ELSE 0) + e - 1
  BY NumberIs
<1>2. NewYear(z) \in Int /\ Leap(y) \in {0, 1} /\ Leap(z) \in {0, 1}
  BY Years
<1> QED BY <1>1, <1>2, Offsets, SMTT(60) DEF OnCalendar, Length, Later, KeepsOrder

LEMMA AfterIs ==
  ASSUME NEW a, NEW b
  PROVE  After(a, b) <=> Num(a) > Num(b)
  BY DEF After, Num

LEMMA YearBeforeIs ==
  ASSUME NEW day \in Days
  PROVE  /\ YearBefore(day) \in Days
         /\ Num(YearBefore(day)) = DayNumber(day[1] - 1, day[2], day[3])
<1>1. day[1] - 1 \in Int /\ day[2] \in Int /\ day[3] \in Int
  BY DaysAre, SMT
<1> QED BY <1>1, DateIs DEF YearBefore

\* A DD/MM of this year stays in this year.
LEMMA ThisYear ==
  ASSUME NEW y \in Int, NEW m \in 1..12, NEW d \in 1..31
  PROVE  Date(y, m, d) \in Days /\ Date(y, m, d)[1] = y
<1> DEFINE c == Date(y, m, d)
<1>1. c \in Days /\ Num(c) = DayNumber(y, m, d)
  BY DateIs, SMT
<1> HIDE DEF c
<1>2. /\ c[1] \in Int /\ c[2] \in 1..12 /\ c[3] \in 1..31 /\ Num(c) \in Int
      /\ Num(c) = DayNumber(c[1], c[2], c[3])
  BY <1>1, DaysAre DEF Num
<1>3. /\ NewYear(y) <= Num(c) /\ Num(c) < NewYear(y + 1)
      /\ NewYear(c[1]) <= Num(c) /\ Num(c) < NewYear(c[1] + 1)
  BY <1>1, <1>2, InYear
<1>4. c[1] = y
  BY <1>2, <1>3, OneYear
<1> QED BY <1>1, <1>4 DEF c

LEMMA ShortIs ==
  ASSUME NEW m, NEW d, NEW on, NEW c, c = Date(on[1], m, d)
  PROVE  Resolved(Short(m, d), on) = IF After(c, on) THEN YearBefore(c) ELSE c
  BY DEF Resolved, Short

LEMMA ShortIsRecent ==
  ASSUME NEW on \in Days, NEW m \in 1..12, NEW d \in 1..31
  PROVE  LET r == Resolved(Short(m, d), on)
         IN  /\ ~After(r, on)
             /\ Editable(r, on) \/ (IsLeapDay(on) /\ r = YearBefore(on))
<1> DEFINE r == Resolved(Short(m, d), on)
           c == Date(on[1], m, d)
           y == on[1]
           z == on[1] - 1
<1>1. /\ y \in Int /\ z \in Int /\ z + 1 = y
      /\ on[2] \in 1..12 /\ on[3] \in 1..31 /\ on[3] \in Int
      /\ OnCalendar(y, on[2], on[3])
      /\ Num(on) \in Int /\ Num(on) = DayNumber(y, on[2], on[3])
  BY DaysAre, SMT DEF Num
<1>2. /\ c \in Days /\ c[1] = y /\ Num(c) = DayNumber(y, m, d)
      /\ c[2] \in 1..12 /\ c[3] \in 1..31 /\ c[3] \in Int /\ Num(c) \in Int
      /\ OnCalendar(y, c[2], c[3])
  <2>1. c \in Days /\ c[1] = y /\ Num(c) = DayNumber(y, m, d)
    <3>1. c \in Days /\ c[1] = y
      BY <1>1, ThisYear
    <3>2. Num(c) = DayNumber(y, m, d)
      BY <1>1, DateIs
    <3> QED BY <3>1, <3>2
  <2> HIDE DEF c, y
  <2> QED BY <2>1, DaysAre, SMT
<1>3. r = IF After(c, on) THEN YearBefore(c) ELSE c
  BY ShortIs
<1> HIDE DEF r, c, y, z
<1>4. /\ YearBefore(on) \in Days /\ Num(YearBefore(on)) = DayNumber(z, on[2], on[3])
      /\ Num(YearBefore(on)) \in Int /\ Num(YearBefore(on)) < NewYear(y)
  <2>1. YearBefore(on) \in Days /\ Num(YearBefore(on)) = DayNumber(z, on[2], on[3])
    BY YearBeforeIs DEF z
  <2>2. DayNumber(z, on[2], on[3]) < NewYear(z + 1)
    BY <1>1, InYear
  <2> QED BY <1>1, <2>1, <2>2, DaysAre
<1>5. /\ NewYear(y) \in Int
      /\ NewYear(y) <= Num(on) /\ NewYear(y) <= Num(c)
  <2>1. NewYear(y) \in Int
    BY <1>1, Years
  <2>2. NewYear(y) <= DayNumber(y, on[2], on[3])
    BY <1>1, InYear
  <2>3. NewYear(y) <= DayNumber(y, m, d)
    BY <1>1, InYear
  <2> QED BY <1>1, <1>2, <2>1, <2>2, <2>3
<1>6. CASE ~After(c, on)
  <2>1. Num(r) > Num(YearBefore(on)) /\ r = c
    BY <1>2, <1>3, <1>4, <1>5, <1>6
  <2> QED BY <1>6, <2>1, AfterIs DEF Editable, r
<1>7. CASE After(c, on)
  <2>1. /\ r = YearBefore(c) /\ r \in Days /\ Num(r) = DayNumber(z, c[2], c[3]) /\ Num(r) \in Int
    BY <1>2, <1>3, <1>7, YearBeforeIs, DaysAre DEF y, z
  <2>2. Num(r) < NewYear(y)
    BY <1>1, <1>2, <2>1, InYear
  <2>3. ~After(r, on)
    BY <1>1, <1>5, <2>1, <2>2, AfterIs, SMT
  <2>4. Later(c[2], c[3], on[2], on[3])
    <3>1. Num(on) < DayNumber(y, c[2], c[3])
      BY <1>1, <1>2, <1>7, AfterIs DEF Num
    <3>2. DayNumber(y, on[2], on[3]) < DayNumber(y, c[2], c[3])
            <=> Later(c[2], c[3], on[2], on[3])
      BY <1>1, <1>2, RealOrder
    <3> QED BY <1>1, <3>1, <3>2
  <2>5. /\ DayNumber(z, on[2], on[3]) <= DayNumber(z, c[2], c[3])
        /\ DayNumber(z, on[2], on[3]) = DayNumber(z, c[2], c[3]) => on[2] = 2 /\ on[3] = 29
    <3>1. KeepsOrder(y, z, on[2], on[3], c[2], c[3])
      BY <1>1, <1>2, OtherYear
    <3> QED BY <1>1, <1>2, <2>4, <3>1 DEF KeepsOrder
  <2>6. CASE Num(YearBefore(on)) = Num(r)
    <3>1. r = YearBefore(on)
      BY <1>4, <2>1, <2>6, DaysAre
    <3> QED BY <1>4, <2>1, <2>3, <2>5, <2>6, <3>1 DEF IsLeapDay, r
  <2>7. CASE Num(YearBefore(on)) # Num(r)
    <3>1. Num(r) > Num(YearBefore(on))
      BY <1>4, <2>1, <2>5, <2>7
    <3> QED BY <2>3, <3>1, AfterIs DEF Editable, r
  <2> QED BY <2>6, <2>7
<1> QED BY <1>6, <1>7

LEMMA ShortReadsBack ==
  ASSUME NEW on \in Days, NEW day \in Days, ~After(day, on), ~IsLeapDay(day), Editable(day, on)
  PROVE  Resolved(Short(day[2], day[3]), on) = day
<1> DEFINE c == Date(on[1], day[2], day[3])
           y == on[1]
           z == on[1] - 1
           x == day[1]
           m == day[2]
           d == day[3]
<1>1. /\ y \in Int /\ z \in Int /\ z + 1 = y
      /\ on[2] \in 1..12 /\ on[3] \in 1..31 /\ on[3] \in Int
      /\ OnCalendar(y, on[2], on[3])
      /\ Num(on) \in Int /\ Num(on) = DayNumber(y, on[2], on[3])
  BY DaysAre, SMT DEF Num
<1>2. /\ x \in Int /\ m \in 1..12 /\ d \in 1..31 /\ d \in Int /\ OnCalendar(x, m, d)
      /\ Num(day) \in Int /\ Num(day) = DayNumber(x, m, d)
      /\ day = DayNumbered(Num(day))
  BY DaysAre, SMT DEF Num
<1>3. c \in Days /\ Num(c) = DayNumber(y, m, d) /\ Num(c) \in Int /\ c = DayNumbered(Num(c))
      /\ c[1] = y
  <2>1. c \in Days /\ c[1] = y
    BY <1>1, <1>2, ThisYear
  <2>2. Num(c) = DayNumber(y, m, d)
    BY <1>1, <1>2, DateIs
  <2> HIDE DEF c, y, m, d
  <2> QED BY <2>1, <2>2, DaysAre
<1>4. Resolved(Short(m, d), on) = IF After(c, on) THEN YearBefore(c) ELSE c
  BY ShortIs
<1>5. Num(YearBefore(on)) = DayNumber(z, on[2], on[3])
  BY YearBeforeIs
<1>6. Num(day) <= Num(on) /\ DayNumber(z, on[2], on[3]) < Num(day)
  <2>1. ~(Num(day) > Num(on)) /\ Num(day) > Num(YearBefore(on))
    BY AfterIs DEF Editable
  <2> QED BY <1>1, <1>2, <1>5, <2>1, NumberType
<1> HIDE DEF c, y, z, x, m, d
\* A day that may be edited is of this year or the one before.
<1>7. x = y \/ x = z
  <2>1. NewYear(z) <= DayNumber(z, on[2], on[3]) /\ DayNumber(y, on[2], on[3]) < NewYear(y + 1)
    BY <1>1, InYear
  <2>2. NewYear(x) <= Num(day) /\ Num(day) < NewYear(x + 1)
    BY <1>2, InYear
  <2>3. NewYear(z) \in Int /\ NewYear(y) \in Int /\ NewYear(y + 1) \in Int
    BY <1>1, Years
  <2>4. NewYear(z) <= Num(day) /\ Num(day) < NewYear(y + 1)
    <3>1. DayNumber(z, on[2], on[3]) \in Int
      <4>1. on[2] \in Int
        BY <1>1
      <4> QED BY <1>1, <4>1, NumberType, Zenon
    <3> QED BY <1>1, <1>2, <1>6, <2>1, <2>3, <3>1
  <2>5. CASE Num(day) < NewYear(y)
    BY <1>1, <1>2, <2>2, <2>4, <2>5, OneYear
  <2>6. CASE NewYear(y) <= Num(day)
    BY <1>1, <1>2, <2>2, <2>4, <2>6, OneYear
  <2> QED BY <1>2, <2>3, <2>5, <2>6
<1>8. CASE x = y
  <2>1. Num(c) = Num(day) /\ ~After(c, on)
    BY <1>1, <1>2, <1>3, <1>6, <1>8, AfterIs
  <2> QED BY <1>2, <1>3, <1>4, <2>1 DEF m, d
<1>9. CASE x = z
  \* The date of a day that is no 29 February is on the calendar of any year.
  <2>1. OnCalendar(y, m, d) /\ OnCalendar(z, m, d)
    <3>1. Leap(x) \in {0, 1} /\ Leap(y) \in {0, 1}
      BY <1>1, <1>2, Years
    <3>2. ~(m = 2 /\ d = 29)
      BY DEF IsLeapDay, m, d
    <3> QED BY <1>2, <1>9, <3>1, <3>2, SMT DEF OnCalendar, Length
  <2>2. Later(m, d, on[2], on[3])
    <3>1. CASE Later(on[2], on[3], m, d)
      <4>1. KeepsOrder(y, z, m, d, on[2], on[3])
        BY <1>1, <1>2, OtherYear
      <4>2. DayNumber(z, m, d) <= DayNumber(z, on[2], on[3])
        BY <1>1, <2>1, <3>1, <4>1 DEF KeepsOrder
      <4>3. DayNumber(z, on[2], on[3]) \in Int
        <5>1. on[2] \in Int
          BY <1>1
        <5> QED BY <1>1, <5>1, NumberType, Zenon
      <4> QED BY <1>2, <1>6, <1>9, <4>2, <4>3
    <3>2. CASE m = on[2] /\ d = on[3]
      BY <1>1, <1>2, <1>6, <1>9, <3>2, NumberType
    <3> QED BY <1>1, <1>2, <3>1, <3>2, SMT DEF Later
  <2>3. After(c, on)
    <3>1. DayNumber(y, on[2], on[3]) < DayNumber(y, m, d)
      BY <1>1, <1>2, <2>1, <2>2, RealOrder, Zenon
    <3> QED BY <1>1, <1>3, <3>1, AfterIs
  \* The candidate is that date of this year, so that the year before is the day's.
  <2>4. c[2] = m /\ c[3] = d
    <3>1. /\ c[2] \in 1..12 /\ c[3] \in Int /\ OnCalendar(y, c[2], c[3])
          /\ Num(c) = DayNumber(y, c[2], c[3])
      BY <1>3, DaysAre, SMT DEF Num
    <3>2. DayNumber(y, c[2], c[3]) = DayNumber(y, m, d) /\ DayNumber(y, m, d) \in Int
      BY <1>3, <3>1
    <3>3. ~Later(c[2], c[3], m, d) /\ ~Later(m, d, c[2], c[3])
      <4>1. ~(DayNumber(y, c[2], c[3]) < DayNumber(y, m, d))
            /\ ~(DayNumber(y, m, d) < DayNumber(y, c[2], c[3]))
        BY <3>2
      <4> QED BY <1>1, <1>2, <2>1, <3>1, <4>1, RealOrder, Zenon
    <3> QED BY <1>2, <3>1, <3>3, SMT DEF Later
  <2>5. YearBefore(c) \in Days /\ Num(YearBefore(c)) = Num(day)
    <3>1. YearBefore(c) \in Days /\ Num(YearBefore(c)) = DayNumber(c[1] - 1, c[2], c[3])
      BY <1>3, YearBeforeIs
    <3>2. c[1] - 1 = z
      BY <1>3 DEF y, z
    <3> QED BY <1>2, <1>9, <2>4, <3>1, <3>2
  <2>6. YearBefore(c) = day
    BY <1>2, <2>5, DaysAre
  <2> QED BY <1>4, <2>3, <2>6 DEF m, d
<1> QED BY <1>7, <1>8, <1>9 DEF m, d

-----------------------------------------------------------------------------
(* The record's day.                                                        *)

\* A date token resolves to a day, whatever its numbers.
LEMMA ResolvedDays ==
  ASSUME NEW t, IsToken(t), t.form \in DateForms, NEW on \in Days
  PROVE  Resolved(t, on) \in Days
<1>1. on[1] \in Int /\ on[2] \in Int /\ on[3] \in Int
  BY DaysAre, SMT
<1>2. CASE t.form = "relative"
  <2>1. on[3] - t.back \in Int
    BY <1>1, <1>2 DEF IsToken
  <2>2. Resolved(t, on) = Date(on[1], on[2], on[3] - t.back)
    BY <1>2 DEF Resolved, DaysBefore
  <2> QED BY <1>1, <2>1, <2>2, DateIs
<1>3. CASE t.form = "full"
  <2>1. t.year \in Int /\ t.month \in Int /\ t.day \in Int
    BY <1>3 DEF IsToken
  <2>2. Resolved(t, on) = Date(t.year, t.month, t.day)
    BY <1>3 DEF Resolved
  <2> QED BY <2>1, <2>2, DateIs
<1>4. CASE t.form = "short"
  <2> DEFINE c == Date(on[1], t.month, t.day)
  <2>1. t.month \in Int /\ t.day \in Int
    BY <1>4 DEF IsToken
  <2>2. c \in Days
    BY <1>1, <2>1, DateIs
  <2>3. Resolved(t, on) = IF After(c, on) THEN YearBefore(c) ELSE c
    BY <1>4 DEF Resolved
  <2> HIDE DEF c
  <2> QED BY <2>2, <2>3, YearBeforeIs
<1> QED BY <1>2, <1>3, <1>4 DEF DateForms

LEMMA DatesOfLine ==
  ASSUME NEW line, IsLine(line), today \in Days
  PROVE  DateOf(Parse(line)) \in Days
<1> DEFINE dates == Parse(line).dates
           D == {t \in TokensOf(line) : t.form \in DateForms}
<1>1. dates \in Seq(D)
  BY ParseIsParsed DEF IsParsed, Parsed
<1>2. \A t \in D : IsToken(t) /\ t.form \in DateForms
  BY DEF IsLine, TokensOf
<1>3. DateOf(Parse(line)) = IF dates = <<>> THEN today ELSE Resolved(dates[1], today)
  BY DEF DateOf
<1> HIDE DEF dates, D
<1>4. CASE dates # <<>>
  <2>1. dates[1] \in D
    BY <1>1, <1>4
  <2> QED BY <1>2, <1>3, <1>4, <2>1, ResolvedDays
<1> QED BY <1>3, <1>4

CalInv == today \in Days /\ stored \in Days

LEMMA TodayInvariant ==
  ASSUME FirstDay \in Days
  PROVE  Spec => [](today \in Days)
<1>1. Init => today \in Days
  BY DEF Init
<1>2. today \in Days /\ [Next]_vars => (today \in Days)'
  <2> SUFFICES ASSUME today \in Days, [Next]_vars
               PROVE  today' \in Days
    OBVIOUS
  <2>1. CASE NextDay
    <3>1. today[1] \in Int /\ today[2] \in Int /\ today[3] - (-1) \in Int
      BY DaysAre, SMT
    <3> QED BY <2>1, <3>1, DateIs DEF NextDay, DaysBefore
  <2>2. CASE Enter \/ OpenBox \/ SaveBox \/ UNCHANGED vars
    BY <2>2 DEF Enter, OpenBox, SaveBox, vars
  <2> QED BY <2>1, <2>2 DEF Next
<1> QED BY <1>1, <1>2, PTL DEF Spec

LEMMA CalInvariant ==
  ASSUME LinesAreTyped, FirstDay \in Days
  PROVE  Spec => []CalInv
<1>1. Init => stored \in Days
  BY DEF Init
<1>2. today \in Days /\ TextInv /\ stored \in Days /\ [Next]_vars => (stored \in Days)'
  <2> SUFFICES ASSUME today \in Days, TextInv, stored \in Days, [Next]_vars
               PROVE  stored' \in Days
    OBVIOUS
  <2>1. CASE NextDay \/ OpenBox \/ UNCHANGED vars
    BY <2>1 DEF NextDay, OpenBox, record, vars
  <2>2. CASE Enter
    <3>1. PICK line \in LinesOn(today) : stored' = DateOf(Parse(line))
      BY <2>2 DEF Enter
    <3>2. IsLine(line)
      BY <3>1 DEF LinesAreTyped
    <3> QED BY <3>1, <3>2, DatesOfLine
  <2>3. CASE SaveBox
    <3>1. CASE stored' = DateOf(Parse(box))
      <4>1. Parse(box).dates = <<Short(stored[2], stored[3])>>
        BY <2>3, BoxReadsBack DEF SaveBox
      <4>2. DateOf(Parse(box)) = Resolved(Short(stored[2], stored[3]), today)
        BY <4>1 DEF DateOf
      <4>3. today[1] \in Int /\ stored[2] \in Int /\ stored[3] \in Int
        BY DaysAre, SMT
      <4> DEFINE c == Date(today[1], stored[2], stored[3])
      <4>4. c \in Days
        BY <4>3, DateIs
      <4>5. Resolved(Short(stored[2], stored[3]), today) = IF After(c, today) THEN YearBefore(c) ELSE c
        BY ShortIs
      <4> HIDE DEF c
      <4> QED BY <3>1, <4>2, <4>4, <4>5, YearBeforeIs
    <3>2. CASE stored' = stored
      BY <3>2
    <3> QED BY <2>3, <3>1, <3>2 DEF SaveBox
  <2> QED BY <2>1, <2>2, <2>3 DEF Next
<1> QED BY <1>1, <1>2, TodayInvariant, TextInvariant, PTL DEF Spec, CalInv

\* Before a line is entered there is no text.
BlankText == typed = <<>> => text = TextOf(Blank)

LEMMA EmptyLine ==
  ~OK(Parse(<<>>))
<1>1. DOMAIN <<>> = 1..0
  OBVIOUS
<1>2. PICK p : p[0] = Blank /\ p[0] = Parse(<<>>)
  BY ONLY <1>1, 0 \in Nat, ParseSteps, Zenon
<1> QED BY <1>2 DEF OK, Blank

LEMMA BlankTextStep ==
  ASSUME TextInv, BlankText, [Next]_vars
  PROVE  BlankText'
<1>1. CASE NextDay \/ OpenBox \/ UNCHANGED vars
  BY <1>1 DEF NextDay, OpenBox, record, vars, BlankText
<1>2. CASE Enter
  <2>1. PICK line \in LinesOn(today) : OK(Parse(line)) /\ typed' = line
    BY <1>2 DEF Enter
  <2>2. line # <<>>
    BY <2>1, EmptyLine
  <2> QED BY <2>1, <2>2 DEF BlankText
<1>3. CASE SaveBox
  BY <1>3 DEF SaveBox, TextInv, BlankText
<1> QED BY <1>1, <1>2, <1>3 DEF Next

\* The type invariant: the day is one of the calendar whatever numbers a date
\* token has, and the amount one an int holds (parse.go, resolveDate and
\* amountMinorUnits).
THEOREM EntryTypeCorrect ==
  ASSUME LinesAreTyped, FirstDay \in Days
  PROVE  Spec => []TypeOK
<1>1. CalInv /\ TextInv /\ BlankText => TypeOK
  <2> SUFFICES ASSUME CalInv, TextInv, BlankText
               PROVE  TypeOK
    OBVIOUS
  <2>1. IsDay(today) /\ IsDay(stored)
    BY DaysAre DEF CalInv
  <2>2. text.amount \in 0..MaxInt /\ text.sigil \in {"plain", "plus", "equals"}
    <3>1. CASE typed # <<>>
      <4>1. IsText(text, TokensOf(typed))
        BY <3>1, TypedText DEF TextInv
      <4>2. MaxInt \in Int
        BY EntryTextAssumption DEF MaxInt
      <4> QED BY <4>1, <4>2 DEF IsText, Sigils
    <3>2. CASE typed = <<>>
      BY <3>2, EntryTextAssumption DEF BlankText, TextOf, Blank, MaxInt
    <3> QED BY <3>1, <3>2
  <2> QED BY <2>1, <2>2 DEF TypeOK, TextInv
<1>2. Init => BlankText
  BY DEF Init, BlankText
<1>3. TextInv /\ BlankText /\ [Next]_vars => BlankText'
  BY BlankTextStep
<1> QED BY <1>1, <1>2, <1>3, CalInvariant, TextInvariant, PTL DEF Spec

\* A DD/MM is a day no later than the one it is typed on, and one of the edit
\* window unless it names a 29 February the year before lacks (parse.go,
\* resolveDate; expense.go, Editable): on every day of every year.
THEOREM RecentCorrect ==
  ASSUME FirstDay \in Days
  PROVE  Spec => []ShortDateIsRecent
<1>1. today \in Days => ShortDateIsRecent
  BY ShortIsRecent DEF ShortDateIsRecent
<1> QED BY <1>1, TodayInvariant, PTL

\* Saving the line a box opened with keeps the record's day, on whatever later
\* day it is saved: across the ends of years and the edit window's last day
\* (expense.go, EntryLine; parse.go, resolveDate; ADR-0008).
THEOREM EditCorrect ==
  ASSUME LinesAreTyped, FirstDay \in Days
  PROVE  Spec => EditKeepsOrdinaryDate
<1>1. CalInv /\ TextInv /\ [Next]_vars
        => [box # <<>> /\ ~After(stored, today) /\ ~IsLeapDay(stored) => stored' = stored]_vars
  <2> SUFFICES ASSUME CalInv, TextInv, [Next]_vars,
                      box # <<>>, ~After(stored, today), ~IsLeapDay(stored)
               PROVE  stored' = stored
    BY Zenon
  <2>1. CASE NextDay \/ OpenBox \/ UNCHANGED vars
    BY <2>1 DEF NextDay, OpenBox, record, vars
  <2>2. CASE Enter
    BY <2>2 DEF Enter, TextInv
  <2>3. CASE SaveBox
    <3>1. CASE Editable(stored, today) /\ OK(Parse(box))
      <4>1. Parse(box).dates = <<Short(stored[2], stored[3])>>
        BY BoxReadsBack
      <4>2. DateOf(Parse(box)) = Resolved(Short(stored[2], stored[3]), today)
        BY <4>1 DEF DateOf
      <4>3. stored' = DateOf(Parse(box))
        BY <2>3, <3>1 DEF SaveBox
      <4> QED BY <3>1, <4>2, <4>3, ShortReadsBack DEF CalInv
    <3> QED BY <2>3, <3>1 DEF SaveBox
  <2> QED BY <2>1, <2>2, <2>3 DEF Next
<1> QED BY <1>1, CalInvariant, TextInvariant, PTL DEF Spec, EditKeepsOrdinaryDate

=============================================================================
