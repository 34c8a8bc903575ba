----------------------- MODULE MacroContextReference -----------------------
(***************************************************************************)
(* What an arithmetic expression in a text is worth, from the worth of its *)
(* parts, without the rewriting of texts by which Interpolation computes   *)
(* it.                                                                     *)
(***************************************************************************)
EXTENDS MacroContext

CONSTANT Sheets     \* sequences of lines that the macros say

(* A line is a number, a time, or an operation on two lines before it; and *)
(* how deep it nests at most.                                              *)
Leaf(n) == [op |-> "number", n |-> n, of |-> "", l |-> 0, r |-> 0, deep |-> 0]
Named(v) == [op |-> "time", n |-> 0, of |-> v, l |-> 0, r |-> 0, deep |-> 0]
Operation(op, l, r, deep) ==
    [op |-> op, n |-> 0, of |-> "", l |-> l, r |-> r, deep |-> deep]

(* Sheets are no deeper than interpolate has passes, and a time reads as a *)
(* number.                                                                 *)
ASSUME SheetsAssumption ==
    /\ ClockTexts \subseteq {Written(n) : n \in IntMin .. IntMax}
    /\ \A sheet \in Sheets : Len(sheet) \in Nat \ {0} /\ DOMAIN sheet = 1 .. Len(sheet)
    /\ \A sheet \in Sheets : \A i \in DOMAIN sheet :
           LET line == sheet[i] IN
           \/ line \in {Leaf(n) : n \in IntMin .. IntMax}
           \/ line \in {Named(v) : v \in TimeNames}
           \/ /\ line.op \in Operators /\ line.deep \in 1 .. MaxPasses
              /\ \A j \in {line.l, line.r} : j \in 1 .. i - 1 /\ sheet[j].deep < line.deep

(* How each line is written.                                               *)
Layout(sheet) ==
    LET layout[i \in DOMAIN sheet] ==
            LET line == sheet[i] IN
            IF line.op = "number" THEN Written(line.n)
            ELSE IF line.op = "time" THEN <<Variable(line.of)>>
            ELSE <<Symbol("(")>> \o layout[line.l] \o <<Symbol(line.op)>>
                     \o layout[line.r] \o <<Symbol(")")>>
    IN  layout

(* A quotient is without its fraction, and has the sign of the fraction.   *)
IsQuotient(q, a, b) ==
    /\ Magnitude(a) - Magnitude(b) * Magnitude(q) \in 0 .. Magnitude(b) - 1
    /\ q # 0 => ((q < 0) <=> ((a < 0) # (b < 0)))
Nearest(n) ==
    CHOOSE v \in IntMin .. IntMax :
        \A m \in IntMin .. IntMax : Magnitude(v - n) <= Magnitude(m - n)

(* The int nearest to the sum, difference, product or quotient, the last   *)
(* of which is 0 by zero.                                                  *)
Result(op, a, b) ==
    CASE op = "+" -> Nearest(a + b)
      [] op = "-" -> Nearest(a - b)
      [] op = "*" -> Nearest(a * b)
      [] op = "/" /\ b = 0 -> 0
      [] op = "/" /\ b # 0 -> Nearest(CHOOSE q \in IntMin .. IntMax + 1 : IsQuotient(q, a, b))

(* What each line is worth where p tokens of the text stand before it, by  *)
(* the value at each place of a time: the left side of an operation begins *)
(* behind its parenthesis, the right one behind its operator.              *)
Worth(sheet, value) ==
    LET layout == Layout(sheet)
        worth[i \in DOMAIN sheet] ==
            LET line == sheet[i] IN
            [p \in Nat |->
                IF line.op = "number" THEN line.n
                ELSE IF line.op = "time" THEN value[p + 1]
                ELSE Result(line.op, worth[line.l][p + 1],
                            worth[line.r][p + Len(layout[line.l]) + 2])]
    IN  worth

(* How many tokens stand before each line in the list of them.             *)
Before(layout) ==
    LET before[i \in DOMAIN layout] ==
            IF i = 1 THEN 0 ELSE before[i - 1] + Len(layout[i - 1]) + 1
    IN  before

Listed(texts) == FlattenSeq([i \in DOMAIN texts |-> texts[i] \o <<Symbol("newline")>>])
SheetText(sheet) == Listed(Layout(sheet))
SheetTexts == [sheet \in Sheets |-> SheetText(sheet)]

(* The number a text is.                                                   *)
ValueOf(text) == CHOOSE n \in IntMin .. IntMax : text = Written(n)

(* An expression in parentheses, of numbers and times, is pasted as its    *)
(* value, negative numbers and quotients among them, however many of them  *)
(* a text has; outside of the ints it is clamped at each operation.  A     *)
(* time is what the clock said when it was read for that very place.       *)
MathExact ==
    last.did = "said" =>
        \A sheet \in {s \in Sheets : SheetTexts[s] = last.command.text} :
            LET value == [p \in Nat |->
                             IF p \in DOMAIN last.clock THEN ValueOf(last.clock[p]) ELSE 0]
                worth == Worth(sheet, value)
                before == Before(Layout(sheet))
            IN  last.text = Listed([i \in DOMAIN sheet |-> Written(worth[i][before[i]])])
=============================================================================
