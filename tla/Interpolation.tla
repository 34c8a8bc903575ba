---------------------------- MODULE Interpolation ----------------------------
(***************************************************************************)
(* What a text becomes before it is pasted, and what a condition compares  *)
(* (Context::interpolate and IfCommand::evaluate_condition in              *)
(* src/src/commands/IfCommand.cpp).                                        *)
(*                                                                         *)
(* A text is a sequence of tokens: numbers without their sign, variables   *)
(* in percent signs, and symbols, of which the parentheses and operators   *)
(* matter here.  No two numbers stand side by side, and blanks are not     *)
(* written.                                                                *)
(***************************************************************************)
EXTENDS Integers, Sequences, SequencesExt

CONSTANTS
    IntMax,         \* the greatest int
    MaxPasses       \* max_passes of interpolate

ASSUME IntAssumption == IntMax \in Nat /\ MaxPasses \in Nat

IntMin == -IntMax - 1

Symbol(c) == [is |-> "symbol", of |-> c, n |-> 0]
Number(n) == [is |-> "number", of |-> "", n |-> n]
Variable(v) == [is |-> "variable", of |-> v, n |-> 0]

Operators == {"+", "-", "*", "/"}

(* std::to_string.                                                         *)
Written(n) == IF n < 0 THEN <<Symbol("-"), Number(-n)>> ELSE <<Number(n)>>

(* Phase 1: the %name% at each place by the text that is got for it there. *)
Variables(text) == {i \in DOMAIN text : text[i].is = "variable"}
Substituted(text, value) ==
    FlattenSeq([i \in DOMAIN text |->
        IF text[i].is = "variable" THEN value[i] ELSE <<text[i]>>])

(* A slip: the quotient of / is rounded down.                              *)
Quotient_Floor(a, b) == IF b = 0 THEN 0 ELSE IF b > 0 THEN a \div b ELSE (-a) \div (-b)

(* The quotient of C++, towards zero, and 0 by 0.                          *)
Magnitude(n) == IF n < 0 THEN -n ELSE n
Quotient(a, b) ==
    IF b = 0 THEN 0
    ELSE IF (a < 0) = (b < 0) THEN Magnitude(a) \div Magnitude(b)
    ELSE -(Magnitude(a) \div Magnitude(b))

(* The result of a long long operation on two ints, clamped to an int.     *)
Clamp(n) == IF n < IntMin THEN IntMin ELSE IF n > IntMax THEN IntMax ELSE n
Apply(op, a, b) ==
    Clamp(CASE op = "+" -> a + b
            [] op = "-" -> a - b
            [] op = "*" -> a * b
            [] op = "/" -> Quotient(a, b))

(* A number at j, which may have a sign: where its digits are, what it is. *)
Is(text, j, c) == j \in DOMAIN text /\ text[j] = Symbol(c)
Digits(text, j) == IF Is(text, j, "-") THEN j + 1 ELSE j
NumberAt(text, j) == Digits(text, j) \in DOMAIN text /\ text[Digits(text, j)].is = "number"
ValueAt(text, j) == IF Is(text, j, "-") THEN -text[j + 1].n ELSE text[j].n

(* The match of ( number op number ) that begins at i: its value, and what *)
(* follows it, or 0.                                                       *)
OpAt(text, i) == Digits(text, i + 1) + 1
CloseAt(text, i) == Digits(text, OpAt(text, i) + 1) + 1
Matches(text, i) ==
    /\ Is(text, i, "(") /\ NumberAt(text, i + 1)
    /\ \E c \in Operators : Is(text, OpAt(text, i), c)
    /\ NumberAt(text, OpAt(text, i) + 1) /\ Is(text, CloseAt(text, i), ")")
Match(text, i) ==
    IF Matches(text, i)
      THEN [value |-> Apply(text[OpAt(text, i)].of, ValueAt(text, i + 1),
                            ValueAt(text, OpAt(text, i) + 1)),
            next |-> CloseAt(text, i) + 1]
      ELSE [value |-> 0, next |-> 0]

(* One pass of phase 2: every match by its value.  No two overlap, and     *)
(* none is longer than seven tokens.                                       *)
Inside(text, i) == \E j \in (i - 6 .. i - 1) \cap DOMAIN text : Match(text, j).next > i
Piece(text, i) ==
    IF Match(text, i).next # 0 THEN Written(Match(text, i).value)
    ELSE IF Inside(text, i) THEN <<>> ELSE <<text[i]>>
Pass(text) == FlattenSeq([i \in DOMAIN text |-> Piece(text, i)])

(* Phase 2.  A pass without a match leaves the text alone, so that ending  *)
(* the loop at the first of them makes no difference.                      *)
Evaluated(text) ==
    LET after[n \in 0 .. MaxPasses] ==
            IF n = 0 THEN text ELSE Pass(after[n - 1])
    IN  after[MaxPasses]

Interpolate(text, value) == Evaluated(Substituted(text, value))

Holds(op, a, b) ==
    CASE op \in {"=", "=="} -> a = b
      [] op = "!=" -> a # b
      [] op = ">" -> a > b
      [] op = "<" -> a < b
      [] op = ">=" -> a >= b
      [] op = "<=" -> a <= b
=============================================================================
