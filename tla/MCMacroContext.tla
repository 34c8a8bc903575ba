--------------------------- MODULE MCMacroContext ---------------------------
EXTENDS MacroContextReference
CONSTANTS p, q

MCDaemons == {p, q}
MCNames == {"n"}
MCTimeNames == {"A_Hour"}
MCClockTexts == {Written(0), Written(5)}

(* All operations on two numbers; the hour, and two readings of it one     *)
(* behind the other; and operations on two operations, and on a number and *)
(* an operation on an operation.                                           *)
Ops == <<"+", "-", "*", "/">>
Once == << Leaf(-3), Leaf(2) >>
            \o [i \in 1 .. 4 |-> Operation(Ops[i], 1, 2, 1)]
            \o [i \in 1 .. 4 |-> Operation(Ops[i], 2, 1, 1)]
            \o << Named("A_Hour"), Operation("-", 11, 11, 1) >>
Deep == << Leaf(-3), Leaf(2), Operation("-", 1, 2, 1), Operation("/", 1, 2, 1),
           Operation("*", 1, 2, 1), Operation("+", 3, 4, 2), Operation("*", 3, 4, 2) >>
            \o [i \in 1 .. 4 |-> Operation(Ops[i], 5, 1, 2)]
            \o [i \in 1 .. 4 |-> Operation("-", 2, 7 + i, 3)]
MCSheets == {Once, Deep}

(* A counter said twice, with time to be reloaded or killed between; a     *)
(* random branch, one of which counts under the same name.                 *)
Report == << Increment("n"), Say(<<Variable("n")>>), Say(<<Variable("n")>>) >>
Weather == << Random("n", 2, 1), If("n", "=", 1, <<Increment("n")>>, <<>>),
              IfRandom(1, 2, ">", 1, <<Say(<<Variable("n")>>)>>, <<>>) >>
Sums(sheet) == << Say(SheetText(sheet)) >>
MCScripts ==
    << [globals |-> [v \in {"n"} |-> <<Number(1)>>], macros |-> {Report, Weather}],
       [globals |-> [v \in {} |-> <<>>], macros |-> {Report, Sums(Once), Sums(Deep)}] >>
Branches(command) ==
    IF command.do \in {"if", "ifrandom"} THEN Range(command.then \o command.else) ELSE {}
MCCommands ==
    LET outer == UNION {UNION {Range(m) : m \in MCScripts[s].macros} : s \in DOMAIN MCScripts}
    IN  outer \cup UNION {Branches(c) : c \in outer}
Symmetric == Permutations(MCDaemons)
=============================================================================
