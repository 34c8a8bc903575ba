---------------------------- MODULE MacroContext ----------------------------
(***************************************************************************)
(* The variables of a script and the counters of all scripts: Context,     *)
(* IfCommand.cpp, IncrementCommand.cpp, RandomAssignCommand of             *)
(* ScriptParser.cpp, and what Daemon::execute_macro and a reload do with   *)
(* them.                                                                   *)
(*                                                                         *)
(* A parsed script has one context, which all its hotstrings share and all *)
(* runs of them.  It holds ints, which Random sets and conditions read,    *)
(* and texts, which assignments and counters set and SendInput reads.  A   *)
(* counter is a file in /tmp, read and rewritten by every increment of     *)
(* every daemon.  A macro that runs during a reload keeps the context of   *)
(* the script it is from.                                                  *)
(***************************************************************************)
EXTENDS Interpolation, FiniteSets

CONSTANTS
    Daemons,        \* processes; one is started when the other has gone, or not
    Names,          \* of variables
    TimeNames,      \* A_Hour and such, which read the clock
    ClockTexts,     \* what they may read
    Scripts,        \* a sequence of scripts, [globals, macros]
    Commands,       \* those of all macros, and of the branches of their Ifs
    FirstMax,       \* the greatest first number of a counter (50)
    MaxIssued,      \* bound: increments of counters, over all
    MaxChanges,     \* bound: starts of daemons and loads of scripts, over all
    MaxMacros       \* bound: macros that are begun, over all

ASSUME ContextAssumption ==
    /\ Daemons # {} /\ Names \cap TimeNames = {}
    /\ FirstMax \in 0 .. IntMax
    /\ {MaxIssued, MaxChanges, MaxMacros} \subseteq Nat

(* What the parser makes: a name of a variable wherever one is wanted, and *)
(* ints for the bounds of a Random.                                        *)
ASSUME ScriptsAssumption ==
    /\ \A s \in DOMAIN Scripts : Scripts[s].macros \subseteq Seq(Commands)
    /\ \A c \in Commands :
           /\ c.do \in {"increment", "random", "if"} => c.name \in Names
           /\ c.do \in {"random", "ifrandom"} => {c.lo, c.hi} \subseteq IntMin .. IntMax
           /\ c.do \in {"if", "ifrandom"} => {c.then, c.else} \subseteq Seq(Commands)

VARIABLES
    alive,          \* the daemons that run
    contexts,       \* of each, the contexts of the scripts it was given
    script,         \* the number of the script it has
    macro,          \* what its worker runs
    counter,        \* of each name, the file
    changes, begun, \* counts for the bounds
    issued,         \* history: of each name, the numbers written to the file
    misfortunes,    \* history: what happened to the files
    last            \* history: what the last step decided or said

vars == <<alive, contexts, script, macro, counter, changes, begun, issued,
          misfortunes, last>>

(* Commands.                                                               *)
Increment(v) == [do |-> "increment", name |-> v]
Random(v, lo, hi) == [do |-> "random", name |-> v, lo |-> lo, hi |-> hi]
Say(text) == [do |-> "say", text |-> text]
If(v, op, cmp, then, else) ==
    [do |-> "if", name |-> v, op |-> op, cmp |-> cmp, then |-> then, else |-> else]
IfRandom(lo, hi, op, cmp, then, else) ==
    [do |-> "ifrandom", lo |-> lo, hi |-> hi, op |-> op, cmp |-> cmp,
     then |-> then, else |-> else]
(* The range of a random, given either way round.                          *)
Rolls(c) == IF c.lo <= c.hi THEN c.lo .. c.hi ELSE c.hi .. c.lo

NoContext == [ints |-> [v \in Names |-> 0], texts |-> [v \in Names |-> <<>>]]

(* The files: a number, or nothing that can be read as one.                *)
Absent == [has |-> "nothing", n |-> 0]
Cut == [has |-> "no number", n |-> 0]
Holding(n) == [has |-> "number", n |-> n]
IsNumber(c) == c.has = "number"

(* A macro is idle, before a command, or inside an increment.  drawn and   *)
(* rolled are history: the numbers it got from counters and Random.        *)
Unknown == [v \in Names |-> {}]
Macro(place, todo, context, value, drawn, rolled) ==
    [place |-> place, todo |-> todo, context |-> context, value |-> value,
     drawn |-> drawn, rolled |-> rolled]
Idle == Macro("idle", <<>>, 0, 0, Unknown, Unknown)

Nothing == [did |-> "nothing"]

TypeOK ==
    /\ alive \subseteq Daemons
    /\ \A d \in Daemons :
           /\ macro[d].place \in {"idle", "ready", "read", "truncated"}
           /\ macro[d].place # "idle" => macro[d].context \in DOMAIN contexts[d]
           /\ macro[d].value \in IntMin .. IntMax
           /\ \A c \in DOMAIN contexts[d] :
                  contexts[d][c].ints \in [Names -> IntMin .. IntMax]
           /\ d \notin alive => macro[d] = Idle
    /\ \A v \in Names : counter[v].n \in IntMin .. IntMax
    /\ misfortunes \subseteq {"cut short", "not written", "two daemons"}

Init ==
    /\ alive = {}
    /\ contexts = [d \in Daemons |-> <<>>]
    /\ script \in [Daemons -> DOMAIN Scripts]
    /\ macro = [d \in Daemons |-> Idle]
    /\ counter \in [Names -> {Absent, Holding(IntMax - 1)}]
    /\ changes = 0
    /\ begun = 0
    /\ issued = [v \in Names |-> <<>>]
    /\ misfortunes = {}
    /\ last = Nothing

----------------------------------------------------------------------------
(* The daemons.                                                            *)

(* The context parse_file makes, with the assignments of the script.       *)
Fresh(n) ==
    LET s == Scripts[n] IN
    [NoContext EXCEPT !.texts =
        [v \in Names |-> IF v \in DOMAIN s.globals THEN s.globals[v] ELSE <<>>]]

Start(d) ==
    /\ d \notin alive /\ changes < MaxChanges
    /\ alive' = alive \cup {d}
    /\ contexts' = [contexts EXCEPT ![d] = << Fresh(script[d]) >>]
    /\ changes' = changes + 1
    /\ misfortunes' = IF alive # {} THEN misfortunes \cup {"two daemons"} ELSE misfortunes
    /\ UNCHANGED <<script, macro, counter, begun, issued>>
    /\ last' = Nothing

(* The process is killed, or ends; an increment may be in the middle.      *)
Kill(d) ==
    /\ d \in alive
    /\ alive' = alive \ {d}
    /\ macro' = [macro EXCEPT ![d] = Idle]
    /\ contexts' = [contexts EXCEPT ![d] = <<>>]
    /\ misfortunes' = IF macro[d].place = "truncated"
                        THEN misfortunes \cup {"cut short"} ELSE misfortunes
    /\ UNCHANGED <<script, counter, changes, begun, issued>>
    /\ last' = Nothing

(* reload_script: a new context for what is matched from now on.           *)
Load(d) ==
    /\ d \in alive /\ changes < MaxChanges
    /\ \E s \in DOMAIN Scripts :
           /\ script' = [script EXCEPT ![d] = s]
           /\ contexts' = [contexts EXCEPT ![d] = Append(@, Fresh(s))]
    /\ changes' = changes + 1
    /\ UNCHANGED <<alive, macro, counter, begun, issued, misfortunes>>
    /\ last' = Nothing

----------------------------------------------------------------------------
(* execute_macro, of a hotstring with commands.                            *)
Begin(d) ==
    /\ d \in alive /\ macro[d].place = "idle" /\ begun < MaxMacros
    /\ \E m \in Scripts[script[d]].macros :
           macro' = [macro EXCEPT ![d] =
                        Macro("ready", m, Len(contexts[d]), 0, Unknown, Unknown)]
    /\ begun' = begun + 1
    /\ UNCHANGED <<alive, contexts, script, counter, changes, issued, misfortunes>>
    /\ last' = Nothing

Ready(d, what) ==
    /\ macro[d].place = "ready" /\ macro[d].todo # <<>>
    /\ Head(macro[d].todo).do = what
Command(d) == Head(macro[d].todo)
Done(m) == [m EXCEPT !.place = "ready", !.todo = Tail(m.todo)]
Context(d) == contexts[d][macro[d].context]

(* The macro has no more commands, or stop_requested is seen before one,   *)
(* or the condition of an If is of no form there is, and throws.           *)
End(d) ==
    /\ macro[d].place = "ready"
    /\ macro' = [macro EXCEPT ![d] = Idle]
    /\ UNCHANGED <<alive, contexts, script, counter, changes, begun, issued, misfortunes>>
    /\ last' = Nothing

(* A slip: it goes to the context of the script that is loaded now.        *)
RandomAssign_Newest(d) ==
    /\ Ready(d, "random")
    /\ LET c == Command(d) IN
       \E n \in Rolls(c) :
           /\ contexts' = [contexts EXCEPT ![d][Len(contexts[d])].ints[c.name] = n]
           /\ macro' = [macro EXCEPT ![d] = [Done(@) EXCEPT !.rolled[c.name] = {n}]]
    /\ UNCHANGED <<alive, script, counter, changes, begun, issued, misfortunes>>
    /\ last' = Nothing

(* RandomAssignCommand: any number of the range.                           *)
RandomAssign(d) ==
    /\ Ready(d, "random")
    /\ LET c == Command(d) IN
       \E n \in Rolls(c) :
           /\ contexts' = [contexts EXCEPT ![d][macro[d].context].ints[c.name] = n]
           /\ macro' = [macro EXCEPT ![d] = [Done(@) EXCEPT !.rolled[c.name] = {n}]]
    /\ UNCHANGED <<alive, script, counter, changes, begun, issued, misfortunes>>
    /\ last' = Nothing

(* IfCommand compares n; the branch stands for the If.                     *)
Branch(d, n, rolled) ==
    LET c == Command(d)
        taken == Holds(c.op, n, c.cmp)
    IN  /\ macro' = [macro EXCEPT ![d].todo =
                         (IF taken THEN c.then ELSE c.else) \o Tail(@)]
        /\ last' = [did |-> "decided", command |-> c, taken |-> taken, rolled |-> rolled]

(* n is an int of the name, 0 where there is none, or a random(lo, hi).    *)
Decide(d) ==
    /\ \/ /\ Ready(d, "if")
          /\ Branch(d, Context(d).ints[Command(d).name], macro[d].rolled[Command(d).name])
       \/ /\ Ready(d, "ifrandom")
          /\ \E n \in Rolls(Command(d)) : Branch(d, n, {n})
    /\ UNCHANGED <<alive, contexts, script, counter, changes, begun, issued, misfortunes>>

(* A slip: a number that was drawn before is counted on in memory.         *)
Read_Remembered(d) ==
    /\ Ready(d, "increment")
    /\ Len(issued[Command(d).name]) < MaxIssued
    /\ LET text == Context(d).texts[Command(d).name]
           known == Len(text) = 1 /\ text[1].is = "number"
       IN  \E n \in (IF known THEN {text[1].n + 1} ELSE 0 .. FirstMax) :
               n <= IntMax /\ macro' = [macro EXCEPT ![d].place = "read", ![d].value = n]
    /\ UNCHANGED <<alive, contexts, script, counter, changes, begun, issued, misfortunes>>
    /\ last' = Nothing

(* A slip: the number does not go round, and is no int any more.           *)
Read_Unbounded(d) ==
    /\ Ready(d, "increment")
    /\ Len(issued[Command(d).name]) < MaxIssued
    /\ LET file == counter[Command(d).name]
       IN  \E n \in (IF IsNumber(file) THEN {file.n + 1} ELSE 0 .. FirstMax) :
               macro' = [macro EXCEPT ![d].place = "read", ![d].value = n]
    /\ UNCHANGED <<alive, contexts, script, counter, changes, begun, issued, misfortunes>>
    /\ last' = Nothing

(* IncrementCommand: the number in the file and one more, or any first     *)
(* number where none can be read.  One more than the greatest int is       *)
(* undefined in C++; what is compiled goes round.                          *)
Read(d) ==
    /\ Ready(d, "increment")
    /\ Len(issued[Command(d).name]) < MaxIssued
    /\ LET file == counter[Command(d).name]
           next == IF file.n = IntMax THEN IntMin ELSE file.n + 1
       IN  \E n \in (IF IsNumber(file) THEN {next} ELSE 0 .. FirstMax) :
               macro' = [macro EXCEPT ![d].place = "read", ![d].value = n]
    /\ UNCHANGED <<alive, contexts, script, counter, changes, begun, issued, misfortunes>>
    /\ last' = Nothing

(* The file is opened with ios::trunc, or cannot be opened.                *)
Truncate(d) ==
    /\ macro[d].place = "read"
    /\ counter' = [counter EXCEPT ![Command(d).name] = Cut]
    /\ macro' = [macro EXCEPT ![d].place = "truncated"]
    /\ UNCHANGED <<alive, contexts, script, changes, begun, issued, misfortunes>>
    /\ last' = Nothing

(* set_variable_str: the macro goes on with the number in any case.        *)
Took(d) ==
    LET v == Command(d).name
        n == macro[d].value
    IN  /\ contexts' = [contexts EXCEPT ![d][macro[d].context].texts[v] = Written(n)]
        /\ macro' = [macro EXCEPT ![d] = [Done(@) EXCEPT !.drawn[v] = {n}]]

(* A slip: it goes to the ints.                                            *)
Write_Int(d) ==
    /\ macro[d].place = "truncated"
    /\ LET v == Command(d).name
           n == macro[d].value
       IN  /\ counter' = [counter EXCEPT ![v] = Holding(n)]
           /\ issued' = [issued EXCEPT ![v] = Append(@, n)]
           /\ contexts' = [contexts EXCEPT ![d][macro[d].context].ints[v] = n]
           /\ macro' = [macro EXCEPT ![d] = [Done(@) EXCEPT !.drawn[v] = {n}]]
    /\ UNCHANGED <<alive, script, changes, begun, misfortunes>>
    /\ last' = Nothing

Write(d) ==
    /\ macro[d].place = "truncated"
    /\ counter' = [counter EXCEPT ![Command(d).name] = Holding(macro[d].value)]
    /\ issued' = [issued EXCEPT ![Command(d).name] = Append(@, macro[d].value)]
    /\ Took(d)
    /\ UNCHANGED <<alive, script, changes, begun, misfortunes>>
    /\ last' = Nothing

(* The file is not to be opened, or the disk is full: no one looks.        *)
WriteFails(d) ==
    /\ macro[d].place \in {"read", "truncated"}
    /\ misfortunes' = misfortunes \cup {"not written"}
    /\ Took(d)
    /\ UNCHANGED <<alive, script, counter, changes, begun, issued>>
    /\ last' = Nothing

(* get_variable_str, of the name at each place: a time reads the clock, at *)
(* every place anew, and a variable of the name of a time is not looked at. *)
Times(text) == {i \in Variables(text) : text[i].of \in TimeNames}
TextsAt(d, text, clock) ==
    [i \in Variables(text) |->
        IF i \in Times(text) THEN clock[i] ELSE Context(d).texts[text[i].of]]

(* SendInputCommand, the text of one part.                                 *)
Speak(d) ==
    /\ Ready(d, "say")
    /\ LET text == Command(d).text IN
       \E clock \in [Times(text) -> ClockTexts] :
           last' = [did |-> "said", command |-> Command(d), clock |-> clock,
                    text |-> Interpolate(text, TextsAt(d, text, clock)),
                    drawn |-> macro[d].drawn]
    /\ macro' = [macro EXCEPT ![d] = Done(@)]
    /\ UNCHANGED <<alive, contexts, script, counter, changes, begun, issued, misfortunes>>

Next ==
    \E d \in Daemons :
        \/ Start(d) \/ Kill(d) \/ Load(d) \/ Begin(d) \/ End(d)
        \/ RandomAssign(d) \/ Decide(d)
        \/ Read(d) \/ Truncate(d) \/ Write(d) \/ WriteFails(d) \/ Speak(d)

Spec == Init /\ [][Next]_vars

----------------------------------------------------------------------------
(* Properties.                                                             *)

(* spintax_and_counters.ahk:10, the value of a counter survives a restart: *)
(* every number is the one after the number before, over all scripts,      *)
(* macros, cancellations, reloads, kills and restarts, unless a kill or a   *)
(* disk cut the file short or two daemons ran at once; and up to the       *)
(* greatest int, where the numbers begin again from below.                 *)
NumbersConsecutive ==
    misfortunes = {} =>
        \A v \in Names : \A i \in 1 .. Len(issued[v]) - 1 :
            issued[v][i + 1] = IF issued[v][i] = IntMax THEN IntMin ELSE issued[v][i] + 1

(* What a macro says of a counter is the number it drew itself, however    *)
(* often it says it, whatever is loaded, written or lost in between, and   *)
(* even while another daemon counts too.                                   *)
OwnNumber ==
    \A v \in Names :
        last.did = "said" /\ last.command.text = <<Variable(v)>> =>
            \A n \in last.drawn[v] : last.text = Written(n)

(* A macro that rolled a Random decides by what it rolled, not by what a   *)
(* run before left there or a reload in the middle set back.               *)
BranchExact ==
    last.did = "decided" =>
        \A n \in last.rolled :
            last.taken = Holds(last.command.op, n, last.command.cmp)
=============================================================================
