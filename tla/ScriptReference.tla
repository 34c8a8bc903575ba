-------------------------- MODULE ScriptReference --------------------------
(***************************************************************************)
(* What a script means, without the way it is read.  A program is written  *)
(* here as a tree: macros, of keys, statements and an ending, with what    *)
(* may stand between them.  Render lays it out as lines in the styles of   *)
(* README.md and of the examples; Meaning is the hotstrings it stands for. *)
(* Neither uses the operators of LineText that take a text apart.          *)
(***************************************************************************)
EXTENDS ScriptReader

CONSTANTS
    Levels,         \* a sequence of sets of If statements, each nested in later ones
    Programs,       \* a sequence of sets of programs to lay out in files
    Others          \* a sequence of sets of files, of any lines

VARIABLE written    \* the program the file is a layout of, <<>> for none

(* A line of a kind as README.md writes it, whose text is looked at only   *)
(* where no command is around.                                             *)
Spelled ==
    [closeelse |-> <<"}", "Else", "{">>, closeelseif |-> <<"}", "Else", "If", "{">>,
     closebare |-> <<"}", "Else">>, closebareif |-> <<"}", "Else", "If">>,
     closeclose |-> <<"}", "}">>,
     note |-> <<";">>, headernote |-> <<";", "F6", ":", ":">>, assign |-> <<"v", "=", "1">>, text |-> <<"v", "1">>,
     begin |-> <<"/*">>, end |-> <<"*/">>, remark |-> <<"/*", "*/">>]
Plain(kind) == Line(kind, IF kind \in DOMAIN Spelled THEN Spelled[kind] ELSE <<>>)
PlainLines(kinds) == [i \in DOMAIN kinds |-> Plain(kinds[i])]

(* What is typed: texts, of characters as they are, and keys by name with  *)
(* a count.  A character the braces are for is written in braces.          *)
Typed(characters) == [characters |-> characters, name |-> "none", count |-> 1]
Pressed(name, count) == [characters |-> <<>>, name |-> name, count |-> count]
IsText(item) == item.name = "none"

Numeral == [n \in 1 .. 3 |-> <<"1", "2", "3">>[n]]
RenderItem(item) ==
    IF IsText(item)
      THEN FlattenSeq([i \in DOMAIN item.characters |->
               IF item.characters[i] \in Escapable \ {"}"}
                 THEN <<"{", item.characters[i], "}">> ELSE <<item.characters[i]>>])
      ELSE <<"{", item.name>> \o (IF item.count = 1 THEN <<>> ELSE <<Numeral[item.count]>>)
               \o <<"}">>
RenderItems(items) == FlattenSeq([i \in DOMAIN items |-> RenderItem(items[i])])

Stroke(item) ==
    IF IsText(item) THEN Paste(item.characters) ELSE Tap(Specials[item.name], item.count)
Strokes(items) == [i \in DOMAIN items |-> Stroke(items[i])]

(* The ways to write a trigger: characters that are replaced, a key with   *)
(* or without a modifier, and what each stands for.                        *)
Letterwise(letters) == [form |-> "old", keys |-> letters, mod |-> <<>>]
Key(name) == [form |-> "new", keys |-> <<name>>, mod |-> <<>>]
With(mod, name) == [form |-> "new", keys |-> <<name>>, mod |-> <<mod>>]

RenderTrigger(t, text) ==
    Header(t.form, (IF t.mod = <<>> THEN <<>> ELSE Append(t.mod, "&")) \o t.keys, text)

KeyOf(name) == IF name \in DOMAIN Layout THEN Layout[name] ELSE Specials[name]
TriggerMeaning(t, does) ==
    [keys |-> [i \in DOMAIN t.keys |-> KeyOf(t.keys[i])],
     mods |-> {Modifiers[t.mod[i]] : i \in DOMAIN t.mod},
     erase |-> t.form = "old", does |-> does]

(* Statements: Says(items), and an If in a style of writing its braces,    *)
(* "own" lines, "inline", or, where the Else is one If, "chained" with or  *)
(* "below" the brace.                                                      *)
Says(items) == [style |-> "send", says |-> items, then |-> <<>>, else |-> <<>>]
StyledIf(style, then, else) ==
    [style |-> style, says |-> <<>>, then |-> then, else |-> else]
IsSend(s) == s.style = "send"
AllIfs == UNION {Levels[n] : n \in DOMAIN Levels}

(* A body, by what comes behind the opening lines of an If in it: its      *)
(* branches up to the last brace.                                          *)
Opening(if) == PlainLines(IF if.style = "own" THEN <<"if", "open">> ELSE <<"ifopen">>)
LaidOut(body, branches) ==
    FlattenSeq([i \in DOMAIN body |->
        IF IsSend(body[i]) THEN << Line("command", <<"sendinput">> \o RenderItems(body[i].says)) >>
        ELSE Opening(body[i]) \o branches[body[i]]])

Between(style) ==
    PlainLines(CASE style = "own" -> <<"close", "else", "open">>
                 [] style = "inline" -> <<"closeelse">>
                 [] style = "chained" -> <<"closeelseif">>
                 [] style = "below" -> <<"close", "elseifopen">>)
RenderBranches[if \in AllIfs] ==
    LaidOut(if.then, RenderBranches) \o
        (IF if.else = <<>> THEN PlainLines(<<"close">>)
         ELSE Between(if.style) \o
            (IF if.style \in {"chained", "below"} THEN RenderBranches[if.else[1]]
             ELSE LaidOut(if.else, RenderBranches) \o PlainLines(<<"close">>)))
RenderBody(body) == LaidOut(body, RenderBranches)

(* The lines before a macro, its triggers one above the other, what it     *)
(* does and, where its ending says so, a Return.  It does statements, or   *)
(* says something at once, behind its trigger or in lines below it.        *)
Macro(before, triggers, way, body, ending) ==
    [before |-> before, triggers |-> triggers, way |-> way, body |-> body,
     ending |-> ending]

RenderMacro(m) ==
    PlainLines(m.before)
      \o [i \in DOMAIN m.triggers |->
             RenderTrigger(m.triggers[i],
                           IF m.way = "inline" THEN RenderItems(m.body[1].says) ELSE <<>>)]
      \o (CASE m.way = "statements" -> RenderBody(m.body)
            [] m.way = "inline" -> <<>>
            [] m.way = "below" ->
                  [i \in DOMAIN m.body |-> Line("text", RenderItems(m.body[i].says))])
      \o PlainLines(m.ending)
Render(program) == FlattenSeq([i \in DOMAIN program |-> RenderMacro(program[i])])

(* The tree of a body, by those of the Ifs in it.                          *)
Grown(body, trees) ==
    [i \in DOMAIN body |->
        IF IsSend(body[i]) THEN Send(Strokes(body[i].says)) ELSE trees[body[i]]]
Trees[if \in AllIfs] == If(Grown(if.then, Trees), Grown(if.else, Trees))
Tree(body) == Grown(body, Trees)

(* A text, and the keys behind it.                                         *)
AtOnce(items) ==
    Does(<<>>,
         FlattenSeq([i \in DOMAIN items |-> items[i].characters]),
         FlattenSeq([i \in DOMAIN items |->
             IF IsText(items[i]) THEN <<>> ELSE << Stroke(items[i]) >>]))

(* Lines of text, one below the other.                                     *)
OneText(lines) ==
    FlattenSeq([i \in DOMAIN lines |->
        (IF i = 1 THEN <<>> ELSE << Typed(<<"newline">>) >>) \o lines[i].says])

MacroDoes(m) ==
    CASE m.way = "statements" -> Commands(Tree(m.body))
      [] m.way = "inline" -> AtOnce(m.body[1].says)
      [] m.way = "below" -> AtOnce(OneText(m.body))

Meaning(program) ==
    LET macro(m) == [i \in DOMAIN m.triggers |->
                        TriggerMeaning(m.triggers[i], MacroDoes(m))]
    IN  FlattenSeq([i \in DOMAIN program |-> macro(program[i])])

(* What is laid out: texts that are not empty, keys that have a name; in a *)
(* Send no text next to another, in a replacement no counts for the keys   *)
(* that have none.                                                         *)
IsList(s) == Len(s) \in Nat /\ s = [i \in 1 .. Len(s) |-> s[i]]
IsItem(item) ==
    \/ /\ item.characters \in Seq(STRING) \ { <<>> }
       /\ item = Typed(item.characters)
    \/ /\ item.name \in DOMAIN Specials /\ item.count \in 1 .. 3
       /\ item = Pressed(item.name, item.count)
IsSaying(items) == IsList(items) /\ Len(items) > 0 /\ \A i \in DOMAIN items : IsItem(items[i])
Sendable(items) ==
    \A i \in DOMAIN items : IsText(items[i]) => i = 1 \/ ~IsText(items[i - 1])
Replaceable(items) ==
    \A i \in DOMAIN items :
        \/ IsText(items[i])
        \/ items[i].name \in CountedTails
        \/ items[i].name \in SingleTails /\ items[i].count = 1

(* Statements of which the Ifs are some, and an If of such.                *)
IsBody(body, ifs) ==
    /\ IsList(body)
    /\ \A i \in DOMAIN body :
           \/ IsSend(body[i]) /\ IsSaying(body[i].says) /\ Sendable(body[i].says)
           \/ ~IsSend(body[i]) /\ body[i] \in ifs
IsIf(if, ifs) ==
    /\ IsBody(if.then, ifs) /\ IsBody(if.else, ifs)
    /\ \/ if.style \in {"own", "inline"}
       \/ /\ if.style \in {"chained", "below"}
          /\ if.else # <<>> => Len(if.else) = 1 /\ if.else[1] \in ifs
ASSUME LevelsAssumption ==
    /\ IsList(Levels)
    /\ \A n \in DOMAIN Levels : \A if \in Levels[n] :
           IsIf(if, UNION {Levels[m] : m \in 1 .. n - 1})

IsTrigger(t) ==
    /\ t.form \in {"old", "new"}
    /\ t.mod \in { <<>> } \cup {<<m>> : m \in DOMAIN Modifiers}
    /\ t.keys \in Seq(DOMAIN Layout) \/ t.keys \in {<<k>> : k \in DOMAIN Specials}

(* Comments between macros are closed, and triggers in them are none.      *)
InsideComment(kinds, n) ==
    \E b \in 1 .. n : /\ kinds[b] = "begin"
                      /\ \A e \in b + 1 .. n : kinds[e] \notin {"end", "remark"}
IsBetween(kinds) ==
    /\ kinds \in Seq(Kinds)
    /\ \A n \in DOMAIN kinds : kinds[n] = "header" => InsideComment(kinds, n - 1)
    /\ ~InsideComment(kinds, Len(kinds))

(* A macro that says something at once has one trigger if it says it       *)
(* behind that; one of statements ends with a Return, or with the next     *)
(* trigger, and only comments of one line may stand before that.           *)
IsMacro(m) ==
    /\ IsBetween(m.before)
    /\ IsList(m.triggers) /\ Len(m.triggers) > 0
    /\ \A i \in DOMAIN m.triggers : IsTrigger(m.triggers[i])
    /\ IF m.way = "statements"
         THEN /\ IsBody(m.body, AllIfs) /\ m.ending \in { <<>>, <<"return">> }
              /\ m.body # <<>> \/ m.ending # <<>>
         ELSE /\ m.way \in {"inline", "below"} /\ m.ending = <<>>
              /\ IsList(m.body) /\ Len(m.body) > 0
              /\ \A i \in DOMAIN m.body :
                     IsSaying(m.body[i].says) /\ Replaceable(m.body[i].says)
              /\ m.way = "inline" => Len(m.triggers) = 1 /\ Len(m.body) = 1
IsNext(m, next) ==
    \/ m.way = "inline" \/ m.ending = <<"return">>
    \/ m.way = "below" /\ next.before = <<>>
    \/ m.way = "statements" /\ \A i \in DOMAIN next.before : next.before[i] = "note"
IsProgram(program) ==
    /\ IsList(program) /\ Len(program) > 0
    /\ \A n \in DOMAIN program : IsMacro(program[n])
    /\ \A n \in DOMAIN program : n > 1 => IsNext(program[n - 1], program[n])
ASSUME ProgramsAssumption ==
    \A n \in DOMAIN Programs : \A program \in Programs[n] : IsProgram(program)

ReferenceInit ==
    /\ \/ (\E n \in DOMAIN Programs : written \in Programs[n]) /\ source = Render(written)
       \/ written = <<>> /\ \E n \in DOMAIN Others : source \in Others[n]
    /\ Init

ReferenceSpec ==
    ReferenceInit /\ [][Next /\ UNCHANGED written]_<<vars, written>>

----------------------------------------------------------------------------
(* A script that is laid out properly is never refused, and what is read   *)
(* of it is what is written: each trigger with its keys, its modifier and  *)
(* its own commands, each branch with its If, in every style of braces and *)
(* with anything between; and the same text and keys, in whichever of the  *)
(* three ways they are written.                                            *)
ReadsWhatIsWritten ==
    written # <<>> =>
        /\ outcome # "thrown"
        /\ outcome = "done" =>
               [n \in DOMAIN hotstrings |->
                    LET h == hotstrings[n]
                    IN  [keys |-> h.keys, mods |-> h.mods, erase |-> h.erase,
                         does |-> h.does]]
                 = Meaning(written)

(* README.md:102, "Quick Start", and README.md:19, "Text trigger           *)
(* replacement (:*?:hlo::Hello)": a file of that page is not refused.      *)
DocumentedScriptsLoad == outcome # "thrown"
=============================================================================
