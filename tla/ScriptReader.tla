---------------------------- MODULE ScriptReader ----------------------------
(***************************************************************************)
(* AhkParser::parse_file (src/src/AhkParser.cpp): the lines of a script    *)
(* become hotstrings.  It goes down the lines, passes over comments, takes *)
(* assignments for global variables, collects triggers that stand one      *)
(* above the other, and for the last of them reads ahead to the end of the *)
(* body they share.                                                        *)
(*                                                                         *)
(* To the kinds of lines ScriptBlocks knows it adds                        *)
(*   "header"  F1:: or F1::text or :*?:...::text                           *)
(*   "begin"   /*            "end"     ... */                              *)
(*   "assign"  name = value  "remark"  /* ... */ alone   "text"  the rest, *)
(* n++ and ShowMarkdown among them, which it does not know for commands.   *)
(* In a body a "headernote", ; F1::x, is taken for a trigger; between      *)
(* macros it is a comment.                                                 *)
(***************************************************************************)
EXTENDS ScriptBlocks

Actions == {"command", "return", "if", "ifopen", "else", "elseopen", "elseif",
            "elseifopen", "open", "close"}
Kinds == Actions \cup DOMAIN Leading \cup Notes \cup
    {"header", "begin", "end", "remark", "assign", "text"}
Forms == {"none", "new", "old", "bare"}
Lines == [kind : Kinds, form : Forms, trigger : Seq(STRING), text : Seq(STRING)]

VARIABLES
    source,         \* raw_lines
    at,             \* the line to look at
    outcome,        \* "reading", "done", or "thrown"
    comment,        \* in_multiline_comment
    pending,        \* pending_triggers, as lines of the source
    hotstrings,     \* what will be returned
    globals,        \* the lines that set a variable of global_context
    commented       \* history: the lines passed over in /* */

vars == <<source, at, outcome, comment, pending, hotstrings, globals, commented>>

KindAt(i) == IF i \in DOMAIN source THEN source[i].kind ELSE "nothing"

(* parse_hotstring_line: the trigger of a header.  In one that begins with *)
(* its :: the search for the other colon starts before the line, and finds *)
(* the last one there is.                                                  *)
TriggerOf(line) ==
    IF line.form = "bare"
      THEN ParseTrigger(SubSeq(line.text, FindLast(line.text, ":") + 1, Len(line.text)))
      ELSE ParseTrigger(line.trigger)

(* What a hotstring does: commands, or a text to paste and tail keys.      *)
Does(commands, text, tail) == [commands |-> commands, text |-> text, tail |-> tail]
Commands(tree) == Does(tree, <<>>, <<>>)
Text(replacement) == Does(<<>>, replacement.text, replacement.tail)
Nothing == Does(<<>>, <<>>, <<>>)

(* The hotstring of the header at line i, with a body in some lines.       *)
Hotstring(i, does, lines) ==
    [line |-> i, keys |-> TriggerOf(source[i]).keys, mods |-> TriggerOf(source[i]).mods,
     erase |-> source[i].form # "new", does |-> does, body |-> lines]

(* flush_pending: a copy of what was read for each trigger that waits.     *)
Flushed(triggers, does, lines) ==
    [n \in DOMAIN triggers |-> Hotstring(triggers[n], does, lines)]

TypeOK ==
    /\ source \in Seq(Lines)
    /\ at \in 1 .. Len(source) + 1
    /\ outcome \in {"reading", "done", "thrown"}
    /\ comment \in BOOLEAN
    /\ pending \in Seq(DOMAIN source)
    /\ \A n \in DOMAIN hotstrings :
           /\ hotstrings[n].line \in DOMAIN source
           /\ Range(hotstrings[n].keys) \subseteq Range(Layout) \cup Range(Specials)
           /\ hotstrings[n].mods \subseteq Range(Modifiers)
           /\ hotstrings[n].body \subseteq hotstrings[n].line + 1 .. Len(source)
    /\ globals \subseteq DOMAIN source
    /\ commented \subseteq DOMAIN source

Init ==
    /\ source \in Seq(Lines)
    /\ at = 1
    /\ outcome = "reading"
    /\ comment = FALSE
    /\ pending = <<>>
    /\ hotstrings = <<>>
    /\ globals = {}
    /\ commented = {}

----------------------------------------------------------------------------
(* The loop over the lines, one action for each branch of its body.        *)
Reading(kinds) == outcome = "reading" /\ ~comment /\ KindAt(at) \in kinds

InComment ==
    /\ outcome = "reading" /\ comment /\ at \in DOMAIN source
    /\ comment' = (source[at].kind \notin {"end", "remark"})
    /\ commented' = commented \cup {at}
    /\ at' = at + 1
    /\ UNCHANGED <<source, outcome, pending, hotstrings, globals>>

BeginComment ==
    /\ Reading({"begin", "remark"})
    /\ comment' = (KindAt(at) = "begin")
    /\ commented' = commented \cup {at}
    /\ at' = at + 1
    /\ UNCHANGED <<source, outcome, pending, hotstrings, globals>>

Assign ==
    /\ Reading({"assign"})
    /\ globals' = globals \cup {at}
    /\ at' = at + 1
    /\ UNCHANGED <<source, outcome, comment, pending, hotstrings, commented>>

(* Comments, and lines that are neither this nor that outside of a body.   *)
Pass ==
    /\ Reading(Kinds \ {"header", "begin", "remark", "assign"})
    /\ at' = at + 1
    /\ UNCHANGED <<source, outcome, comment, pending, hotstrings, globals, commented>>

(* A header with a replacement that can be read, empty or not.             *)
HeaderRead(empty) ==
    /\ Reading({"header"})
    /\ TriggerOf(source[at]).ok
    /\ LET replacement == ParseReplacement(source[at].text)
       IN  replacement.ok /\ empty = (replacement.text = <<>> /\ replacement.tail = <<>>)

(* parse_hotstring_line throws.                                            *)
BadHeader ==
    /\ Reading({"header"})
    /\ ~(TriggerOf(source[at]).ok /\ ParseReplacement(source[at].text).ok)
    /\ outcome' = "thrown"
    /\ UNCHANGED <<source, at, comment, pending, hotstrings, globals, commented>>

InlineHotstring == Hotstring(at, Text(ParseReplacement(source[at].text)), {})

(* A slip: the triggers above are forgotten.                               *)
Inline_Forgets ==
    /\ HeaderRead(FALSE)
    /\ hotstrings' = Append(hotstrings, InlineHotstring)
    /\ pending' = <<>>
    /\ at' = at + 1
    /\ UNCHANGED <<source, outcome, comment, globals, commented>>

(* A trigger with its text; those above it that wait have no body.         *)
Inline ==
    /\ HeaderRead(FALSE)
    /\ hotstrings' = Append(hotstrings \o Flushed(pending, Nothing, {}), InlineHotstring)
    /\ pending' = <<>>
    /\ at' = at + 1
    /\ UNCHANGED <<source, outcome, comment, globals, commented>>

(* The next line that is neither empty nor a comment by itself.            *)
Peek ==
    LET next == {i \in at + 1 .. Len(source) : source[i].kind \notin Notes}
    IN  IF next = {} THEN "nothing" ELSE KindAt(Min(next))

(* A trigger above another one waits for the body of that.                 *)
Stack ==
    /\ HeaderRead(TRUE)
    /\ Peek = "header"
    /\ pending' = Append(pending, at)
    /\ at' = at + 1
    /\ UNCHANGED <<source, outcome, comment, hotstrings, globals, commented>>

(* How deep in braces the body is after line i.  Only a brace alone on its *)
(* line counts, and one that closes nothing does not.                      *)
Depth ==
    LET depth[i \in at .. Len(source)] ==
            IF i = at THEN 0
            ELSE IF KindAt(i) = "open" THEN depth[i - 1] + 1
            ELSE IF KindAt(i) = "close" /\ depth[i - 1] > 0 THEN depth[i - 1] - 1
            ELSE depth[i - 1]
    IN  depth

(* The line that ends the body of the trigger in hand: a Return or another *)
(* trigger outside of braces, a comment that reads like one included, or   *)
(* the end of the file.                                                    *)
BodyEnd ==
    LET ends == {i \in at + 1 .. Len(source) :
                   KindAt(i) \in {"header", "headernote", "return"} /\ Depth[i] = 0}
    IN  IF ends = {} THEN Len(source) + 1 ELSE Min(ends)

(* A slip: the body is looked at again, for triggers of its own.           *)
Resume_InBody(end) == at + 1

(* A Return belongs to the body, a trigger to the next one.                *)
Resume(end) == IF KindAt(end) = "return" THEN end + 1 ELSE end

(* The lines of a body as one text.                                        *)
JoinedLines(lines) ==
    FlattenSeq([n \in DOMAIN lines |->
        (IF n = 1 THEN <<>> ELSE <<"newline">>) \o lines[n].text])

(* A body with a Return or some command in it is a block of commands, any  *)
(* other a replacement.                                                    *)
CollectBody ==
    /\ HeaderRead(TRUE)
    /\ Peek # "header"
    /\ LET body == SubSeq(source, at + 1, BodyEnd - 1)
           kinds == {body[n].kind : n \in DOMAIN body}
           isBlock == KindAt(BodyEnd) = "return" \/ kinds \cap Actions # {}
           block == ParseBlock(body)
           replacement == ParseReplacement(JoinedLines(body))
           throws == IF isBlock THEN block.next = 0 ELSE ~replacement.ok
           does == IF isBlock THEN Commands(block.commands) ELSE Text(replacement)
       IN  IF throws
             THEN outcome' = "thrown" /\ UNCHANGED <<at, pending, hotstrings>>
             ELSE /\ hotstrings' = hotstrings \o
                        Flushed(Append(pending, at), does, at + 1 .. BodyEnd - 1)
                  /\ pending' = <<>>
                  /\ at' = Resume(BodyEnd)
                  /\ UNCHANGED outcome
    /\ UNCHANGED <<source, comment, globals, commented>>

(* The end of the file.  A script without hotstrings is refused.           *)
Finish ==
    /\ outcome = "reading"
    /\ at = Len(source) + 1
    /\ hotstrings' = hotstrings \o Flushed(pending, Nothing, {})
    /\ pending' = <<>>
    /\ outcome' = IF hotstrings' = <<>> THEN "thrown" ELSE "done"
    /\ UNCHANGED <<source, at, comment, globals, commented>>

Next ==
    \/ InComment \/ BeginComment \/ Assign \/ Pass
    \/ BadHeader \/ Inline \/ Stack \/ CollectBody \/ Finish

Spec == Init /\ [][Next]_vars

----------------------------------------------------------------------------
(* Properties.                                                             *)

(* The hotstrings stand in the order of the file, which decides between    *)
(* triggers of the same length, and none is there twice.                   *)
InOrder ==
    \A m, n \in DOMAIN hotstrings : m < n => hotstrings[m].line < hotstrings[n].line

(* No line is run or pasted under two bodies: those of two hotstrings are  *)
(* the same one, which they share, or have no line in common.              *)
BodiesApart ==
    \A m, n \in DOMAIN hotstrings :
        \/ hotstrings[m].body \cap hotstrings[n].body = {}
        \/ hotstrings[m].body = hotstrings[n].body

(* The reader's place is in the file and what it keeps well formed, with   *)
(* the order of the file and no line under two bodies.                     *)
ReaderInv == TypeOK /\ InOrder /\ BodiesApart

(* No trigger is lost: each one in the file is that of a hotstring, or is  *)
(* commented out, or inside the braces of a body.                          *)
TriggersAccounted ==
    outcome = "done" =>
        \A i \in DOMAIN source : source[i].kind = "header" =>
            \/ i \in commented
            \/ \E n \in DOMAIN hotstrings :
                   i = hotstrings[n].line \/ i \in hotstrings[n].body
=============================================================================
