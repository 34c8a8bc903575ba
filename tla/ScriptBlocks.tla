---------------------------- MODULE ScriptBlocks ----------------------------
(***************************************************************************)
(* How the lines of a macro become a tree of commands: preprocess_lines,   *)
(* parse_block_lines, parse_if_chain and parse_simple_command of           *)
(* src/src/commands/ScriptParser.cpp.                                      *)
(*                                                                         *)
(* A line is what the parser tells apart of it, its kind, and its text:    *)
(*   "if"     If (...)           "ifopen"      If (...) {       "open"  {  *)
(*   "else"   Else               "elseopen"    Else {           "close" }  *)
(*   "elseif" Else If (...)      "elseifopen"  Else If (...) {             *)
(*   "closebare"    } Else               "closeelse"    } Else {           *)
(*   "closebareif"  } Else If (...)      "closeelseif"  } Else If (...) {  *)
(*   "closeclose"   } }                  "closecommand" } SendInput ...    *)
(*   "note"         ; a comment          "headernote"   ; one with a ::    *)
(*   "command"      a SendInput, Sleep, Random or Cancel  "return" Return  *)
(* and those that only parse_file gives a meaning (ScriptReader).  The     *)
(* first word of a command is its name in small letters.  Of a line with   *)
(* braces before its other text, or of nothing but braces, those with one  *)
(* or two are there; the code takes off any number of them in the same way.*)
(***************************************************************************)
EXTENDS LineText

(* The trigger is the text before the :: of a header line, and its form    *)
(* "new" F1::..., "old" :*?:...::..., or "bare" ::...; text is what is     *)
(* behind, or the whole of another line.                                   *)
Header(form, trigger, text) ==
    [kind |-> "header", form |-> form, trigger |-> trigger, text |-> text]
Line(kind, text) ==
    [kind |-> kind, form |-> "none", trigger |-> <<>>, text |-> text]

Command(name, parts, args) == [do |-> name, parts |-> parts, args |-> args]
Send(parts) == Command("sendinput", parts, <<>>)
If(then, else) == [then |-> then, else |-> else]

(* What was parsed, and the line to go on with: 0 after a throw.           *)
Parsed(commands, next) == [commands |-> commands, next |-> next]
Thrown == Parsed(<<>>, 0)

(* parse_simple_command on the words of line i: a command, nothing, or a   *)
(* throw.                                                                  *)
SimpleCommand(words, i) ==
    LET name == words[1]
        args == Tail(words)
        one(command) == Parsed(<<command>>, i + 1)
        isNumber(n) == n \in DOMAIN args /\ args[n] \in DOMAIN Numbers
    IN  IF Named(words, {"sendinput"}) THEN
            IF args = <<>> \/ ~ParseSequence(args).ok THEN Thrown
            ELSE one(Send(ParseSequence(args).parts))
        ELSE IF Named(words, {"sleep"}) THEN
            IF isNumber(1) THEN one(Command(name, <<>>, args)) ELSE Thrown
        ELSE IF Named(words, {"random"}) THEN
            IF Len(args) = 3 /\ isNumber(2) /\ isNumber(3)
              THEN one(Command(name, <<>>, args)) ELSE Thrown
        ELSE IF Named(words, {"cancel", "pause"}) THEN one(Command("cancel", <<>>, <<>>))
        ELSE IF Named(words, {"showmarkdown"}) THEN
            IF args = <<>> THEN Thrown ELSE one(Command(name, <<>>, args))
        ELSE IF Len(words) = 2 /\ words[2] = "++" THEN
            one(Command("increment", <<>>, << words[1] >>))
        ELSE Parsed(<<>>, i + 1)

(* A slip: a brace stays with what follows it.                             *)
Notes == {"note", "headernote"}
Preprocess_KeepsBraces(block) == SelectSeq(block, LAMBDA l : l.kind \notin Notes)

(* What the rest of a line is that begins with a closing brace.            *)
Leading ==
    [closebare |-> "else", closeelse |-> "elseopen",
     closebareif |-> "elseif", closeelseif |-> "elseifopen",
     closeclose |-> "close", closecommand |-> "command"]

(* Comments go, and closing braces are lines of their own.                 *)
Split(line) ==
    IF line.kind \in Notes THEN <<>>
    ELSE IF line.kind \in DOMAIN Leading THEN
        << Line("close", <<>>),
           Line(Leading[line.kind], SubSeq(line.text, 2, Len(line.text))) >>
    ELSE <<line>>
Preprocess(block) == FlattenSeq([i \in DOMAIN block |-> Split(block[i])])

(* The parser reads on from a line, either of the whole block ("top"), or  *)
(* of what is in braces, or at an If or Else ("chain"): read is what that  *)
(* gives for each line and way.                                            *)
KindOf(lines, i) == IF i \in DOMAIN lines THEN lines[i].kind ELSE "nothing"
Ifs == {"if", "ifopen", "elseif", "elseifopen"}
Elses == {"else", "elseopen", "elseif", "elseifopen"}

(* A branch whose { is on the line i, or alone on the next one.            *)
Branch(lines, read, i, inline) ==
    IF inline THEN read[<<i + 1, "braces">>]
    ELSE IF KindOf(lines, i + 1) = "open" THEN read[<<i + 2, "braces">>] ELSE Thrown

(* parse_if_chain: the branch of the If at line i, and that of its Else.   *)
IfChain(then, lines, read) ==
    LET else == IF KindOf(lines, then.next) \in Elses
                  THEN read[<<then.next, "chain">>] ELSE Parsed(<<>>, then.next)
    IN  IF then.next = 0 \/ else.next = 0 THEN Thrown
        ELSE Parsed(<< If(then.commands, else.commands) >>, else.next)
Chain(lines, read, i) ==
    LET kind == KindOf(lines, i) IN
    IF kind \in Ifs THEN
        IfChain(Branch(lines, read, i, kind \in {"ifopen", "elseifopen"}), lines, read)
    ELSE IF kind \in Elses THEN Branch(lines, read, i, kind = "elseopen")
    ELSE Thrown

(* parse_block_lines: what is parsed first, and the rest of the block.     *)
Joining(first, rest) ==
    IF first.next = 0 \/ rest.next = 0 THEN Thrown
    ELSE Parsed(first.commands \o rest.commands, rest.next)
First(lines, read, i) ==
    LET kind == KindOf(lines, i) IN
    IF kind \in Ifs \ Elses THEN read[<<i, "chain">>]
    ELSE IF kind \in {"command", "text"} THEN SimpleCommand(lines[i].text, i)
    ELSE Parsed(<<>>, i + 1)

(* Inside braces a block ends with its brace; outside of any, closing      *)
(* braces are passed over.  An Else ends either.                           *)
BlockLines(lines, read, i, way) ==
    LET kind == KindOf(lines, i)
        first == First(lines, read, i)
    IN  IF kind \in Elses \cup {"nothing"} THEN Parsed(<<>>, i)
        ELSE IF kind = "close" /\ way = "braces" THEN Parsed(<<>>, i + 1)
        ELSE Joining(first, read[<<first.next, way>>])

(* parse_action_block.                                                     *)
ParseBlock(block) ==
    LET lines == Preprocess(block)
        read[p \in (1 .. Len(lines) + 1) \X {"top", "braces", "chain"}] ==
            IF p[2] = "chain" THEN Chain(lines, read, p[1])
            ELSE BlockLines(lines, read, p[1], p[2])
    IN  read[<<1, "top">>]
=============================================================================
