------------------------------ MODULE LineText ------------------------------
(***************************************************************************)
(* What the characters of a line become: the keys and modifiers of a       *)
(* trigger, the text and tail keys of a replacement, the parts of a        *)
(* SendInput, and the keys their names stand for (AhkParser.cpp,           *)
(* SendInputCommand.cpp and LayoutProfile.cpp).                            *)
(*                                                                         *)
(* A text is a sequence of tokens.  A token is a character, or a whole     *)
(* word where only words are told apart: the name of a key, a number.  The *)
(* Cyrillic letters go by their entity names (jcy is the first of the      *)
(* keyboard); the blanks that the code trims away are not written.  A key  *)
(* is its KEY_ constant without that prefix.                               *)
(***************************************************************************)
EXTENDS Integers, Sequences, SequencesExt

Digits == {"0", "1", "2", "3", "4", "5", "6", "7", "8", "9"}

(* The layout, russian_qwerty: Cyrillic letters and digits, nothing else.  *)
Letters ==
    [jcy |-> "Q", tscy |-> "W", ucy |-> "E", kcy |-> "R", iecy |-> "T",
     ncy |-> "Y", gcy |-> "U", shcy |-> "I", shchcy |-> "O", zcy |-> "P",
     khcy |-> "LEFTBRACE", hardcy |-> "RIGHTBRACE",
     fcy |-> "A", ycy |-> "S", vcy |-> "D", acy |-> "F", pcy |-> "G",
     rcy |-> "H", ocy |-> "J", lcy |-> "K", dcy |-> "L",
     zhcy |-> "SEMICOLON", ecy |-> "APOSTROPHE",
     yacy |-> "Z", chcy |-> "X", scy |-> "C", mcy |-> "V", icy |-> "B",
     tcy |-> "N", softcy |-> "M", bcy |-> "COMMA", yucy |-> "DOT"]
Layout ==
    [k \in DOMAIN Letters \cup Digits |-> IF k \in Digits THEN k ELSE Letters[k]]

(* parse_special_key; the digits of the keypad have two spellings.         *)
Specials ==
    [F1 |-> "F1", F2 |-> "F2", F3 |-> "F3", F4 |-> "F4", F5 |-> "F5", F6 |-> "F6",
     F7 |-> "F7", F8 |-> "F8", F9 |-> "F9", F10 |-> "F10", F11 |-> "F11", F12 |-> "F12",
     NumPad0 |-> "KP0", NumPad1 |-> "KP1", NumPad2 |-> "KP2", NumPad3 |-> "KP3",
     NumPad4 |-> "KP4", NumPad5 |-> "KP5", NumPad6 |-> "KP6", NumPad7 |-> "KP7",
     NumPad8 |-> "KP8", NumPad9 |-> "KP9",
     Numpad0 |-> "KP0", Numpad1 |-> "KP1", Numpad2 |-> "KP2", Numpad3 |-> "KP3",
     Numpad4 |-> "KP4", Numpad5 |-> "KP5", Numpad6 |-> "KP6", Numpad7 |-> "KP7",
     Numpad8 |-> "KP8", Numpad9 |-> "KP9",
     NumPadAdd |-> "KPPLUS", NumPadMult |-> "KPASTERISK",
     NumPadDiv |-> "KPSLASH", NumPadSub |-> "KPMINUS",
     Left |-> "LEFT", Right |-> "RIGHT", Up |-> "UP", Down |-> "DOWN",
     Home |-> "HOME", End |-> "END", PageUp |-> "PAGEUP", PageDown |-> "PAGEDOWN",
     Insert |-> "INSERT", Delete |-> "DELETE", Del |-> "DELETE",
     Space |-> "SPACE", Enter |-> "ENTER", Return |-> "ENTER", Tab |-> "TAB",
     Backspace |-> "BACKSPACE", BS |-> "BACKSPACE", Escape |-> "ESC", Esc |-> "ESC"]

(* parse_modifier_key: only left ones have a name.                         *)
Modifiers ==
    [Alt |-> "LEFTALT", Ctrl |-> "LEFTCTRL", LCtrl |-> "LEFTCTRL",
     Shift |-> "LEFTSHIFT", Meta |-> "LEFTMETA", Super |-> "LEFTMETA",
     Win |-> "LEFTMETA"]

(* find and rfind: a place in the text, 0 for npos.                        *)
Find(text, token, from) ==
    LET at == {i \in from .. Len(text) : text[i] = token}
    IN  IF at = {} THEN 0 ELSE Min(at)
FindLast(text, token) == SelectLastInSeq(text, LAMBDA t : t = token)

----------------------------------------------------------------------------
(* Triggers.                                                               *)

(* The keys of a name, or of each letter; a letter without a key throws.   *)
ParseKeys(text) ==
    IF Len(text) = 1 /\ text[1] \in DOMAIN Specials
      THEN [ok |-> TRUE, keys |-> << Specials[text[1]] >>]
    ELSE IF \A i \in DOMAIN text : text[i] \in DOMAIN Layout
      THEN [ok |-> TRUE, keys |-> [i \in DOMAIN text |-> Layout[text[i]]]]
    ELSE [ok |-> FALSE, keys |-> <<>>]

Trigger(ok, keys, mods) == [ok |-> ok, keys |-> keys, mods |-> mods]

(* The key is a & itself, as in Ctrl & &.                                  *)
KeyIsAmpersand(expr) ==
    /\ Len(expr) > 1
    /\ expr[Len(expr)] = "&" /\ expr[Len(expr) - 1] = "&"

(* parse_trigger_expr: of M & ... & K the keys K, with M.  What M is not   *)
(* the name of, and what stands between, is dropped without a word.  A K   *)
(* that is & itself has no key, and throws.                                *)
ParseTrigger(expr) ==
    LET keys == ParseKeys(SubSeq(expr, FindLast(expr, "&") + 1, Len(expr)))
        mod == SubSeq(expr, 1, Find(expr, "&", 1) - 1)
        known == Len(mod) = 1 /\ mod[1] \in DOMAIN Modifiers
    IN  Trigger(keys.ok /\ ~KeyIsAmpersand(expr), keys.keys, IF known THEN {Modifiers[mod[1]]} ELSE {})

----------------------------------------------------------------------------
(* Texts with braces.                                                      *)

(* What is between braces stands for itself, or is the name of a key.      *)
Escapable == {"!", "+", "^", "#", "{", "}"}

Piece(kind, words) == [kind |-> kind, words |-> words]

(* The loop both parsers have: text, then braces up to the first that      *)
(* closes, so that "{}}" is an empty name and a brace.                     *)
Closing(text, i) == Find(text, "}", i)
PieceAt(text, i) ==
    LET inside == SubSeq(text, i + 1, Closing(text, i) - 1)
    IN  IF text[i] # "{" THEN Piece("text", << text[i] >>)
        ELSE IF Closing(text, i) = 0 THEN Piece("unterminated", <<>>)
        ELSE IF Len(inside) = 1 /\ inside[1] \in Escapable THEN Piece("text", inside)
        ELSE Piece("key", inside)
Behind(text, i) ==
    IF text[i] # "{" THEN i + 1
    ELSE IF Closing(text, i) = 0 THEN Len(text) + 1 ELSE Closing(text, i) + 1
Pieces(text) ==
    LET cut[i \in 1 .. Len(text) + 1] ==
            IF i > Len(text) THEN <<>>
            ELSE << PieceAt(text, i) >> \o cut[Behind(text, i)]
    IN  cut[1]

Tap(key, count) == [text |-> <<>>, key |-> key, count |-> count]
Paste(text) == [text |-> text, key |-> "none", count |-> 1]

(* The number after a name: 1 without one, 0 where it is not a number.     *)
Numbers ==
    [n \in {"-1", "0", "1", "2", "3"} |->
        CASE n = "-1" -> -1 [] n = "0" -> 0 [] n = "1" -> 1 [] n = "2" -> 2 [] n = "3" -> 3]
Count(words) ==
    CASE Len(words) = 1 -> 1
      [] Len(words) > 1 /\ words[2] \in DOMAIN Numbers -> Numbers[words[2]]
      [] OTHER -> 0

Named(words, names) == words # <<>> /\ words[1] \in names

(* The names parse_replacement knows: most take a count, the others one.   *)
CountedTails == {"Left", "Right", "Up", "Down", "Home", "End", "Delete", "Del",
                 "Backspace", "BS"}
SingleTails == {"Enter", "Return", "Tab", "Escape", "Esc", "Space", "SPACE"}
TailKey(words) ==
    Tap(IF words[1] = "SPACE" THEN Specials["Space"] ELSE Specials[words[1]],
        IF words[1] \in CountedTails THEN Count(words) ELSE 1)

(* parse_replacement: one text, and all its keys behind it.                *)
ParseReplacement(text) ==
    LET pieces == Pieces(text)
        ok == \A i \in DOMAIN pieces :
                  \/ pieces[i].kind = "text"
                  \/ /\ pieces[i].kind = "key"
                     /\ Named(pieces[i].words, CountedTails \cup SingleTails)
        texts == [i \in DOMAIN pieces |->
                     IF pieces[i].kind = "text" THEN pieces[i].words ELSE <<>>]
        keys == [i \in DOMAIN pieces |->
                    IF pieces[i].kind = "key" THEN << TailKey(pieces[i].words) >> ELSE <<>>]
    IN  [ok   |-> ok,
         text |-> IF ok THEN FlattenSeq(texts) ELSE <<>>,
         tail |-> IF ok THEN FlattenSeq(keys) ELSE <<>>]

(* append_text: a text goes to the one before it.                          *)
Joined(parts, text) ==
    IF parts # <<>> /\ parts[Len(parts)].key = "none"
      THEN [parts EXCEPT ![Len(parts)] = Paste(parts[Len(parts)].text \o text)]
      ELSE Append(parts, Paste(text))

(* parse_sequence: texts and keys in their order, each key at least once.  *)
PartsWith(parts, piece) ==
    IF piece.kind = "text" THEN Joined(parts, piece.words)
    ELSE Append(parts, Tap(Specials[piece.words[1]],
                           IF Count(piece.words) < 1 THEN 1 ELSE Count(piece.words)))
ParseSequence(text) ==
    LET pieces == Pieces(text)
        parts[i \in 0 .. Len(pieces)] ==
            IF i = 0 THEN <<>> ELSE PartsWith(parts[i - 1], pieces[i])
        ok == \A i \in DOMAIN pieces :
                  \/ pieces[i].kind = "text"
                  \/ pieces[i].kind = "key" /\ Named(pieces[i].words, DOMAIN Specials)
    IN  [ok |-> ok, parts |-> IF ok THEN parts[Len(pieces)] ELSE <<>>]
=============================================================================
