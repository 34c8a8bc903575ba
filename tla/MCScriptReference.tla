------------------------- MODULE MCScriptReference -------------------------
(* Programs of one macro with every statement below, or of that after a    *)
(* simpler one; the triggers and ways of saying a thing; every file of a   *)
(* few lines, whatever it says; and the file README.md begins with.        *)
EXTENDS ScriptReference

x == << Typed(<<"H", "!", "{">>), Pressed("Enter", 1) >>
y == << Pressed("Left", 2), Typed(<<"w">>) >>
one == Letterwise(<<"jcy">>)
two == Key("F6")

Small == { <<>>, <<Says(x)>>, <<Says(y), Says(x)>> }
Plainer == {StyledIf(style, <<Says(x)>>, else) :
                style \in {"own", "inline"}, else \in { <<>>, <<Says(y)>> }}
Flat == {StyledIf(style, then, else) :
             style \in {"own", "inline"}, then \in Small, else \in Small}
Chained == {StyledIf(style, then, <<if>>) :
                style \in {"chained", "below"}, then \in Small, if \in Flat}
Nested == {StyledIf(style, then, else) :
               style \in {"own", "inline"},
               then \in UNION {{ <<if>>, <<if, Says(y)>>, <<Says(y), if>> } : if \in Plainer},
               else \in { <<>>, <<Says(y)>> } \cup { <<if>> : if \in Plainer}}
MCLevels == << Plainer \cup Flat, Chained \cup Nested >>
Statements == {Says(x)} \cup Flat \cup Chained \cup Nested
Bodies == { <<s>> : s \in Statements } \cup { <<s, Says(y)>> : s \in Statements }

Before == { <<>>, <<"note">>, <<"assign">>, <<"remark">>, <<"text", "close">>,
             <<"begin", "header", "command", "end">> }
Firsts == {Macro(before, triggers, "statements", body, ending) :
               before \in { <<>>, <<"begin", "header", "end">> },
               triggers \in { <<one>>, <<one, two>> },
               body \in { <<StyledIf("inline", <<Says(x)>>, <<Says(y)>>)>> },
               ending \in { <<"return">>, <<>> }}
Lasts == {Macro(before, triggers, "statements", body, <<"return">>) :
              before \in Before, triggers \in { <<two>>, <<one, two>> }, body \in Bodies}

(* A macro without a Return reaches to the next trigger: only a comment    *)
(* may stand between.                                                      *)
Laid ==
    { <<p[1], p[2]>> : p \in
        {q \in Firsts \X Lasts : q[1].ending = <<>> => q[2].before \in { <<>>, <<"note">> }} }

(* Every way to say a text with some keys behind it, for every trigger.    *)
Triggers ==
    {Letterwise(l) : l \in { <<"jcy">>, <<"yacy", "1">>, <<"acy", "acy">> }}
        \cup {Key(n) : n \in {"F6", "Numpad3", "Esc", "jcy", "7"}}
        \cup {With(m, n) : m \in {"Alt", "Ctrl", "Super"}, n \in {"F12", "Del", "khcy"}}
Characters == {"H", "newline", "!", "{"}
Said == [1 .. 2 -> Characters] \cup [1 .. 3 -> Characters]
Tails ==
    { <<>> } \cup {<<Pressed(k, n)>> : k \in {"Left", "Backspace"}, n \in 1 .. 3}
        \cup {<<Pressed(j, 1), Pressed(k, 2)>> : j \in {"Enter", "Tab"}, k \in {"Home", "Del"}}
Sayings == {<<Typed(t)>> \o keys : t \in Said, keys \in Tails}

Way(n, saying) ==
    CASE n = 1 -> [way |-> "statements", body |-> <<Says(saying)>>]
      [] n = 2 -> [way |-> "inline", body |-> <<Says(saying)>>]
      [] n = 3 -> [way |-> "below", body |-> <<Says(saying)>>]
      [] n = 4 -> [way |-> "below", body |-> <<Says(<<saying[1]>>), Says(saying)>>]
Short(t, n, saying) == <<Macro(<<>>, <<t>>, Way(n, saying).way, Way(n, saying).body, <<>>)>>

MCPrograms == <<
    Laid,
    {Short(two, n, s) : n \in 1 .. 4, s \in Sayings},
    {Short(t, n, x) : n \in 1 .. 4, t \in Triggers} >>

(* Lines of any kind; the headers of every form, well written or not.      *)
Headers ==
    { Header("new", <<"F6">>, <<>>), Header("old", <<"jcy">>, <<"H">>),
      Header("old", <<"h">>, <<>>), Header("bare", <<>>, <<"mcy", ":", "bcy">>) }
AnyLine == Headers \cup {Plain(k) : k \in Kinds \ {"header", "command", "closecommand"}}
    \cup {Line("command", <<"sendinput">> \o text) : text \in { <<>>, <<"H">> }}
    \cup { Line("closecommand", <<"}", "sendinput", "H">>) }
FewKinds ==
    { Header("new", <<"F6">>, <<>>), Header("old", <<"jcy">>, <<"H">>),
      Line("command", <<"sleep", "3">>) }
    \cup {Plain(k) : k \in {"open", "close", "return", "note", "headernote"}}
MCOthers == << [1 .. 3 -> AnyLine], [1 .. 5 -> FewKinds] >>

----------------------------------------------------------------------------
(* README.md, lines 107 to 126.                                            *)
QuickStart == <<
    Plain("begin"), Plain("text"), Plain("end"),
    Header("old", <<"h", "l", "o">>, <<"H", "e", "l", "l", "o", "!">>),
    Plain("note"),
    Header("new", <<"Ctrl", "&", "F12">>, <<>>),
    Line("command", <<"cancel">>), Plain("return"),
    Header("old", <<"w", "e", "a", "t", "h", "e", "r", "1">>, <<>>),
    Line("command", <<"sendinput", "{", "Esc", "}">>),
    Line("command", <<"sleep", "3">>),
    Line("command", <<"random", "v", "1", "2">>),
    Plain("ifopen"),
    Line("command", <<"sendinput", "F", "{", "Enter", "}">>),
    Plain("closeelse"),
    Line("command", <<"sendinput", "S", "{", "Enter", "}">>),
    Plain("close"), Plain("return") >>
MCNoPrograms == << >>
MCDocumented == << {QuickStart} >>
=============================================================================
