------------------------------ MODULE Scanner ------------------------------
(***************************************************************************)
(* The scanner (scanner/scanner.c), character by character.                *)
(*                                                                         *)
(* The parser calls not_scanner_advance for the next token, and between    *)
(* two calls may call not_scanner_gt to cut ">>", ">=" or ">>=" down to    *)
(* ">", so that the rest is scanned again.  mode says where in             *)
(* not_scanner_advance the scanner is; one step takes one character, or    *)
(* decides on it.  The characters of the file are chosen as they are read. *)
(***************************************************************************)
EXTENDS Tokens, Integers, FiniteSets

CONSTANTS
    Texts,     \* records [first, alphabet, length], as in Syntax
    Garbage    \* what an uninitialised int32_t may hold (scanner.c:273)

\* A source is a sequence of characters, none of which is the end of the file.
Chars == {c \in STRING : c # "eof"}
ASSUME SourceAssumption ==
    /\ \A t \in Texts : t.first \in Seq(Chars) /\ \A c \in t.alphabet : c \in Chars
    /\ Garbage \subseteq Int

VARIABLES
    text,      \* the member of Texts this source is taken from
    source,    \* the characters of the file read so far
    closed,    \* source is the whole file
    pos,       \* scanner->offset, counted from 1
    line,      \* scanner->line
    mode,      \* where not_scanner_advance is; "idle" between two calls
    from,      \* where the token being scanned starts, and its line
    from_line,
    form,      \* the operator, the quote or the form of number recognised so far
    rune,      \* the locals of the rune literal: n, m, base, max, x
    depth,     \* the local depth of a block comment
    tokens     \* the tokens returned, the last one being scanner->token

vars == <<text, source, closed, pos, line, mode, from, from_line, form, rune,
          depth, tokens>>
file == <<text, source, closed>>
locals == <<from, from_line, form, rune, depth>>
-----------------------------------------------------------------------------
LineBreaks == {"nl", "cr", "vt"}
Trivial    == LineBreaks \union {"sp", "tab"}
Decimal    == {"0", "1", "2", "3", "4", "5", "6", "7", "8", "9"}
Octal      == Decimal \ {"8", "9"}
Hex        == Decimal \union {"a", "b", "c", "d", "e", "f", "A", "B", "C", "D", "E", "F"}
Letters    == (Hex \ Decimal) \union
              {"g", "h", "i", "j", "k", "l", "m", "n", "o", "p", "q", "r", "s", "t",
               "u", "v", "w", "x", "y", "z", "O", "U", "X", "_"}

\* not_scanner_digit_value
DigitValue(c) ==
    IF c \in Hex
    THEN CHOOSE v \in 0..15 :
           c = <<"0", "1", "2", "3", "4", "5", "6", "7", "8", "9", "a", "b", "c", "d", "e", "f">>[v + 1]
           \/ c = <<"", "", "", "", "", "", "", "", "", "", "A", "B", "C", "D", "E", "F">>[v + 1]
    ELSE 16

\* The words that are not identifiers.
ConstantWords ==
    {<<"n","u","l","l">>, <<"u","n","d","e","f","i","n","e","d">>, <<"n","a","n">>,
     <<"t","h","i","s">>, <<"i","n","t">>, <<"f","l","o","a","t">>, <<"c","h","a","r">>,
     <<"s","t","r","i","n","g">>, <<"f","o","r">>, <<"c","l","a","s","s">>}
StatementWords ==
    {<<"e","x","t","e","n","d","s">>, <<"s","t","a","t","i","c">>,
     <<"r","e","a","d","o","n","l","y">>, <<"r","e","f","e","r","e","n","c","e">>,
     <<"i","f">>, <<"e","l","s","e">>, <<"t","r","y">>, <<"c","a","t","c","h">>,
     <<"t","h","r","o","w">>, <<"b","r","e","a","k">>, <<"c","o","n","t","i","n","u","e">>}
OtherWords ==
    {<<"r","e","t","u","r","n">>, <<"s","i","z","e","o","f">>, <<"t","y","p","e","o","f">>,
     <<"i","n","s","t","a","n","c","e","o","f">>, <<"i","n">>, <<"f","u","n">>, <<"v","a","r">>,
     <<"e","x","p","o","r","t">>, <<"u","s","i","n","g">>, <<"f","r","o","m">>}
Keywords == ConstantWords \union StatementWords \union OtherWords
-----------------------------------------------------------------------------
Ch == IF pos > Len(source) THEN "eof" ELSE source[pos]
\* not_scanner_peek
Peek == IF pos + 1 > Len(source) THEN "eof" ELSE source[pos + 1]

\* Enough of the file is known to decide on the current character.
Known == closed \/ Len(source) >= pos + (IF Ch \in {"/", "*", "cr"} THEN 1 ELSE 0)
In(m) == mode = m /\ Known

\* not_scanner_next, n times, before the end of the file (for what it does there see Spin).
Take(n) == pos' = pos + n
Goto(m) == mode' = m

\* not_scanner_set_token, and the return from not_scanner_advance.
Return(type, start, last, first_line) ==
    /\ tokens' = Append(tokens, [type |-> type, from |-> start, to |-> last, line |-> first_line])
    /\ mode' = IF type = "EOF" THEN "done" ELSE "idle"

Init ==
    /\ text \in Texts
    /\ source = text.first
    /\ closed = FALSE
    /\ pos = 1
    /\ line = 1
    /\ mode = "look"
    /\ from = 1
    /\ from_line = 1
    /\ form = "EOF"
    /\ rune = [n |-> 0, m |-> 0, base |-> 8, max |-> 255, x |-> 0]
    /\ depth = 0
    /\ tokens = <<>>

\* The next character of the file, or its end.
Read ==
    /\ mode \notin {"idle", "done", "failed"}
    /\ ~Known
    /\ \/ /\ Len(source) < text.length
          /\ \E c \in text.alphabet : source' = Append(source, c)
          /\ UNCHANGED closed
       \/ closed' = TRUE /\ UNCHANGED source
    /\ UNCHANGED <<text, pos, line, mode, locals, tokens>>

\* The parser asks for another token.
Advance ==
    /\ mode = "idle"
    /\ Goto("look")
    /\ UNCHANGED <<file, pos, line, locals, tokens>>

\* not_scanner_skip_trivial, one character or one line break.
SkipTrivial ==
    /\ In("look") \/ In("operator")
    /\ Ch \in Trivial
    /\ line' = IF Ch \in LineBreaks THEN line + 1 ELSE line
    /\ Take(IF Ch = "cr" /\ Peek = "nl" THEN 2 ELSE 1)
    /\ UNCHANGED <<file, mode, locals, tokens>>

\* The file ends where a token could begin, or after an operator that could go
\* on: either way the token is EOF, and the operator is lost.
EndOfFile ==
    /\ In("look") \/ In("operator")
    /\ Ch = "eof"
    /\ Return("EOF", pos, pos - 1, line)
    /\ UNCHANGED <<file, pos, line, locals>>

\* Tokens of one character.
Single ==
    /\ In("look")
    /\ Ch \in Alone \union Bits
    /\ Return(Ch, pos, pos, line)
    /\ Take(1)
    /\ UNCHANGED <<file, line, locals>>

\* The scanner looks for more after t.
Extensions(t) == {u \in Operators : Len(Spelling[u]) = Len(Spelling[t]) + 1
                                    /\ StartsWith(Spelling[u], Spelling[t])}
LooksOnce(t) == Len(Spelling[t]) = 1                                 \* mutant
LooksOn(t) == t \in {".", ":"} \/ Extensions(t) # {}

BeginOperator ==
    /\ In("look")
    /\ Ch \in Characters
    /\ ~(Ch = "/" /\ Peek \in {"/", "*"})
    /\ form' = Ch
    /\ from' = pos
    /\ from_line' = line
    /\ Take(1)
    /\ Goto("operator")
    /\ UNCHANGED <<file, line, rune, depth, tokens>>

\* The next character, white space skipped, makes a longer operator or not.
GoOnOperator ==
    /\ In("operator")
    /\ Ch \notin Trivial
    /\ Ch # "eof"
    /\ \/ \E u \in Extensions(form) :
            /\ Spelling[u][Len(Spelling[u])] = Ch
            /\ Take(1)
            /\ form' = u
            /\ IF LooksOn(u) THEN mode' = mode /\ UNCHANGED tokens
               ELSE Return(u, from, pos, from_line)
       \/ /\ \A u \in Extensions(form) : Spelling[u][Len(Spelling[u])] # Ch
          /\ Return(form, from, pos - 1, from_line)
          /\ UNCHANGED <<pos, form>>
    /\ UNCHANGED <<file, line, from, from_line, rune, depth>>
-----------------------------------------------------------------------------
(***************************************************************************)
(* Comments.                                                               *)
(***************************************************************************)
BeginComment ==
    /\ In("look")
    /\ Ch = "/"
    /\ \/ Peek = "/" /\ Goto("line_comment") /\ UNCHANGED <<pos, depth>>
       \/ Peek = "*" /\ Goto("block_comment") /\ Take(2) /\ depth' = 0
    /\ UNCHANGED <<file, line, from, from_line, form, rune, tokens>>

\* "while (scanner->ch != '\n')": at the end of the file this goes on for ever.
LineComment ==
    /\ In("line_comment")
    /\ \/ Ch = "nl" /\ Goto("look") /\ UNCHANGED pos
       \/ Ch \notin {"nl", "eof"} /\ Take(1) /\ UNCHANGED mode
    /\ UNCHANGED <<file, line, locals, tokens>>

\* Every "*" that does not close the comment lowers depth, alone or not.
BlockComment ==
    /\ In("block_comment")
    /\ Ch # "eof"
    /\ \/ /\ Ch = "*" /\ Peek = "/" /\ depth < 1
          /\ Take(2)
          /\ Goto("look")
          /\ UNCHANGED depth
       \/ /\ Ch = "/" /\ Peek = "*"
          /\ Take(2)
          /\ depth' = depth + 1
          /\ UNCHANGED mode
       \/ /\ ~(Ch = "*" /\ Peek = "/" /\ depth < 1)
          /\ ~(Ch = "/" /\ Peek = "*")
          /\ depth' = IF Ch = "*" THEN depth - 1 ELSE depth
          /\ Take(1)
          /\ UNCHANGED mode
    /\ UNCHANGED <<file, line, from, from_line, form, rune, tokens>>
-----------------------------------------------------------------------------
(***************************************************************************)
(* Strings and runes.                                                      *)
(***************************************************************************)
BeginString ==
    /\ In("look")
    /\ Ch \in {"dq", "bq"}
    /\ form' = Ch
    /\ from' = pos
    /\ from_line' = line
    /\ Take(1)
    /\ Goto("string")
    /\ UNCHANGED <<file, line, rune, depth, tokens>>

\* Up to the same quote; neither backslash nor line break means anything.
StringPastEnd ==                                                     \* mutant
    /\ In("string")
    /\ Take(1)
    /\ IF Ch = form THEN Return("STRING", from, pos, line)
       ELSE mode' = mode /\ UNCHANGED tokens
    /\ UNCHANGED <<file, line, locals>>
String ==
    /\ In("string")
    /\ Ch # "eof"
    /\ Take(1)
    /\ IF Ch = form THEN Return("STRING", from, pos, line)
       ELSE mode' = mode /\ UNCHANGED tokens
    /\ UNCHANGED <<file, line, locals>>

BeginRune ==
    /\ In("look")
    /\ Ch = "sq"
    /\ from' = pos
    /\ from_line' = line
    /\ rune' = [rune EXCEPT !.n = 0]
    /\ Take(1)
    /\ Goto("rune")
    /\ UNCHANGED <<file, line, form, depth, tokens>>

RuneGoesOn ==                                                        \* mutant
    /\ In("rune")
    /\ IF Ch = "eof" THEN UNCHANGED vars
       ELSE /\ Take(1)
            /\ Goto(IF Ch = "sq" THEN "failed" ELSE "rune")
            /\ UNCHANGED <<file, line, locals, tokens>>
Rune ==
    /\ In("rune")
    /\ \/ Ch \in {"nl", "eof"} /\ Goto("failed") /\ UNCHANGED <<pos, rune, tokens>>
       \/ /\ Ch = "sq"
          /\ Take(1)
          /\ IF rune.n = 1 THEN Return("CHAR", from, pos, line)
             ELSE mode' = "failed" /\ UNCHANGED tokens
          /\ UNCHANGED rune
       \/ /\ Ch \notin {"nl", "eof", "sq"}
          /\ Take(1)
          /\ rune' = [rune EXCEPT !.n = @ + 1]
          /\ Goto(IF Ch = "\\" THEN "escape" ELSE "rune")
          /\ UNCHANGED tokens
    /\ UNCHANGED <<file, line, from, from_line, form, depth>>

\* After a backslash.  The simple escapes set no m: it holds whatever it held.
Simple == {"a", "b", "f", "n", "r", "t", "v", "\\", "sq"}
Escaped(m, base, max) ==
    rune' = [n |-> rune.n, m |-> m, base |-> base, max |-> max, x |-> 0]
Escape ==
    /\ In("escape")
    /\ \/ Ch \in Simple /\ Take(1) /\ Goto("digits") /\ \E g \in Garbage : Escaped(g, 8, 255)
       \/ Ch \in Octal /\ Goto("digits") /\ Escaped(3, 8, 255) /\ UNCHANGED pos
       \/ Ch = "x" /\ Take(1) /\ Goto("digits") /\ Escaped(2, 16, 255)
       \/ Ch = "u" /\ Take(1) /\ Goto("digits") /\ Escaped(4, 16, 1114111)
       \/ Ch = "U" /\ Take(1) /\ Goto("digits") /\ Escaped(8, 16, 1114111)
       \/ /\ Ch \notin Simple \union Octal \union {"x", "u", "U"}
          /\ Goto("failed")
          /\ UNCHANGED <<pos, rune>>
    /\ UNCHANGED <<file, line, from, from_line, form, depth, tokens>>

Digits ==
    /\ In("digits")
    /\ \/ /\ rune.m <= 0
          /\ Goto(IF rune.x > rune.max \/ rune.x \in 55296..57343 THEN "failed" ELSE "rune")
          /\ UNCHANGED <<pos, rune>>
       \/ /\ rune.m > 0
          /\ DigitValue(Ch) >= rune.base
          /\ Goto("failed")
          /\ UNCHANGED <<pos, rune>>
       \/ /\ rune.m > 0
          /\ DigitValue(Ch) < rune.base
          /\ Take(1)
          /\ rune' = [rune EXCEPT !.m = @ - 1, !.x = @ * rune.base + DigitValue(Ch)]
          /\ UNCHANGED mode
    /\ UNCHANGED <<file, line, from, from_line, form, depth, tokens>>
-----------------------------------------------------------------------------
(***************************************************************************)
(* Numbers.  A form says what has been read; its arms say which characters *)
(* go on with it, and to which form.                                       *)
(***************************************************************************)
AfterZero ==
    [zero     |-> {<<{"x", "X"}, "hex">>, <<{"b", "B"}, "binary">>,
                   <<Octal \union {"o", "O"}, "octal">>, <<{"."}, "fraction">>},
     hex      |-> {<<Hex, "hex">>},
     binary   |-> {<<{"0", "1"}, "binary">>},
     octal    |-> {<<Octal, "octal">>},
     fraction |-> {<<Decimal, "fraction">>, <<{"e", "E"}, "sign">>}]
AfterDigit ==
    [decimal  |-> {<<Decimal, "decimal">>, <<{"."}, "float">>, <<{"e", "E"}, "power">>},
     float    |-> {<<Decimal, "float">>, <<{"e", "E"}, "power">>}]
Exponent ==
    [sign     |-> {<<{"+", "-"}, "exponent">>},
     power    |-> {<<{"+", "-"}, "exponent">>},
     exponent |-> {<<Decimal, "exponent">>}]
Forms == {"zero", "hex", "binary", "octal", "fraction", "decimal", "float", "sign",
          "power", "exponent"}
Arms == [f \in Forms |-> IF f \in DOMAIN AfterZero THEN AfterZero[f]
                         ELSE IF f \in DOMAIN AfterDigit THEN AfterDigit[f] ELSE Exponent[f]]

BeginNumber ==
    /\ In("look")
    /\ Ch \in Decimal
    /\ form' = IF Ch = "0" THEN "zero" ELSE "decimal"
    /\ from' = pos
    /\ from_line' = line
    /\ Take(1)
    /\ Goto("number")
    /\ UNCHANGED <<file, line, rune, depth, tokens>>

\* Without a sign the exponent of "0.5e" is an error, that of "5e" is empty.
Number ==
    /\ In("number")
    /\ \/ \E arm \in Arms[form] :
            /\ Ch \in arm[1]
            /\ form' = arm[2]
            /\ Take(1)
            /\ UNCHANGED <<mode, tokens>>
       \/ /\ \A arm \in Arms[form] : Ch \notin arm[1]
          /\ IF form = "sign" THEN mode' = "failed" /\ UNCHANGED tokens
             ELSE Return("NUMBER", from, pos - 1, line)
          /\ UNCHANGED <<pos, form>>
    /\ UNCHANGED <<file, line, from, from_line, rune, depth>>
-----------------------------------------------------------------------------
(***************************************************************************)
(* Words, and characters that begin nothing.                               *)
(***************************************************************************)
BeginWord ==
    /\ In("look")
    /\ Ch \in Letters
    /\ from' = pos
    /\ from_line' = line
    /\ Goto("word")
    /\ UNCHANGED <<file, pos, line, form, rune, depth, tokens>>

\* A keyword is a whole word spelled like it.
Spelled == SubSeq(source, from, pos - 1)
Word ==
    /\ In("word")
    /\ \/ /\ Ch \in Letters \union Decimal
          /\ Take(1)
          /\ UNCHANGED <<mode, tokens>>
       \/ /\ Ch \notin Letters \union Decimal
          /\ Return(IF Spelled \in Keywords THEN "keyword" ELSE "ID", from, pos - 1, line)
          /\ UNCHANGED pos
    /\ UNCHANGED <<file, line, locals>>

Unknown ==
    /\ In("look")
    /\ Ch \notin Trivial \union Letters \union Decimal \union Alone \union Bits
                 \union Characters \union {"eof", "dq", "bq", "sq"}
    /\ Goto("failed")
    /\ UNCHANGED <<file, pos, line, locals, tokens>>
-----------------------------------------------------------------------------
(***************************************************************************)
(* not_scanner_gt: the last token becomes ">", and what follows its first  *)
(* character, after white space, is what the next token is scanned from.   *)
(***************************************************************************)
LastToken == tokens[Len(tokens)]
\* The line breaks of s that end between a and b; "cr" and "nl" are one.
Broken(s, a, b) == {p \in a..b : /\ s[p] \in LineBreaks
                                 /\ ~(s[p] = "nl" /\ p > 1 /\ s[p - 1] = "cr")}
Breaks(s, a, b) == Cardinality(Broken(s, a, b))
Resume == CHOOSE p \in LastToken.from + 1..LastToken.to :
             /\ source[p] \notin Trivial
             /\ \A q \in LastToken.from + 1..p - 1 : source[q] \in Trivial
Recut(p, l) ==
    /\ mode = "idle"
    /\ LastToken.type \in {">=", ">>=", ">>"}
    /\ pos' = p
    /\ line' = l
    /\ tokens' = [tokens EXCEPT ![Len(tokens)] =
                    [type |-> ">", from |-> @.from, to |-> @.from, line |-> @.line]]
    /\ UNCHANGED <<file, mode, locals>>
CutForgetsPosition == Recut(pos, line)                               \* mutant
CutForgetsLine == Recut(Resume, line + Breaks(source, LastToken.from + 1, Resume - 1)) \* mutant
CutGt == Recut(Resume, LastToken.line + Breaks(source, LastToken.from + 1, Resume - 1))

\* The loops of a line comment, a block comment and a string test for their own
\* end only: past the end of the file not_scanner_next succeeds and changes nothing.
Spin ==
    /\ mode \in {"line_comment", "block_comment", "string"}
    /\ closed
    /\ Ch = "eof"
    /\ UNCHANGED vars

Finished == mode \in {"done", "failed"} /\ UNCHANGED vars

Scan == \/ SkipTrivial \/ EndOfFile \/ Single \/ BeginOperator \/ GoOnOperator
        \/ BeginComment \/ LineComment \/ BlockComment \/ BeginString \/ String
        \/ BeginRune \/ Rune \/ Escape \/ Digits \/ BeginNumber \/ Number
        \/ BeginWord \/ Word \/ Unknown \/ Spin

Next == Read \/ Scan \/ Advance \/ CutGt \/ Finished

\* The scanner is called to the end: a call in progress goes on.
Spec == Init /\ [][Next]_vars /\ WF_vars(Read \/ Scan)
-----------------------------------------------------------------------------
(***************************************************************************)
(* Properties.                                                             *)
(***************************************************************************)
Modes == {"look", "operator", "line_comment", "block_comment", "string", "rune",
          "escape", "digits", "number", "word", "idle", "done", "failed"}
TokenTypes == Operators \union Alone \union Bits
              \union {"EOF", "ID", "keyword", "NUMBER", "CHAR", "STRING"}

\* The offset stays within the file and one past it, whatever next and gt do,
\* and only the scanner's own token types are returned.
TypeOK ==
    /\ text \in Texts
    /\ pos \in 1..Len(source) + 1
    /\ line \in 1..Len(source) + 1
    /\ mode \in Modes
    /\ from \in 1..Len(source) + 1
    /\ depth \in -Len(source)..Len(source)
    /\ \A i \in DOMAIN tokens : /\ tokens[i].type \in TokenTypes
                                /\ tokens[i].from \in 1..Len(source) + 1
                                /\ tokens[i].to \in 0..Len(source)

Occurs(cs) == \E p \in DOMAIN source : source[p] \in cs

\* The characters of s from a to b that are no white space spell w.
Solid(s, a, b) == {p \in a..b : s[p] \notin Trivial}
Rank(s, a, p) == Cardinality(Solid(s, a, p))
Spells(s, a, b, w) == /\ Rank(s, a, b) = Len(w)
                      /\ \A p \in Solid(s, a, b) : w[Rank(s, a, p)] = s[p]

\* Between two calls every character read belongs to exactly one token: the
\* scanner loses nothing and reads nothing twice, also when not_scanner_gt
\* makes it go back.  One operator is lost: the one the file ends with, when it
\* could have been longer (its branch leaves the loop with "break").  Texts
\* with a '/' are left out, whose comments belong to no token.
Taken == UNION {tokens[i].from..tokens[i].to : i \in DOMAIN tokens}
LostAtEnd ==
    /\ tokens # <<>> /\ LastToken.type = "EOF"
    /\ mode = "done"
    /\ \E t \in Operators : LooksOn(t) /\ Spells(source, from, pos - 1, Spelling[t])
TokensTile ==
    mode \in {"idle", "done"} /\ ~Occurs({"/"}) =>
        /\ \A i, j \in DOMAIN tokens : i < j => tokens[i].to < tokens[j].from
        /\ \A p \in 1..pos - 1 :
             source[p] \in Trivial \/ p \in Taken \/ (LostAtEnd /\ p >= from)

\* The operators spelled from a on.
SpelledFrom(a) == {t \in Operators : \E b \in a..Len(source) :
                                         Spells(source, a, b, Spelling[t])}

\* An operator token is the longest operator its characters spell, however much
\* white space stands between them, unless not_scanner_gt cut it: the tokens are
\* those the parser model (Syntax!Token) works with.
LongestOperator ==
    \A i \in DOMAIN tokens : tokens[i].type \in Operators =>
        \/ tokens[i].type = Longest(SpelledFrom(tokens[i].from))
        \/ /\ tokens[i].type = ">"
           /\ Longest(SpelledFrom(tokens[i].from)) \in {">=", ">>=", ">>"}

\* Where no comment and no literal spans a line break, the scanner's line, and
\* that of every token, is one more than the line breaks before it, also after
\* not_scanner_gt has gone back over some.
LinesCounted ==
    ~Occurs({"/", "dq", "bq", "sq"}) =>
        /\ line = 1 + Breaks(source, 1, pos - 1)
        /\ \A i \in DOMAIN tokens : tokens[i].line = 1 + Breaks(source, 1, tokens[i].from - 1)

\* Every call returns, with a token or with an error, except where the file ends
\* inside a comment or a string: there, and nowhere else, it goes round for ever.
Unclosed == closed /\ Ch = "eof" /\ mode \in {"line_comment", "block_comment", "string"}
AdvanceReturns ==
    mode \notin {"idle", "done", "failed"} ~> mode \in {"idle", "done", "failed"} \/ Unclosed
=============================================================================
