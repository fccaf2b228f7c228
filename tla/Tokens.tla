------------------------------- MODULE Tokens -------------------------------
(***************************************************************************)
(* The operator tokens of the language and how each is spelled.            *)
(*                                                                         *)
(* scanner.c decides between operators by their first character and then   *)
(* by the characters that follow, white space between them skipped         *)
(* (not_scanner_skip_trivial is called inside the operator).  There is one *)
(* definition per first character, the tokens that begin with it, and      *)
(* Spelling is the characters each is made of.                             *)
(***************************************************************************)
EXTENDS Naturals, Sequences

\* Tokens of one character after which the scanner looks no further.
Alone == {"#", "$", "(", ")", "[", "]", "{", "}", ",", ";", "?", "@"}
Bits  == {"^", "~"}

\* Tokens after whose first character the scanner skips white space.
Dot       == {"."}
Colon     == {":"}
Backslash == {"\\", "\\="}
Plus      == {"+", "+="}
Minus     == {"-", "-=", "->"}
Star      == {"*", "*=", "**", "**="}
Slash     == {"/", "/="}
Percent   == {"%", "%="}
And       == {"&", "&&", "&="}
Or        == {"|", "||", "|="}
Lt        == {"<", "<<", "<<=", "<="}
Gt        == {">", ">>", ">>=", ">="}
Not       == {"!", "!="}
Eq        == {"=", "=="}

Operators == Dot \union Colon \union Backslash \union Plus \union Minus \union Star
             \union Slash \union Percent \union And \union Or \union Lt \union Gt
             \union Not \union Eq

Spelling == [t \in Operators |->
    CASE t = "\\=" -> <<"\\", "=">>  [] t = "/=" -> <<"/", "=">>
      [] t = "+="  -> <<"+", "=">>   [] t = "%=" -> <<"%", "=">>
      [] t = "-="  -> <<"-", "=">>   [] t = "->" -> <<"-", ">">>
      [] t = "*="  -> <<"*", "=">>   [] t = "**" -> <<"*", "*">>
      [] t = "&="  -> <<"&", "=">>   [] t = "&&" -> <<"&", "&">>
      [] t = "|="  -> <<"|", "=">>   [] t = "||" -> <<"|", "|">>
      [] t = "<="  -> <<"<", "=">>   [] t = "<<" -> <<"<", "<">>
      [] t = ">="  -> <<">", "=">>   [] t = ">>" -> <<">", ">">>
      [] t = "!="  -> <<"!", "=">>   [] t = "==" -> <<"=", "=">>
      [] t = "**=" -> <<"*", "*", "=">>
      [] t = "<<=" -> <<"<", "<", "=">>
      [] t = ">>=" -> <<">", ">", "=">>
      [] OTHER -> <<t>>]

Characters == {Spelling[t][1] : t \in Operators}

\* s starts with p.
StartsWith(s, p) == Len(p) <= Len(s) /\ \A i \in 1..Len(p) : s[i] = p[i]

\* The operators spelled by a prefix of s, and the longest of them: every
\* branch of the scanner goes on for as long as the next character fits.
OperatorsAt(s) == {t \in Operators : StartsWith(s, Spelling[t])}
Longest(ts) == CHOOSE t \in ts : \A u \in ts : Len(Spelling[u]) <= Len(Spelling[t])

\* Another character could still change what the characters of s are.
Unfinished(s) == \E t \in Operators : StartsWith(Spelling[t], s) /\ s # Spelling[t]
=============================================================================
