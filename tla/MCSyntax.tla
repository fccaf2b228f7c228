------------------------------ MODULE MCSyntax ------------------------------
(***************************************************************************)
(* Sources for the parser: each text gives the first units of a source and *)
(* the alphabet the rest is taken from, unit by unit as the parser asks    *)
(* for it, up to a length.  A text is shaped for one family of rules.      *)
(***************************************************************************)
EXTENDS Syntax

Text(first, alphabet, length) == [first |-> first, alphabet |-> alphabet, length |-> length]

MCTexts == {
    \* generic arguments against comparisons, shifts and assignments
    Text(<<>>, {"ID", "<", ">", "=", "-", ";"}, 6),
    \* errors and generics inside a lambda inside tried generic arguments
    Text(<<"ID", "<", "fun", "{">>, {"ID", "<", ">", "}", ";"}, 8),
    \* the two for loops and what their headers may hold
    Text(<<"for", "(">>, {"var", "readonly", "in", "ID", ",", ";", ")", "{", "}"}, 7),
    \* break and continue in, around and after loops
    Text(<<"for", "(", "var", "ID">>, {"ID", "in", ";", ")", "{", "}", "break"}, 12),
    Text(<<"for", "{">>, {"break", "continue", "return", "fun", "{", "}", ";", "ID"}, 6),
    \* return in lambdas with and without a return type
    Text(<<"var", "ID", "=", "fun", "(", ")">>, {"{", "}", "return", ";", ":", "int"}, 11),
    \* the header of a for, tried for the value of a variable that needs no ";"
    Text(<<"export", "var", "ID", "=", "ID", "<", "fun", "ID", "{", "for", "(", "var">>,
         {"{", "}", "ID", "=", ";"}, 18),
    \* the same inside arguments that are tried themselves
    Text(<<"ID", "<", "fun", "{", "reference", "var", "ID", "=", "ID", "<", "fun", "{", "for", "(">>,
         {"var", "{", "}", "ID", ";", ">", "="}, 19),
    \* headers of lambdas
    Text(<<"fun">>, {"ID", "<", ">", "(", ")", ":", "-", "{", "}"}, 6),
    \* members of classes
    Text(<<"class", "ID", "{">>,
         {"fun", "static", "readonly", "reference", "export", "@", "ID", "=", ";", "}"}, 7),
    \* modules: packages, notes, exports
    Text(<<>>, {"using", "from", "STRING", "ID", ":", "@", "export", "class", ";"}, 6),
    \* a package whose value is a lambda that the parser fails in
    Text(<<"using", "ID", ":", "fun", "{">>, {"from", "STRING", "return", "for", "{", "}", ";"}, 10),
    \* the other statements
    Text(<<>>, {"if", "(", ")", "{", "}", "else", "try", "catch", "throw", "ID", ";"}, 6),
    \* sets, objects, tuples
    Text(<<"var">>, {"{", "}", "[", "]", ",", ":", "=", "ID", ";"}, 6) }
=============================================================================
