----------------------------- MODULE MCScanner -----------------------------
(***************************************************************************)
(* Sources for the scanner, each shaped for one kind of token.             *)
(***************************************************************************)
EXTENDS Scanner

Text(first, alphabet, length) == [first |-> first, alphabet |-> alphabet, length |-> length]

MCTexts == {
    \* operators that grow, cut by not_scanner_gt, with line breaks inside
    Text(<<>>, {">", "=", "<", "nl", "a"}, 5),
    Text(<<>>, {">", "=", "cr", "nl", "sp"}, 5),
    Text(<<>>, {"*", "+", "-", ">", "&", "|", "=", "!", "\\", "%", "(", ".", ":", "~"}, 3),
    \* numbers
    Text(<<>>, {"0", "1", "8", "e", "x", "b", "o", ".", "-", "sp"}, 4),
    Text(<<"1">>, {"0", "8", "e", ".", "+", "sp"}, 5),
    \* words, and a character no token starts with
    Text(<<"i">>, {"n", "t", "f", "_", "1", "sp", "bell"}, 5),
    \* runes
    Text(<<"sq">>, {"\\", "sq", "n", "x", "u", "1", "a", "nl"}, 6),
    Text(<<"sq", "\\">>, {"0", "7", "8", "sq", "U"}, 6),
    \* comments and strings
    Text(<<"/">>, {"/", "*", "nl", "a", "="}, 6),
    Text(<<>>, {"dq", "bq", "nl", "a", "\\"}, 4) }
=============================================================================
