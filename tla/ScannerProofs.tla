--------------------------- MODULE ScannerProofs ---------------------------
(***************************************************************************)
(* For any source, the tokens tile what was read, an operator token is the *)
(* longest operator that is spelled there, and lines are counted right.    *)
(*                                                                         *)
(* A word is spelled where the places that hold no white space, counted    *)
(* from its first one, hold its characters in order: the rank of a place   *)
(* is the size of a finite set that grows by at most one with each place.  *)
(* From this and a few facts about the table of operators it follows that  *)
(* an operator is the longest one as soon as the character after it fits   *)
(* no extension (WholeIsLongest), which is what the scanner looks at.      *)
(* The inductive invariant IInv says where the scanner stands in a token,  *)
(* that what it returned is whole or was cut by not_scanner_gt, that what  *)
(* it read lies in a token, and that it never stands inside "cr" "nl".     *)
(***************************************************************************)
EXTENDS Scanner, FiniteSetTheorems, WellFoundedInduction, TLAPS
-----------------------------------------------------------------------------
\* A set of natural numbers that is not empty has a least element.
LEMMA Least == ASSUME NEW T, T \subseteq Nat, T # {}
               PROVE  \E x \in T : \A y \in T : x <= y
<1>1. PICK x \in T : \A y \in T : ~(<<y, x>> \in OpToRel(<, Nat))
  BY NatLessThanWellFounded, WFMin
<1>2. \A y \in T : ~(y < x)
  BY <1>1, x \in Nat DEF OpToRel
<1> QED
  BY <1>2

\* The places that hold no white space are finitely many.
LEMMA SolidIsFinite ==
  ASSUME NEW s, NEW a \in Int, NEW b \in Int
  PROVE  IsFiniteSet(Solid(s, a, b)) /\ Rank(s, a, b) \in Nat
<1>1. IsFiniteSet(a..b)
  BY FS_Interval
<1>2. Solid(s, a, b) \subseteq a..b
  BY DEF Solid
<1> QED
  BY <1>1, <1>2, FS_Subset, FS_CardinalityType DEF Rank

\* There are none before the first.
LEMMA NothingSolid ==
  ASSUME NEW s, NEW a \in Int, NEW b \in Int, b < a
  PROVE  Solid(s, a, b) = {} /\ Rank(s, a, b) = 0
<1>1. Solid(s, a, b) = {}
  BY DEF Solid
<1> QED
  BY <1>1, FS_EmptySet DEF Rank

\* One place more adds itself, or nothing when it is white space.
LEMMA SolidNext ==
  ASSUME NEW s, NEW a \in Int, NEW b \in Int, a <= b + 1
  PROVE  /\ s[b + 1] \in Trivial => /\ Solid(s, a, b + 1) = Solid(s, a, b)
                                    /\ Rank(s, a, b + 1) = Rank(s, a, b)
         /\ s[b + 1] \notin Trivial => /\ Solid(s, a, b + 1) = Solid(s, a, b) \cup {b + 1}
                                       /\ Rank(s, a, b + 1) = Rank(s, a, b) + 1
<1>1. s[b + 1] \in Trivial => Solid(s, a, b + 1) = Solid(s, a, b)
  BY DEF Solid
<1>2. s[b + 1] \notin Trivial => Solid(s, a, b + 1) = Solid(s, a, b) \cup {b + 1}
  BY DEF Solid
<1>3. b + 1 \notin Solid(s, a, b)
  BY DEF Solid
<1> QED
  BY <1>1, <1>2, <1>3, SolidIsFinite, FS_AddElement DEF Rank

\* A longer stretch has more places, and the same ones if it has as many.
LEMMA SolidGrows ==
  ASSUME NEW s, NEW a \in Int, NEW b \in Int, NEW c \in Int, b <= c
  PROVE  /\ Solid(s, a, b) \subseteq Solid(s, a, c)
         /\ Rank(s, a, b) <= Rank(s, a, c)
         /\ Rank(s, a, b) = Rank(s, a, c) => Solid(s, a, b) = Solid(s, a, c)
<1>1. Solid(s, a, b) \subseteq Solid(s, a, c)
  BY DEF Solid
<1> QED
  BY <1>1, SolidIsFinite, FS_Subset DEF Rank

\* Every number up to the rank of b is the rank of a place.
LEMMA RankReached ==
  ASSUME NEW s, NEW a \in Nat \ {0}, NEW b \in Nat, NEW i \in 1..Rank(s, a, b)
  PROVE  \E p \in Solid(s, a, b) : Rank(s, a, p) = i
<1> DEFINE T == {q \in a..b : i <= Rank(s, a, q)}
<1>0. Rank(s, a, b) \in Nat
  BY SolidIsFinite
<1>1. b >= a
  BY NothingSolid, <1>0
<1>2. T \subseteq Nat /\ b \in T
  BY <1>1, <1>0
<1>3. PICK p \in T : \A q \in T : p <= q
  BY <1>2, Least
<1>4. Rank(s, a, p - 1) < i
  <2>1. CASE p = a
    BY <2>1, NothingSolid
  <2>2. CASE p # a
    <3>1. p - 1 \in a..b /\ p - 1 \notin T
      BY <1>3, <2>2
    <3> QED
      BY <3>1, SolidIsFinite
  <2> QED
    BY <2>1, <2>2
<1>5. p - 1 \in Int /\ a <= (p - 1) + 1 /\ (p - 1) + 1 = p
  BY <1>3
<1>6. /\ s[p] \in Trivial => Rank(s, a, p) = Rank(s, a, p - 1)
      /\ s[p] \notin Trivial => Rank(s, a, p) = Rank(s, a, p - 1) + 1
  BY <1>5, SolidNext
<1>7. s[p] \notin Trivial /\ Rank(s, a, p) = i
  BY <1>3, <1>4, <1>5, <1>6, SolidIsFinite
<1> QED
  BY <1>7, <1>3 DEF Solid

\* A longer text has the same places.
LEMMA SolidKept ==
  ASSUME NEW s, NEW t, NEW n \in Nat, \A p \in 1..n : t[p] = s[p],
         NEW a \in Nat \ {0}, NEW b \in Int, b <= n
  PROVE  Solid(t, a, b) = Solid(s, a, b) /\ Rank(t, a, b) = Rank(s, a, b)
  BY DEF Solid, Rank

\* What is spelled stays spelled in a longer text.
LEMMA SpellsKept ==
  ASSUME NEW s, NEW t, NEW n \in Nat, \A p \in 1..n : t[p] = s[p],
         NEW a \in Nat \ {0}, NEW b \in Int, b <= n, NEW w, Spells(s, a, b, w)
  PROVE  Spells(t, a, b, w)
<1>1. \A p \in a..b : Rank(t, a, p) = Rank(s, a, p) /\ t[p] = s[p]
  BY SolidKept
<1>2. Solid(t, a, b) = Solid(s, a, b) /\ Rank(t, a, b) = Rank(s, a, b)
  BY SolidKept
<1> QED
  BY <1>1, <1>2 DEF Spells, Solid
-----------------------------------------------------------------------------
\* The table of operators.
LEMMA SpellingOfOne ==
  \A t \in {".", ":", "\\", "+", "-", "*", "/", "%", "&", "|", "<", ">", "!", "="} :
     t \in Operators /\ Spelling[t] = <<t>>
BY SMTT(60) DEF Spelling, Operators, Dot, Colon, Backslash, Plus, Minus, Star, Slash, Percent, And,
       Or, Lt, Gt, Not, Eq

\* Operators of two characters.
LEMMA SpellingOfTwo ==
  /\ Spelling["\\="] = <<"\\", "=">>  /\ Spelling["/="] = <<"/", "=">>
  /\ Spelling["+="] = <<"+", "=">>    /\ Spelling["%="] = <<"%", "=">>
  /\ Spelling["-="] = <<"-", "=">>    /\ Spelling["->"] = <<"-", ">">>
  /\ Spelling["*="] = <<"*", "=">>    /\ Spelling["**"] = <<"*", "*">>
  /\ Spelling["&="] = <<"&", "=">>    /\ Spelling["&&"] = <<"&", "&">>
  /\ Spelling["|="] = <<"|", "=">>    /\ Spelling["||"] = <<"|", "|">>
  /\ Spelling["<="] = <<"<", "=">>    /\ Spelling["<<"] = <<"<", "<">>
  /\ Spelling[">="] = <<">", "=">>    /\ Spelling[">>"] = <<">", ">">>
  /\ Spelling["!="] = <<"!", "=">>    /\ Spelling["=="] = <<"=", "=">>
BY SMTT(60) DEF Spelling, Operators, Dot, Colon, Backslash, Plus, Minus, Star, Slash, Percent, And,
       Or, Lt, Gt, Not, Eq

\* Operators of three characters.
LEMMA SpellingOfThree ==
  /\ Spelling["**="] = <<"*", "*", "=">>
  /\ Spelling["<<="] = <<"<", "<", "=">>
  /\ Spelling[">>="] = <<">", ">", "=">>
BY SMTT(60) DEF Spelling, Operators, Dot, Colon, Backslash, Plus, Minus, Star, Slash, Percent, And,
       Or, Lt, Gt, Not, Eq

Ones == {".", ":", "\\", "+", "-", "*", "/", "%", "&", "|", "<", ">", "!", "="}
Twos == {"\\=", "/=", "+=", "%=", "-=", "->", "*=", "**", "&=", "&&", "|=", "||", "<=", "<<", ">=", ">>",
         "!=", "=="}
Threes == {"**=", "<<=", ">>="}

\* There are no others.
LEMMA ThreeSizes == Operators = Ones \cup Twos \cup Threes
BY SMT DEF Ones, Twos, Threes, Operators, Dot, Colon, Backslash, Plus, Minus, Star, Slash, Percent, And,
       Or, Lt, Gt, Not, Eq

\* How long the spellings are.
LEMMA SizeOfOne == \A t \in Ones : Spelling[t] = <<t>> /\ Len(Spelling[t]) = 1
<1>1. \A t \in Ones : Spelling[t] = <<t>>
  BY SpellingOfOne, Zenon DEF Ones
<1> QED
  BY <1>1

\* The same of two characters.
LEMMA SizeOfTwo == \A t \in Twos : Len(Spelling[t]) = 2
<1>1. \A t \in Twos : \E a, b : Spelling[t] = <<a, b>>
  BY SpellingOfTwo, ZenonT(60) DEF Twos
<1> QED
  BY <1>1

\* The same of three characters.
LEMMA SizeOfThree == \A t \in Threes : Len(Spelling[t]) = 3
<1>1. \A t \in Threes : \E a, b, c : Spelling[t] = <<a, b, c>>
  BY SpellingOfThree, ZenonT(60) DEF Threes
<1> QED
  BY <1>1

\* No operator is longer than three characters.
LEMMA Sizes == \A t \in Operators : Len(Spelling[t]) \in 1..3
BY ThreeSizes, SizeOfOne, SizeOfTwo, SizeOfThree

\* No two operators are spelled alike.
LEMMA SpelledOnce ==
  ASSUME NEW t \in Operators, NEW u \in Operators, Len(Spelling[t]) = Len(Spelling[u]),
         \A i \in 1..Len(Spelling[t]) : Spelling[t][i] = Spelling[u][i]
  PROVE  t = u
<1>1. \A v, w \in Twos : Spelling[v][1] = Spelling[w][1] /\ Spelling[v][2] = Spelling[w][2] => v = w
  BY SpellingOfTwo DEF Twos
<1>2. \A v, w \in Threes : Spelling[v][1] = Spelling[w][1] => v = w
  BY SpellingOfThree DEF Threes
<1>3. \A v, w \in Ones : Spelling[v][1] = Spelling[w][1] => v = w
  BY SizeOfOne
<1>4. CASE t \in Ones
  <2>1. u \in Ones
    <3>1. Len(Spelling[u]) = 1
      BY <1>4, SizeOfOne
    <3> QED
      BY <3>1, ThreeSizes, SizeOfTwo, SizeOfThree
  <2> QED
    BY <1>3, <1>4, <2>1, SizeOfOne
<1>5. CASE t \in Twos
  <2>1. u \in Twos
    <3>1. Len(Spelling[u]) = 2
      BY <1>5, SizeOfTwo
    <3> QED
      BY <3>1, ThreeSizes, SizeOfOne, SizeOfThree
  <2>2. Len(Spelling[t]) = 2
    BY <1>5, SizeOfTwo
  <2> QED
    BY <1>1, <1>5, <2>1, <2>2
<1>6. CASE t \in Threes
  <2>1. u \in Threes
    <3>1. Len(Spelling[u]) = 3
      BY <1>6, SizeOfThree
    <3> QED
      BY <3>1, ThreeSizes, SizeOfOne, SizeOfTwo
  <2>2. Len(Spelling[t]) = 3
    BY <1>6, SizeOfThree
  <2> QED
    BY <1>2, <1>6, <2>1, <2>2
<1> QED
  BY <1>4, <1>5, <1>6, ThreeSizes

\* The extensions of t are the operators of one character more that start with it.
LEMMA ExtensionFacts ==
  ASSUME NEW t \in Operators, NEW u \in Operators, NEW n \in 1..3,
         Len(Spelling[t]) = n, Len(Spelling[u]) = n + 1,
         \A i \in 1..n : Spelling[u][i] = Spelling[t][i]
  PROVE  u \in Extensions(t)
BY DEF Extensions, StartsWith

\* The first characters of an operator are operators, and none of them ends the search.
LEMMA CharactersFacts ==
  \A c \in Characters : /\ c \in Operators /\ Spelling[c] = <<c>> /\ LooksOn(c)
                        /\ c \notin Trivial \cup {"eof"}
<1>1. \A t \in Twos : Spelling[t][1] \in Ones
  BY SpellingOfTwo DEF Twos, Ones
<1>2. \A t \in Threes : Spelling[t][1] \in Ones
  BY SpellingOfThree DEF Threes, Ones
<1>3. Characters \subseteq Ones
  BY <1>1, <1>2, SizeOfOne, ThreeSizes DEF Characters
<1>4. \A c \in Ones : c \in {".", ":"} \/ \E u \in Twos : Spelling[u][1] = c
  BY SpellingOfTwo DEF Twos, Ones
<1>5. ASSUME NEW c \in Ones, NEW u \in Twos, Spelling[u][1] = c
      PROVE  u \in Extensions(c)
  <2>1. Spelling[c] = <<c>> /\ Len(Spelling[c]) = 1 /\ Len(Spelling[u]) = 2
    BY SizeOfOne, SizeOfTwo
  <2>3. \A i \in 1..1 : Spelling[u][i] = Spelling[c][i]
    BY <1>5, <2>1
  <2>4. c \in Operators /\ u \in Operators /\ 1 \in 1..3 /\ 2 = 1 + 1
    BY ThreeSizes
  <2> QED
    BY <2>1, <2>3, <2>4, ExtensionFacts
<1>6. \A c \in Ones : c \notin Trivial \cup {"eof"}
  BY DEF Ones, Trivial, LineBreaks
<1>7. \A c \in Ones : LooksOn(c)
  BY <1>4, <1>5, Zenon DEF LooksOn
<1> QED
  BY <1>3, <1>6, <1>7, SizeOfOne, ThreeSizes

\* The other tokens are no operators.
LEMMA OtherTokens ==
  /\ Operators \cap {"EOF", "ID", "keyword", "NUMBER", "CHAR", "STRING"} = {}
  /\ Operators \cap (Alone \cup Bits) = {}
  /\ (Alone \cup Bits) \cap (Trivial \cup {"eof"}) = {}
<1>1. Operators \cap {"EOF", "ID", "keyword", "NUMBER", "CHAR", "STRING"} = {}
  BY ThreeSizes DEF Ones, Twos, Threes
<1>2. Operators \cap (Alone \cup Bits) = {}
  BY ThreeSizes, ZenonT(60) DEF Ones, Twos, Threes, Alone, Bits
<1>3. (Alone \cup Bits) \cap (Trivial \cup {"eof"}) = {}
  BY Zenon DEF Trivial, LineBreaks, Alone, Bits
<1> QED
  BY <1>1, <1>2, <1>3

\* What an operator of three characters starts with is an operator of two.
LEMMA PrefixFacts ==
  \A t \in Operators : Len(Spelling[t]) = 3 =>
     \E u \in Operators : /\ Len(Spelling[u]) = 2
                          /\ Spelling[u][1] = Spelling[t][1] /\ Spelling[u][2] = Spelling[t][2]
<1>1. \A t \in Threes : \E u \in Twos : Spelling[u][1] = Spelling[t][1] /\ Spelling[u][2] = Spelling[t][2]
  BY SpellingOfThree, SpellingOfTwo DEF Threes, Twos
<1> QED
  BY <1>1, ThreeSizes, SizeOfOne, SizeOfTwo, SizeOfThree

-----------------------------------------------------------------------------
\* The next place after b that is no white space is p.
NextSolid(s, b, p) == /\ p \in b + 1..Len(s) /\ s[p] \notin Trivial
                      /\ \A q \in b + 1..p - 1 : s[q] \in Trivial
Stops(s, b, t) ==
  \/ Extensions(t) = {}
  \/ \E p \in b + 1..Len(s) : /\ NextSolid(s, b, p)
                    /\ \A u \in Extensions(t) : Spelling[u][Len(Spelling[u])] # s[p]
\* Operator t is spelled from a to b and no longer one is.
Whole(s, a, b, t) == /\ a \in Nat \ {0} /\ b \in a..Len(s) /\ t \in Operators
                     /\ s[a] \notin Trivial
                     /\ Spells(s, a, b, Spelling[t])
                     /\ Stops(s, b, t)

\* Two words spelled from the same place are alike as far as both go.
LEMMA SpelledAlike ==
  ASSUME NEW s, NEW a \in Nat \ {0}, NEW b \in Nat, NEW c \in Nat,
         NEW v, NEW w, Spells(s, a, b, v), Spells(s, a, c, w),
         NEW i \in Nat \ {0}, i <= Len(v), i <= Len(w)
  PROVE  v[i] = w[i]
<1>1. i \in 1..Rank(s, a, b) /\ i \in 1..Rank(s, a, c)
  BY SolidIsFinite DEF Spells
<1>2. CASE b <= c
  <2>1. PICK p \in Solid(s, a, b) : Rank(s, a, p) = i
    BY <1>1, RankReached
  <2>2. Solid(s, a, b) \subseteq Solid(s, a, c)
    BY <1>2 DEF Solid
  <2> QED
    BY <2>1, <2>2 DEF Spells
<1>3. CASE c <= b
  <2>1. PICK p \in Solid(s, a, c) : Rank(s, a, p) = i
    BY <1>1, RankReached
  <2>2. Solid(s, a, c) \subseteq Solid(s, a, b)
    BY <1>3 DEF Solid
  <2> QED
    BY <2>1, <2>2 DEF Spells
<1> QED
  BY <1>2, <1>3

\* The place of rank n + 1 is the next one after n places.
LEMMA NextRank ==
  ASSUME NEW s, NEW a \in Nat \ {0}, NEW b \in Nat, NEW q \in Nat, a <= b, q \in Solid(s, a, q),
         Rank(s, a, q) = Rank(s, a, b) + 1,
         NEW p \in Nat, NextSolid(s, b, p)
  PROVE  p = q
<1>1. b < q
  BY SolidGrows, SolidIsFinite
<1>2. Rank(s, a, q - 1) = Rank(s, a, b)
  <2>1. (q - 1) \in Int /\ a <= (q - 1) + 1 /\ (q - 1) + 1 = q
    BY <1>1
  <2>2. s[q] \notin Trivial
    BY DEF Solid
  <2>3. Rank(s, a, q) = Rank(s, a, q - 1) + 1
    BY <2>1, <2>2, SolidNext
  <2> QED
    BY <2>1, <2>3, SolidIsFinite
<1>3. Solid(s, a, q - 1) = Solid(s, a, b)
  BY <1>1, <1>2, SolidGrows
<1>4. CASE p < q
  <2>1. p \in Solid(s, a, q - 1)
    BY <1>1, <1>4 DEF Solid, NextSolid
  <2>2. p \notin Solid(s, a, b)
    BY DEF Solid, NextSolid
  <2> QED
    BY <1>3, <2>1, <2>2
<1>5. CASE q < p
  <2>1. q \in b + 1..p - 1 /\ s[q] \notin Trivial
    BY <1>1, <1>5 DEF Solid, NextSolid
  <2> QED
    BY <2>1 DEF NextSolid
<1> QED
  BY <1>4, <1>5 DEF NextSolid

\* A whole operator is the longest that is spelled.
LEMMA WholeIsLongest ==
  ASSUME NEW s, NEW a, NEW b, NEW t, Len(s) \in Nat, Whole(s, a, b, t),
         NEW u \in Operators, NEW c \in a..Len(s), Spells(s, a, c, Spelling[u])
  PROVE  Len(Spelling[u]) <= Len(Spelling[t]) /\ (Len(Spelling[u]) = Len(Spelling[t]) => u = t)
<1>0. /\ t \in Operators /\ a \in Nat \ {0} /\ b \in Nat /\ c \in Nat /\ a <= b
      /\ Spells(s, a, b, Spelling[t])
      /\ Len(Spelling[t]) \in 1..3 /\ Len(Spelling[u]) \in 1..3
  BY Sizes DEF Whole
<1>1. \A i \in Nat \ {0} : i <= Len(Spelling[t]) /\ i <= Len(Spelling[u])
                           => Spelling[t][i] = Spelling[u][i]
  BY <1>0, SpelledAlike
<1>2. Len(Spelling[u]) = Len(Spelling[t]) => u = t
  BY <1>0, <1>1, SpelledOnce
<1>3. ASSUME NEW n \in 1..3, NEW m \in 1..3, n = Len(Spelling[t]), m = Len(Spelling[u]), m > n
      PROVE  FALSE
  <2>1. PICK e \in Extensions(t) : Spelling[e][n + 1] = Spelling[u][n + 1] /\ Len(Spelling[e]) = n + 1
    <3>1. CASE m = n + 1
      <4>1. \A i \in 1..n : i \in Nat \ {0} /\ i <= n /\ i <= m
        BY <3>1
      <4>2. \A i \in 1..n : Spelling[u][i] = Spelling[t][i]
        BY <1>1, <1>3, <4>1, Zenon
      <4>3. u \in Extensions(t)
        BY <1>0, <1>3, <3>1, <4>2, ExtensionFacts
      <4> QED
        BY <1>3, <3>1, <4>3
    <3>2. CASE m = 3 /\ n = 1
      <4>1. PICK e \in Operators : /\ Len(Spelling[e]) = 2
                                   /\ Spelling[e][1] = Spelling[u][1] /\ Spelling[e][2] = Spelling[u][2]
        BY <1>3, <3>2, PrefixFacts
      <4>2. Spelling[e][1] = Spelling[t][1]
        BY <1>1, <1>3, <3>2, <4>1
      <4>3. \A i \in 1..1 : Spelling[e][i] = Spelling[t][i]
        BY <4>2
      <4>4. t \in Operators /\ Len(Spelling[t]) = 1 /\ 1 \in 1..3 /\ 2 = 1 + 1
        BY <1>0, <1>3, <3>2
      <4>5. e \in Extensions(t)
        BY <4>1, <4>3, <4>4, ExtensionFacts
      <4> QED
        BY <3>2, <4>1, <4>5
    <3>3. \A x, y \in 1..3 : x > y => x = y + 1 \/ (x = 3 /\ y = 1)
      OBVIOUS
    <3>4. m = n + 1 \/ (m = 3 /\ n = 1)
      BY <1>3, <3>3, Zenon
    <3> QED
      BY <3>1, <3>2, <3>4, Zenon
  <2>2. PICK p \in b + 1..Len(s) : /\ NextSolid(s, b, p)
                                    /\ \A v \in Extensions(t) : Spelling[v][Len(Spelling[v])] # s[p]
    BY <2>1 DEF Whole, Stops
  <2>3. n + 1 \in 1..Rank(s, a, c)
    BY <1>0, <1>3 DEF Spells
  <2>4. PICK q \in Solid(s, a, c) : Rank(s, a, q) = n + 1
    BY <1>0, <2>3, RankReached
  <2>5. p \in Nat /\ q \in Nat /\ q \in Solid(s, a, q) /\ Spelling[u][n + 1] = s[q]
    BY <1>0, <2>2, <2>4 DEF Solid, Spells
  <2>6. Rank(s, a, b) = n
    BY <1>0, <1>3 DEF Spells
  <2>7. p = q
    BY <1>0, <2>2, <2>4, <2>5, <2>6, NextRank
  <2> QED
    BY <2>1, <2>2, <2>5, <2>7
<1>4. PICK n \in 1..3, m \in 1..3 : n = Len(Spelling[t]) /\ m = Len(Spelling[u])
  BY <1>0
<1>5. \A x, y \in 1..3 : ~(x > y) => x <= y
  OBVIOUS
<1>6. m <= n
  BY <1>3, <1>4, <1>5, Zenon
<1> QED
  BY <1>2, <1>4, <1>6, Zenon
-----------------------------------------------------------------------------
\* Line breaks are counted as places are.
LEMMA BreaksFinite ==
  ASSUME NEW s, NEW a \in Int, NEW b \in Int
  PROVE  /\ IsFiniteSet(Broken(s, a, b)) /\ Breaks(s, a, b) \in Nat
         /\ a <= b + 1 => Breaks(s, a, b) <= (b + 1) - a
<1>1. IsFiniteSet(a..b) /\ Cardinality(a..b) = IF a > b THEN 0 ELSE b - a + 1
  BY FS_Interval
<1>2. Broken(s, a, b) \subseteq a..b
  BY DEF Broken
<1> QED
  BY <1>1, <1>2, FS_Subset, FS_CardinalityType DEF Breaks

\* No line ends before the first place.
LEMMA NothingBroken ==
  ASSUME NEW s, NEW a \in Int, NEW b \in Int, b < a
  PROVE  Breaks(s, a, b) = 0
<1>1. Broken(s, a, b) = {}
  BY DEF Broken
<1> QED
  BY <1>1, FS_EmptySet DEF Breaks

BreakAt(s, p) == s[p] \in LineBreaks /\ ~(s[p] = "nl" /\ p > 1 /\ s[p - 1] = "cr")

\* One place more adds a line break, or none.
LEMMA BreaksNext ==
  ASSUME NEW s, NEW a \in Int, NEW p \in Int, a <= p
  PROVE  Breaks(s, a, p) = Breaks(s, a, p - 1) + (IF BreakAt(s, p) THEN 1 ELSE 0)
<1>1. BreakAt(s, p) => Broken(s, a, p) = Broken(s, a, p - 1) \cup {p}
  BY DEF Broken, BreakAt
<1>2. ~BreakAt(s, p) => Broken(s, a, p) = Broken(s, a, p - 1)
  BY DEF Broken, BreakAt
<1>3. p \notin Broken(s, a, p - 1)
  BY DEF Broken
<1>4. IsFiniteSet(Broken(s, a, p - 1)) /\ Breaks(s, a, p - 1) \in Nat
  BY BreaksFinite
<1>5. Cardinality(Broken(s, a, p - 1) \cup {p}) = Cardinality(Broken(s, a, p - 1)) + 1
  BY <1>3, <1>4, FS_AddElement
<1> QED
  BY <1>1, <1>2, <1>4, <1>5 DEF Breaks

\* The line breaks of two neighbouring stretches add up.
LEMMA BreaksSplit ==
  ASSUME NEW s, NEW a \in Int, NEW b \in Int, NEW c \in Int, a <= b + 1, b <= c
  PROVE  Breaks(s, a, c) = Breaks(s, a, b) + Breaks(s, b + 1, c)
<1>1. Broken(s, a, c) = Broken(s, a, b) \cup Broken(s, b + 1, c)
  BY DEF Broken
<1>2. Broken(s, a, b) \cap Broken(s, b + 1, c) = {}
  BY DEF Broken
<1>3. /\ IsFiniteSet(Broken(s, a, b)) /\ IsFiniteSet(Broken(s, b + 1, c))
      /\ Breaks(s, a, b) \in Nat /\ Breaks(s, b + 1, c) \in Nat
  BY BreaksFinite
<1>4. Cardinality(Broken(s, a, b) \cup Broken(s, b + 1, c))
        = Cardinality(Broken(s, a, b)) + Cardinality(Broken(s, b + 1, c))
  BY <1>2, <1>3, FS_Union, FS_EmptySet DEF Breaks
<1> QED
  BY <1>1, <1>4 DEF Breaks

\* A longer text has the same line breaks.
LEMMA LinesKept ==
  ASSUME NEW s, NEW t, Len(s) \in Nat, \A p \in 1..Len(s) : t[p] = s[p],
         NEW b \in Int, b <= Len(s)
  PROVE  Breaks(t, 1, b) = Breaks(s, 1, b)
<1>1. Broken(t, 1, b) = Broken(s, 1, b)
  BY DEF Broken
<1> QED
  BY <1>1 DEF Breaks
-----------------------------------------------------------------------------
(***************************************************************************)
(* The inductive invariant.                                                *)
(***************************************************************************)
\* A token is being read: it starts at from.
Inside == {"operator", "string", "rune", "escape", "digits", "number", "word"}
Token == [type : TokenTypes, from : Nat, to : Nat, line : Nat]
Uncut == {">=", ">>=", ">>"}

Types ==
  /\ text \in Texts /\ source \in Seq(Chars) /\ closed \in BOOLEAN
  /\ pos \in 1..Len(source) + 1 /\ line \in 1..pos
  /\ mode \in Modes
  /\ from \in 1..Len(source) + 1
  /\ depth \in -Len(source)..Len(source)
  /\ tokens \in Seq(Token)

\* What the loops of the scanner may rely on when they go on.
Locals ==
  /\ mode = "block_comment" => depth \in 1 - pos..pos - 1
  /\ DOMAIN rune = {"n", "m", "base", "max", "x"} /\ rune.base \in {8, 16}
  /\ mode = "number" => form \in Forms
  /\ mode = "idle" => tokens # <<>>
  /\ mode \in Inside => from <= pos /\ from_line \in 1..from
  /\ mode \in Inside \ {"operator"} => line = from_line
  /\ mode = "operator" => /\ form \in Operators /\ LooksOn(form)
                          /\ from < pos /\ source[from] \notin Trivial
                          /\ Spells(source, from, pos - 1, Spelling[form])

\* Tokens follow each other, and what is read now follows them.
Order ==
  /\ \A i \in DOMAIN tokens :
       /\ tokens[i].from >= 1 /\ tokens[i].line \in 1..tokens[i].from
       /\ tokens[i].to < pos /\ tokens[i].from <= tokens[i].to + 1
       /\ mode \in Inside => tokens[i].to < from
  /\ \A i, j \in DOMAIN tokens : i < j => tokens[i].to < tokens[j].from

\* An operator is whole, or the rest of it was given back.
OperatorToken(s, k) ==
  \/ Whole(s, k.from, k.to, k.type)
  \/ /\ k.type = ">" /\ k.to = k.from
     /\ \E t \in Uncut : \E b \in 1..Len(s) : Whole(s, k.from, b, t)
Wholes == \A i \in DOMAIN tokens : tokens[i].type \in Operators => OperatorToken(source, tokens[i])

\* Nothing that was read is lost.
Covered ==
  ~Occurs({"/"}) =>
    /\ mode \notin {"line_comment", "block_comment"}
    /\ mode # "failed" => \A p \in 1..pos - 1 :
         \/ source[p] \in Trivial \/ p \in Taken
         \/ p >= from /\ (mode \in Inside \/ LostAtEnd)

\* Lines are counted, and the scanner does not stand between "cr" and "nl".
Counted ==
  ~Occurs({"/", "dq", "bq", "sq"}) =>
    /\ mode \notin {"line_comment", "block_comment", "string", "rune", "escape", "digits"}
    /\ line = 1 + Breaks(source, 1, pos - 1)
    /\ \A i \in DOMAIN tokens : tokens[i].line = 1 + Breaks(source, 1, tokens[i].from - 1)
    /\ mode \in Inside => from_line = 1 + Breaks(source, 1, from - 1)
    /\ pos > 1 /\ source[pos - 1] = "cr" => \/ pos = Len(source) + 1 /\ closed
                                            \/ pos <= Len(source) /\ source[pos] # "nl"

IInv == Types /\ Locals /\ Order /\ Wholes /\ Covered /\ Counted
-----------------------------------------------------------------------------
\* The current and the next character, where the file has one.
LEMMA AtCharacter ==
  ASSUME Types
  PROVE  /\ Len(source) \in Nat
         /\ Ch # "eof" => pos \in 1..Len(source) /\ Ch = source[pos] /\ Ch \in Chars
         /\ Ch = "eof" => pos = Len(source) + 1
         /\ Peek # "eof" => pos + 1 \in 1..Len(source) /\ Peek = source[pos + 1]
BY DEF Types, Ch, Peek, Chars

\* Steps that return no token.
LEMMA OrderStays ==
  ASSUME Types, Order, UNCHANGED tokens, pos' \in Nat, pos' >= pos,
         mode' \in Inside => from' = pos \/ (mode \in Inside /\ from' = from)
  PROVE  Order'
<1>1. \A i \in DOMAIN tokens : tokens[i] \in Token
  BY DEF Types
<1>2. \A i \in DOMAIN tokens : tokens[i].to \in Nat
  BY <1>1 DEF Token
<1>3. \A i \in DOMAIN tokens : tokens[i].to < pos'
  BY <1>2 DEF Order, Types
<1>4. mode' \in Inside => \A i \in DOMAIN tokens : tokens[i].to < from'
  BY DEF Order
<1> QED
  BY <1>3, <1>4 DEF Order

\* Operators already returned stay whole.
LEMMA WholesStays ==
  ASSUME Wholes, UNCHANGED <<source, tokens>>
  PROVE  Wholes'
BY DEF Wholes

\* What a step reads is white space or belongs to the token being read.
LEMMA CoveredStays ==
  ASSUME Types, Covered, UNCHANGED <<source, tokens>>, pos' \in Nat, mode \notin {"failed", "done"},
         ~Occurs({"/"}) => mode' \notin {"line_comment", "block_comment"},
         mode' # "failed" => /\ mode \in Inside => mode' \in Inside /\ from' = from
                             /\ \A p \in pos..pos' - 1 : \/ source[p] \in Trivial
                                                         \/ p >= from' /\ mode' \in Inside
  PROVE  Covered'
<1> SUFFICES ASSUME ~Occurs({"/"}), mode' # "failed", NEW p \in 1..pos' - 1
             PROVE  source[p] \in Trivial \/ p \in Taken \/ (p >= from' /\ mode' \in Inside)
  BY DEF Covered, Occurs, Taken
<1>1. CASE p \in pos..pos' - 1
  BY <1>1
<1>2. CASE p \in 1..pos - 1
  <2>1. ~LostAtEnd
    BY DEF LostAtEnd
  <2>2. source[p] \in Trivial \/ p \in Taken \/ (p >= from /\ mode \in Inside)
    BY <1>2, <2>1 DEF Covered
  <2> QED
    BY <2>2
<1>3. pos \in Nat
  BY DEF Types
<1>4. \A m, n \in Nat : \A q \in 1..n - 1 : q \in m..n - 1 \/ q \in 1..m - 1
  OBVIOUS
<1>5. p \in pos..pos' - 1 \/ p \in 1..pos - 1
  BY <1>3, <1>4, Zenon
<1> QED
  BY <1>1, <1>2, <1>5, Zenon

\* Inside a token everything belongs to it.
LEMMA CoveredInside ==
  ASSUME Types, Covered, UNCHANGED <<source, tokens>>, mode \in Inside,
         mode' \in Inside \cup {"failed"}, pos' \in {pos, pos + 1}, UNCHANGED from, from <= pos
  PROVE  Covered'
<1>1. pos' \in Nat
  BY DEF Types
<1>2. mode \notin {"failed", "done"} /\ mode' \notin {"line_comment", "block_comment"}
  BY DEF Inside
<1>3. from \in Nat /\ pos \in Nat
  BY DEF Types
<1>4. \A p \in pos..pos' - 1 : p >= from
  BY <1>3
<1>5. \A p \in pos..pos' - 1 : p >= from'
  BY <1>4, Zenon
<1>6. mode' # "failed" => /\ mode \in Inside => mode' \in Inside /\ from' = from
                          /\ \A p \in pos..pos' - 1 : \/ source[p] \in Trivial
                                                      \/ p >= from' /\ mode' \in Inside
  BY <1>5, Zenon
<1> QED
  BY <1>1, <1>2, <1>6, CoveredStays, Zenon

\* A step over no line break changes no line.
LEMMA CountedStays ==
  ASSUME Types, Counted, UNCHANGED <<source, closed, line, tokens>>,
         pos' = pos \/ (pos' = pos + 1 /\ pos <= Len(source) /\ source[pos] \notin LineBreaks),
         ~Occurs({"/", "dq", "bq", "sq"}) =>
            mode' \notin {"line_comment", "block_comment", "string", "rune", "escape", "digits"},
         mode' \in Inside => \/ from' = pos /\ from_line' = line
                             \/ mode \in Inside /\ from' = from /\ from_line' = from_line
  PROVE  Counted'
<1> SUFFICES ASSUME ~Occurs({"/", "dq", "bq", "sq"})
             PROVE  Counted'
  BY DEF Counted, Occurs
<1>1. line' = 1 + Breaks(source', 1, pos' - 1)
  <2>1. CASE pos' = pos
    BY <2>1 DEF Counted
  <2>2. CASE pos' = pos + 1 /\ source[pos] \notin LineBreaks
    <3>1. Breaks(source, 1, pos) = Breaks(source, 1, pos - 1)
      BY <2>2, BreaksNext, BreaksFinite DEF BreakAt, Types
    <3> QED
      BY <2>2, <3>1 DEF Counted, Types
  <2> QED
    BY <2>1, <2>2
<1>2. pos' > 1 /\ source'[pos' - 1] = "cr" =>
         \/ pos' = Len(source') + 1 /\ closed'
         \/ pos' <= Len(source') /\ source'[pos'] # "nl"
  BY DEF Counted, LineBreaks, Types
<1>3. mode' \in Inside => from_line' = 1 + Breaks(source', 1, from' - 1)
  BY DEF Counted
<1> QED
  BY <1>1, <1>2, <1>3 DEF Counted

\* Steps that return token k.
Added(k) == tokens' = Append(tokens, k)

\* The list of tokens with one more.
LEMMA Appended ==
  ASSUME Types, NEW k \in Token, Added(k)
  PROVE  /\ tokens' \in Seq(Token) /\ Len(tokens') = Len(tokens) + 1
         /\ tokens' # <<>>
         /\ DOMAIN tokens' = DOMAIN tokens \cup {Len(tokens) + 1} /\ Len(tokens) \in Nat
         /\ DOMAIN tokens = 1..Len(tokens)
         /\ \A i \in DOMAIN tokens : tokens'[i] = tokens[i] /\ tokens[i] \in Token
         /\ tokens'[Len(tokens) + 1] = k
BY DEF Types, Added

\* The new token follows the earlier ones.
LEMMA OrderAdds ==
  ASSUME Types, Order, NEW k \in Token, Added(k), mode' \notin Inside, pos' \in Nat, pos' >= pos,
         k.from >= 1, k.line \in 1..k.from, k.to < pos', k.from <= k.to + 1,
         \A i \in DOMAIN tokens : tokens[i].to < k.from
  PROVE  Order'
<1>0. \A i \in DOMAIN tokens : tokens[i].to \in Nat /\ tokens[i].to < pos
  BY Appended DEF Order, Token
<1>1. \A i \in DOMAIN tokens' :
        /\ tokens'[i].from >= 1 /\ tokens'[i].line \in 1..tokens'[i].from
        /\ tokens'[i].to < pos' /\ tokens'[i].from <= tokens'[i].to + 1
  <2>1. \A i \in DOMAIN tokens : tokens[i].to < pos'
    BY <1>0 DEF Types
  <2> QED
    BY <2>1, Appended DEF Order
<1>2. \A i, j \in DOMAIN tokens' : i < j => tokens'[i].to < tokens'[j].from
  BY Appended DEF Order
<1> QED
  BY <1>1, <1>2 DEF Order

\* The new token is no operator, or whole.
LEMMA WholesAdds ==
  ASSUME Types, Wholes, NEW k \in Token, Added(k), UNCHANGED source,
         k.type \in Operators => OperatorToken(source, k)
  PROVE  Wholes'
BY Appended DEF Wholes

\* The new token covers what was read since the last.
LEMMA CoveredAdds ==
  ASSUME Types, Covered, NEW k \in Token, Added(k), UNCHANGED source, pos' \in Nat,
         mode \notin {"failed", "done"}, mode' \in {"idle", "done"},
         mode \in Inside => k.from = from, k.from <= pos,
         \A p \in k.from..pos' - 1 : source[p] \in Trivial \/ p <= k.to,
         mode \notin Inside => k.from = pos
  PROVE  Covered'
<1> SUFFICES ASSUME ~Occurs({"/"}), NEW p \in 1..pos' - 1, source[p] \notin Trivial
             PROVE  p \in Taken'
  BY DEF Covered, Occurs
<1>1. CASE p >= k.from
  <2>1. k.from \in Nat /\ k.to \in Nat
    BY DEF Token
  <2>2. \A m, n \in Nat : \A q \in 1..n - 1 : q >= m => q \in m..n - 1
    OBVIOUS
  <2>3. p \in k.from..pos' - 1
    BY <1>1, <2>1, <2>2, Zenon
  <2>4. p <= k.to
    BY <2>3
  <2>5. \A m, n, x \in Nat : \A q \in 1..n - 1 : q >= m /\ q <= x => q \in m..x
    OBVIOUS
  <2>6. p \in k.from..k.to
    BY <1>1, <2>1, <2>4, <2>5, Zenon
  <2> QED
    BY <2>6, Appended DEF Taken
<1>2. CASE p < k.from
  <2>1. k.from \in Nat /\ pos \in Nat /\ from \in Nat
    BY DEF Token, Types
  <2>2. p < pos /\ (mode \in Inside => p < from)
    BY <1>2, <2>1
  <2>3. p \in Taken
    BY <2>1, <2>2 DEF Covered, LostAtEnd
  <2> QED
    BY <2>3, Appended DEF Taken
<1> QED
  BY <1>1, <1>2 DEF Token

\* The new token has its line.
LEMMA CountedAdds ==
  ASSUME Types, Counted, NEW k \in Token, Added(k), UNCHANGED <<source, closed, line>>,
         pos' = pos \/ (pos' = pos + 1 /\ pos <= Len(source) /\ source[pos] \notin LineBreaks),
         mode' \in {"idle", "done"},
         ~Occurs({"/", "dq", "bq", "sq"}) => k.line = 1 + Breaks(source, 1, k.from - 1)
  PROVE  Counted'
<1> SUFFICES ASSUME ~Occurs({"/", "dq", "bq", "sq"})
             PROVE  Counted'
  BY DEF Counted, Occurs
<1>1. line' = 1 + Breaks(source', 1, pos' - 1)
  <2>1. CASE pos' = pos
    BY <2>1 DEF Counted
  <2>2. CASE pos' = pos + 1 /\ source[pos] \notin LineBreaks
    <3>1. Breaks(source, 1, pos) = Breaks(source, 1, pos - 1)
      BY <2>2, BreaksNext, BreaksFinite DEF BreakAt, Types
    <3> QED
      BY <2>2, <3>1 DEF Counted, Types
  <2> QED
    BY <2>1, <2>2
<1>2. pos' > 1 /\ source'[pos' - 1] = "cr" =>
         \/ pos' = Len(source') + 1 /\ closed'
         \/ pos' <= Len(source') /\ source'[pos'] # "nl"
  BY DEF Counted, LineBreaks, Types
<1>3. \A i \in DOMAIN tokens' : tokens'[i].line = 1 + Breaks(source, 1, tokens'[i].from - 1)
  BY Appended DEF Counted
<1> QED
  BY <1>1, <1>2, <1>3 DEF Counted, Inside
-----------------------------------------------------------------------------
\* Where comments and literals are, lines need not be counted right.
LEMMA OccursHere ==
  ASSUME Types, Ch # "eof", NEW cs, Ch \in cs
  PROVE  Occurs(cs)
BY AtCharacter DEF Occurs, Types

\* Inside a comment or a literal, or after one, nothing is asked of the lines.
LEMMA CountedInLiteral ==
  ASSUME Counted, UNCHANGED source,
         \/ mode \in {"line_comment", "block_comment", "string", "rune", "escape", "digits"}
         \/ Occurs({"/", "dq", "bq", "sq"})
  PROVE  Counted'
BY DEF Counted, Occurs

\* Where there is a slash, nothing is asked of the covering.
LEMMA CoveredInComment ==
  ASSUME Covered, UNCHANGED source,
         mode \in {"line_comment", "block_comment"} \/ Occurs({"/"})
  PROVE  Covered'
BY DEF Covered, Occurs

\* A slash may begin a comment.
LEMMA SlashHere ==
  ASSUME Occurs({"/"})
  PROVE  Occurs({"/", "dq", "bq", "sq"})
BY DEF Occurs
-----------------------------------------------------------------------------
\* A step that changes nothing.
LEMMA StandStill == ASSUME IInv, UNCHANGED vars PROVE IInv'
BY DEF IInv, Types, Locals, Order, Wholes, Covered, Counted, vars, Taken, LostAtEnd, Occurs, LastToken

\* The parser asks for another token: nothing has been read.
LEMMA AdvanceStep == ASSUME IInv, Advance PROVE IInv'
<1> USE DEF IInv
<1>1. Types'
  BY DEF Types, Advance, Goto, file, locals, Modes
<1>2. Locals'
  BY DEF Locals, Advance, Goto, locals, Inside
<1>3. Order'
  BY OrderStays DEF Advance, Goto, Inside, Types
<1>4. Wholes'
  BY WholesStays DEF Advance, file
<1>5. Covered'
  BY CoveredStays DEF Advance, Goto, file, Inside, Types
<1>6. Counted'
  BY CountedStays DEF Advance, Goto, file, Inside
<1> QED
  BY <1>1, <1>2, <1>3, <1>4, <1>5, <1>6

\* A slash begins a comment.
LEMMA BeginCommentStep == ASSUME IInv, BeginComment PROVE IInv'
<1> USE DEF IInv
<1>0. Ch = "/" /\ Occurs({"/"}) /\ (Peek = "*" => pos + 1 \in 1..Len(source))
  BY AtCharacter, OccursHere DEF BeginComment
<1>1. Types'
  BY <1>0, AtCharacter DEF Types, BeginComment, Goto, Take, file, Modes
<1>2. Locals'
  BY <1>0, AtCharacter DEF Types, Locals, BeginComment, Goto, Take, Inside
<1>3. Order'
  BY <1>0, OrderStays DEF BeginComment, Goto, Take, Inside, Types
<1>4. Wholes'
  BY WholesStays DEF BeginComment, file
<1>5. Covered'
  BY <1>0, CoveredInComment DEF BeginComment, file
<1>6. Counted'
  BY <1>0, SlashHere, CountedInLiteral DEF BeginComment, file
<1> QED
  BY <1>1, <1>2, <1>3, <1>4, <1>5, <1>6

\* A line comment goes on to its line break.
LEMMA LineCommentStep == ASSUME IInv, LineComment PROVE IInv'
<1> USE DEF IInv
<1>0. mode = "line_comment"
  BY DEF LineComment, In
<1>1. Types'
  BY AtCharacter DEF Types, LineComment, Goto, Take, file, locals, Modes
<1>2. Locals'
  BY <1>0 DEF Types, Locals, LineComment, Goto, Take, Inside, locals
<1>3. Order'
  BY <1>0, OrderStays DEF LineComment, Goto, Take, Inside, Types
<1>4. Wholes'
  BY WholesStays DEF LineComment, file
<1>5. Covered'
  BY <1>0, CoveredInComment DEF LineComment, file
<1>6. Counted'
  BY <1>0, CountedInLiteral DEF LineComment, file
<1> QED
  BY <1>1, <1>2, <1>3, <1>4, <1>5, <1>6

\* depth moves by at most one per character.
LEMMA DepthBounded ==
  \A n \in Nat : \A p \in 1..n : \A q \in {p + 1, p + 2} : q <= n + 1 =>
     \A d \in 1 - p..p - 1 : \A e \in {d - 1, d, d + 1} : e \in 1 - q..q - 1 /\ e \in -n..n
OBVIOUS

\* A block comment: depth stays below the characters read.
LEMMA BlockCommentStep == ASSUME IInv, BlockComment PROVE IInv'
<1> USE DEF IInv
<1>0. /\ mode = "block_comment" /\ pos \in 1..Len(source) /\ Len(source) \in Nat
      /\ Peek # "eof" => pos + 1 \in 1..Len(source)
      /\ depth \in 1 - pos..pos - 1 /\ line \in 1..pos
  BY AtCharacter DEF BlockComment, In, Locals, Types
<1>1. /\ pos' \in {pos + 1, pos + 2} /\ pos' <= Len(source) + 1
      /\ depth' \in {depth - 1, depth, depth + 1}
      /\ mode' \in {"look", "block_comment"}
  BY <1>0 DEF BlockComment, Take, Goto
<1>2. depth' \in 1 - pos'..pos' - 1 /\ depth' \in -Len(source)..Len(source)
  <2>1. \A q \in {pos + 1, pos + 2} : q <= Len(source) + 1 =>
          \A d \in 1 - pos..pos - 1 : \A e \in {d - 1, d, d + 1} :
             e \in 1 - q..q - 1 /\ e \in -Len(source)..Len(source)
    BY <1>0, DepthBounded
  <2>2. \A d \in 1 - pos..pos - 1 : \A e \in {d - 1, d, d + 1} :
          e \in 1 - pos'..pos' - 1 /\ e \in -Len(source)..Len(source)
    BY <1>1, <2>1
  <2> QED
    BY <1>0, <1>1, <2>2, Zenon
<1>3. Types'
  BY <1>0, <1>1, <1>2 DEF Types, BlockComment, file, Modes
<1>4. Locals'
  BY <1>0, <1>1, <1>2 DEF Locals, BlockComment, Inside
<1>5. Order'
  BY <1>0, <1>1, OrderStays DEF BlockComment, Inside, Types
<1>6. Wholes'
  BY WholesStays DEF BlockComment, file
<1>7. Covered'
  BY <1>0, CoveredInComment DEF BlockComment, file
<1>8. Counted'
  BY <1>0, CountedInLiteral DEF BlockComment, file
<1> QED
  BY <1>3, <1>4, <1>5, <1>6, <1>7, <1>8

\* A quote begins a string.
LEMMA BeginStringStep == ASSUME IInv, BeginString PROVE IInv'
<1> USE DEF IInv
<1>0. /\ Ch \in {"dq", "bq"} /\ Occurs({"/", "dq", "bq", "sq"}) /\ pos \in 1..Len(source)
      /\ mode = "look"
  <2>1. Ch \in {"dq", "bq"} /\ Ch # "eof" /\ mode = "look"
    BY DEF BeginString, In
  <2> QED
    BY <2>1, AtCharacter, OccursHere
<1>1. Types'
  BY <1>0, AtCharacter DEF Types, BeginString, Goto, Take, file, Modes
<1>2. Locals'
  BY <1>0 DEF Types, Locals, BeginString, Goto, Take, Inside
<1>3. Order'
  BY <1>0, OrderStays DEF BeginString, Goto, Take, Types
<1>4. Wholes'
  BY WholesStays DEF BeginString, file
<1>5. Covered'
  BY <1>0, CoveredStays DEF BeginString, Goto, Take, file, Inside, Types
<1>6. Counted'
  BY <1>0, CountedInLiteral DEF BeginString, file
<1> QED
  BY <1>1, <1>2, <1>3, <1>4, <1>5, <1>6

\* A quote begins a rune.
LEMMA BeginRuneStep == ASSUME IInv, BeginRune PROVE IInv'
<1> USE DEF IInv
<1>0. /\ Ch = "sq" /\ Occurs({"/", "dq", "bq", "sq"}) /\ pos \in 1..Len(source)
      /\ mode = "look"
  <2>1. Ch = "sq" /\ Ch # "eof" /\ mode = "look"
    BY DEF BeginRune, In
  <2> QED
    BY <2>1, AtCharacter, OccursHere
<1>1. Types'
  BY <1>0, AtCharacter DEF Types, BeginRune, Goto, Take, file, Modes
<1>2. Locals'
  BY <1>0 DEF Types, Locals, BeginRune, Goto, Take, Inside
<1>3. Order'
  BY <1>0, OrderStays DEF BeginRune, Goto, Take, Types
<1>4. Wholes'
  BY WholesStays DEF BeginRune, file
<1>5. Covered'
  BY <1>0, CoveredStays DEF BeginRune, Goto, Take, file, Inside, Types
<1>6. Counted'
  BY <1>0, CountedInLiteral DEF BeginRune, file
<1> QED
  BY <1>1, <1>2, <1>3, <1>4, <1>5, <1>6

\* A string goes on, or ends at its quote.
LEMMA StringStep == ASSUME IInv, String PROVE IInv'
<1> USE DEF IInv
<1>0. /\ mode = "string" /\ pos \in 1..Len(source) /\ Len(source) \in Nat /\ pos' = pos + 1
      /\ from \in 1..pos /\ line = from_line /\ line \in 1..from /\ Ch = source[pos]
      /\ UNCHANGED <<source, text, closed, line, from, from_line, form, rune, depth>>
  BY AtCharacter DEF String, In, Locals, Types, Take, Inside, file, locals
<1>a. CASE Ch = form
  <2> DEFINE k == [type |-> "STRING", from |-> from, to |-> pos, line |-> line]
  <2>1. k \in Token
    BY <1>0 DEF Token, TokenTypes
  <2>2. Added(k) /\ mode' = "idle"
    BY <1>a DEF String, Return, Added
  <2>3. tokens' \in Seq(Token) /\ tokens' # <<>>
    BY <2>1, <2>2, Appended
  <2>4. Types'
    BY <1>0, <2>2, <2>3 DEF Types, Modes
  <2>5. Locals'
    BY <1>0, <2>2, <2>3 DEF Locals, Inside
  <2>6. Order'
    BY <1>0, <2>1, <2>2, OrderAdds DEF Order, Inside, Types
  <2>7. Wholes'
    BY <1>0, <2>1, <2>2, WholesAdds, OtherTokens
  <2>8. Covered'
    BY <1>0, <2>1, <2>2, CoveredAdds DEF Inside
  <2>9. Counted'
    BY <1>0, CountedInLiteral
  <2> QED
    BY <2>4, <2>5, <2>6, <2>7, <2>8, <2>9
<1>b. CASE Ch # form
  <2>1. UNCHANGED tokens /\ mode' = "string"
    BY <1>0, <1>b DEF String
  <2>2. Types'
    BY <1>0, <2>1 DEF Types
  <2>3. Locals'
    BY <1>0, <2>1 DEF Locals, Inside
  <2>4. Order'
    BY <1>0, <2>1, OrderStays DEF Inside
  <2>5. Wholes'
    BY <1>0, <2>1, WholesStays
  <2>6. Covered'
    BY <1>0, <2>1, CoveredInside DEF Inside
  <2>7. Counted'
    BY <1>0, CountedInLiteral
  <2> QED
    BY <2>2, <2>3, <2>4, <2>5, <2>6, <2>7
<1> QED
  BY <1>a, <1>b

\* A rune goes on, ends, or fails.
LEMMA RuneStep == ASSUME IInv, Rune PROVE IInv'
<1> USE DEF IInv
<1>0. /\ mode = "rune" /\ pos \in Nat /\ Len(source) \in Nat /\ from \in 1..pos
      /\ line = from_line /\ line \in 1..from
      /\ (Ch # "eof" => pos \in 1..Len(source))
      /\ UNCHANGED <<source, text, closed, line, from, from_line, form, depth>>
  BY AtCharacter DEF Rune, In, Locals, Types, Inside, file
<1>a. CASE mode' = "idle"
  <2> DEFINE k == [type |-> "CHAR", from |-> from, to |-> pos, line |-> line]
  <2>0. Added(k) /\ pos' = pos + 1 /\ Ch # "eof" /\ UNCHANGED rune
    BY <1>a, <1>0 DEF Rune, Return, Added, Take, Goto
  <2>1. k \in Token
    BY <1>0 DEF Token, TokenTypes
  <2>3. tokens' \in Seq(Token) /\ tokens' # <<>>
    BY <2>0, <2>1, Appended
  <2>4. Types'
    BY <1>0, <1>a, <2>0, <2>3 DEF Types, Modes
  <2>5. Locals'
    BY <1>0, <1>a, <2>0, <2>3 DEF Locals, Inside
  <2>6. Order'
    BY <1>0, <1>a, <2>0, <2>1, OrderAdds DEF Order, Inside, Types
  <2>7. Wholes'
    BY <1>0, <2>0, <2>1, WholesAdds, OtherTokens
  <2>8. Covered'
    BY <1>0, <1>a, <2>0, <2>1, CoveredAdds DEF Inside
  <2>9. Counted'
    BY <1>0, CountedInLiteral
  <2> QED
    BY <2>4, <2>5, <2>6, <2>7, <2>8, <2>9
<1>b. CASE mode' # "idle"
  <2>1. /\ UNCHANGED tokens /\ mode' \in {"rune", "escape", "failed"}
        /\ pos' \in {pos, pos + 1} /\ (pos' = pos + 1 => Ch # "eof")
        /\ DOMAIN rune' = DOMAIN rune /\ rune'.base = rune.base
    BY <1>0, <1>b DEF Rune, Return, Take, Goto, Locals
  <2>2. Types'
    BY <1>0, <2>1 DEF Types, Modes
  <2>3. Locals'
    BY <1>0, <2>1 DEF Locals, Inside
  <2>4. Order'
    BY <1>0, <2>1, OrderStays DEF Inside
  <2>5. Wholes'
    BY <1>0, <2>1, WholesStays
  <2>7. Covered'
    BY <1>0, <2>1, CoveredInside DEF Inside
  <2>8. Counted'
    BY <1>0, CountedInLiteral
  <2> QED
    BY <2>2, <2>3, <2>4, <2>5, <2>7, <2>8
<1> QED
  BY <1>a, <1>b

\* The character after a backslash.
LEMMA EscapeStep == ASSUME IInv, Escape PROVE IInv'
<1> USE DEF IInv
<1>0. /\ mode = "escape" /\ pos \in Nat /\ Len(source) \in Nat /\ from \in 1..pos
      /\ line = from_line /\ line \in 1..from
      /\ (Ch # "eof" => pos \in 1..Len(source))
      /\ UNCHANGED <<source, text, closed, line, from, from_line, form, depth, tokens>>
  BY AtCharacter DEF Escape, In, Locals, Types, Inside, file
<1>1. /\ mode' \in {"digits", "failed"}
      /\ pos' \in {pos, pos + 1} /\ (pos' = pos + 1 => Ch # "eof")
  BY <1>0 DEF Escape, Take, Goto, Simple
<1>2. DOMAIN rune' = {"n", "m", "base", "max", "x"} /\ rune'.base \in {8, 16}
  BY DEF Escape, Escaped, Locals
<1>3. Types'
  BY <1>0, <1>1 DEF Types, Modes
<1>4. Locals'
  BY <1>0, <1>1, <1>2 DEF Locals, Inside
<1>5. Order'
  BY <1>0, <1>1, OrderStays DEF Inside
<1>6. Wholes'
  BY <1>0, WholesStays
<1>7. Covered'
  BY <1>0, <1>1, CoveredInside DEF Inside
<1>8. Counted'
  BY <1>0, CountedInLiteral
<1> QED
  BY <1>3, <1>4, <1>5, <1>6, <1>7, <1>8

\* The digits of an escape change only m and x.
LEMMA RuneUpdated ==
  ASSUME NEW r, NEW a, NEW b, DOMAIN r = {"n", "m", "base", "max", "x"}
  PROVE  LET s == [r EXCEPT !.m = a, !.x = b] IN DOMAIN s = DOMAIN r /\ s.base = r.base
OBVIOUS

\* The digits of an escape: the end of the file is no digit.
LEMMA DigitsStep == ASSUME IInv, Digits PROVE IInv'
<1> USE DEF IInv
<1>0. /\ mode = "digits" /\ pos \in Nat /\ Len(source) \in Nat /\ from \in 1..pos
      /\ line = from_line /\ line \in 1..from
      /\ (Ch # "eof" => pos \in 1..Len(source))
      /\ UNCHANGED <<source, text, closed, line, from, from_line, form, depth, tokens>>
  BY AtCharacter DEF Digits, In, Locals, Types, Inside, file
<1>1. DigitValue("eof") = 16
  BY DEF DigitValue, Hex, Decimal
<1>2. \/ mode' \in {"rune", "failed"} /\ UNCHANGED <<pos, rune>>
      \/ /\ mode' = "digits" /\ pos' = pos + 1 /\ DigitValue(Ch) < rune.base
         /\ rune' = [rune EXCEPT !.m = rune.m - 1, !.x = rune.x * rune.base + DigitValue(Ch)]
  BY <1>0 DEF Digits, Take, Goto
<1>3. DOMAIN rune' = {"n", "m", "base", "max", "x"} /\ rune'.base \in {8, 16}
  BY <1>2, RuneUpdated DEF Locals
<1>4. Ch = "eof" => ~(DigitValue(Ch) < rune.base)
  BY <1>1 DEF Locals
<1>5. /\ mode' \in {"digits", "rune", "failed"}
      /\ pos' \in {pos, pos + 1} /\ (pos' = pos + 1 => Ch # "eof")
  BY <1>0, <1>2, <1>4
<1>7. mode \in Inside /\ (mode' # "failed" => mode' \in Inside) /\ from' = from
  BY <1>0, <1>5 DEF Inside
<1>8. Types'
  BY <1>0, <1>5 DEF Types, Modes
<1>9. Locals'
  BY <1>0, <1>3, <1>5 DEF Locals, Inside
<1>10. Order'
  BY <1>0, <1>5, <1>7, OrderStays DEF Inside
<1>11. Wholes'
  BY <1>0, WholesStays
<1>12. Covered'
  BY <1>0, <1>5, CoveredInside DEF Inside
<1>13. Counted'
  BY <1>0, CountedInLiteral
<1> QED
  BY <1>8, <1>9, <1>10, <1>11, <1>12, <1>13

\* A digit begins a number.
LEMMA BeginNumberStep == ASSUME IInv, BeginNumber PROVE IInv'
<1> USE DEF IInv
<1>0. /\ mode = "look" /\ mode' = "number" /\ pos \in 1..Len(source) /\ Len(source) \in Nat
      /\ pos' = pos + 1 /\ source[pos] \notin LineBreaks
      /\ from' = pos /\ from_line' = line /\ line \in 1..pos
      /\ UNCHANGED <<source, text, closed, line, rune, depth, tokens>>
  <2>1. Ch \in Decimal /\ Decimal \cap (LineBreaks \cup {"eof"}) = {}
    BY DEF BeginNumber, Decimal, LineBreaks
  <2> QED
    BY <2>1, AtCharacter DEF BeginNumber, In, Take, Goto, file, Types
<1>1. form' \in Forms
  BY DEF BeginNumber, Forms
<1>2. Types'
  BY <1>0 DEF Types, Modes
<1>3. Locals'
  BY <1>0, <1>1 DEF Locals, Inside
<1>4. Order'
  BY <1>0, OrderStays
<1>5. Wholes'
  BY <1>0, WholesStays
<1>6. Covered'
  BY <1>0, CoveredStays DEF Inside
<1>7. Counted'
  BY <1>0, CountedStays
<1> QED
  BY <1>2, <1>3, <1>4, <1>5, <1>6, <1>7

\* What goes on with a number is no white space.
IsArm(arm) == arm[1] \cap (Trivial \cup {"eof"}) = {} /\ arm[2] \in Forms

LEMMA ArmFacts == \A f \in Forms : \A arm \in Arms[f] : IsArm(arm)
<1>1. \A f \in DOMAIN AfterZero : \A arm \in AfterZero[f] : IsArm(arm)
  BY DEF AfterZero, Hex, Octal, Decimal, Forms, Trivial, LineBreaks, IsArm
<1>2. \A f \in DOMAIN AfterDigit : \A arm \in AfterDigit[f] : IsArm(arm)
  BY DEF AfterDigit, Decimal, Forms, Trivial, LineBreaks, IsArm
<1>3. \A f \in DOMAIN Exponent : \A arm \in Exponent[f] : IsArm(arm)
  BY DEF Exponent, Decimal, Forms, Trivial, LineBreaks, IsArm
<1>4. \A f \in Forms : f \in DOMAIN AfterZero \/ f \in DOMAIN AfterDigit \/ f \in DOMAIN Exponent
  BY DEF Forms, AfterZero, AfterDigit, Exponent
<1> QED
  BY <1>1, <1>2, <1>3, <1>4 DEF Arms

\* A number goes on, ends, or fails after an exponent sign.
LEMMA NumberStep == ASSUME IInv, Number PROVE IInv'
<1> USE DEF IInv
<1>0. /\ mode = "number" /\ pos \in Nat /\ Len(source) \in Nat /\ from \in 1..pos
      /\ line = from_line /\ line \in 1..from /\ form \in Forms
      /\ (Ch # "eof" => pos \in 1..Len(source) /\ Ch = source[pos])
      /\ UNCHANGED <<source, text, closed, line, from, from_line, rune, depth>>
  BY AtCharacter DEF Number, In, Locals, Types, Inside, file
<1>a. CASE \E arm \in Arms[form] : /\ Ch \in arm[1] /\ form' = arm[2] /\ pos' = pos + 1
                                   /\ UNCHANGED <<mode, tokens>>
  <2>1. /\ pos' = pos + 1 /\ UNCHANGED <<mode, tokens>> /\ form' \in Forms
        /\ Ch \notin Trivial \cup {"eof"}
    BY <1>0, <1>a, ArmFacts DEF IsArm
  <2>2. Types'
    BY <1>0, <2>1 DEF Types
  <2>3. Locals'
    BY <1>0, <2>1 DEF Locals, Inside
  <2>4. Order'
    BY <1>0, <2>1, OrderStays DEF Inside
  <2>5. Wholes'
    BY <1>0, <2>1, WholesStays
  <2>6. Covered'
    BY <1>0, <2>1, CoveredInside DEF Inside
  <2>7. Counted'
    BY <1>0, <2>1, CountedStays DEF Inside, Trivial
  <2> QED
    BY <2>2, <2>3, <2>4, <2>5, <2>6, <2>7
<1>b. CASE mode' = "failed" /\ UNCHANGED <<pos, form, tokens>>
  <2>1. Types'
    BY <1>0, <1>b DEF Types, Modes
  <2>2. Locals'
    BY <1>0, <1>b DEF Locals, Inside
  <2>3. Order'
    BY <1>0, <1>b, OrderStays DEF Inside
  <2>4. Wholes'
    BY <1>0, <1>b, WholesStays
  <2>5. Covered'
    BY <1>0, <1>b, CoveredInside DEF Inside
  <2>6. Counted'
    BY <1>0, <1>b, CountedStays DEF Inside
  <2> QED
    BY <2>1, <2>2, <2>3, <2>4, <2>5, <2>6
<1>c. CASE Return("NUMBER", from, pos - 1, line) /\ UNCHANGED <<pos, form>>
  <2> DEFINE k == [type |-> "NUMBER", from |-> from, to |-> pos - 1, line |-> line]
  <2>0. Added(k) /\ mode' = "idle" /\ UNCHANGED pos
    BY <1>c DEF Return, Added
  <2>1. k \in Token
    BY <1>0 DEF Token, TokenTypes
  <2>3. tokens' \in Seq(Token) /\ tokens' # <<>>
    BY <2>0, <2>1, Appended
  <2>4. Types'
    BY <1>0, <2>0, <2>3 DEF Types, Modes
  <2>5. Locals'
    BY <1>0, <2>0, <2>3 DEF Locals, Inside
  <2>6. Order'
    BY <1>0, <2>0, <2>1, OrderAdds DEF Order, Inside, Types
  <2>7. Wholes'
    BY <1>0, <2>0, <2>1, WholesAdds, OtherTokens
  <2>8. Covered'
    BY <1>0, <2>0, <2>1, CoveredAdds DEF Inside
  <2>9. Counted'
    BY <1>0, <2>0, <2>1, CountedAdds DEF Inside, Counted
  <2> QED
    BY <2>4, <2>5, <2>6, <2>7, <2>8, <2>9
<1> QED
  BY <1>a, <1>b, <1>c DEF Number, Take

\* A letter begins a word.
LEMMA BeginWordStep == ASSUME IInv, BeginWord PROVE IInv'
<1> USE DEF IInv
<1>0. /\ mode = "look" /\ mode' = "word" /\ pos \in 1..Len(source) /\ Len(source) \in Nat
      /\ from' = pos /\ from_line' = line /\ line \in 1..pos
      /\ UNCHANGED <<source, text, closed, pos, line, form, rune, depth, tokens>>
  <2>1. Ch \in Letters /\ "eof" \notin Letters
    BY DEF BeginWord, Letters, Hex, Decimal
  <2> QED
    BY <2>1, AtCharacter DEF BeginWord, In, Goto, file, Types
<1>1. Types'
  BY <1>0 DEF Types, Modes
<1>2. Locals'
  BY <1>0 DEF Locals, Inside
<1>3. Order'
  BY <1>0, OrderStays
<1>4. Wholes'
  BY <1>0, WholesStays
<1>5. Covered'
  BY <1>0, CoveredStays DEF Inside
<1>6. Counted'
  BY <1>0, CountedStays
<1> QED
  BY <1>1, <1>2, <1>3, <1>4, <1>5, <1>6

\* A word goes on, or ends as a keyword or an identifier.
LEMMA WordStep == ASSUME IInv, Word PROVE IInv'
<1> USE DEF IInv
<1>0. /\ mode = "word" /\ pos \in Nat /\ Len(source) \in Nat /\ from \in 1..pos
      /\ line = from_line /\ line \in 1..from
      /\ (Ch # "eof" => pos \in 1..Len(source) /\ Ch = source[pos])
      /\ UNCHANGED <<source, text, closed, line, from, from_line, form, rune, depth>>
  BY AtCharacter DEF Word, In, Locals, Types, Inside, file, locals
<1>a. CASE Ch \in Letters \cup Decimal /\ pos' = pos + 1 /\ UNCHANGED <<mode, tokens>>
  <2>1. Ch \notin Trivial \cup {"eof"}
    BY <1>a DEF Letters, Decimal, Hex, Trivial, LineBreaks
  <2>2. Types'
    BY <1>0, <1>a, <2>1 DEF Types
  <2>3. Locals'
    BY <1>0, <1>a, <2>1 DEF Locals, Inside
  <2>4. Order'
    BY <1>0, <1>a, OrderStays DEF Inside
  <2>5. Wholes'
    BY <1>0, <1>a, WholesStays
  <2>6. Covered'
    BY <1>0, <1>a, CoveredInside DEF Inside
  <2>7. Counted'
    BY <1>0, <1>a, <2>1, CountedStays DEF Inside, Trivial
  <2> QED
    BY <2>2, <2>3, <2>4, <2>5, <2>6, <2>7
<1>b. CASE \E w \in {"keyword", "ID"} : Return(w, from, pos - 1, line) /\ UNCHANGED pos
  <2>a. PICK w \in {"keyword", "ID"} : Return(w, from, pos - 1, line) /\ UNCHANGED pos
    BY <1>b
  <2> DEFINE k == [type |-> w, from |-> from, to |-> pos - 1, line |-> line]
  <2>0. Added(k) /\ mode' = "idle" /\ UNCHANGED pos
    BY <2>a DEF Return, Added
  <2>1. k \in Token
    BY <1>0 DEF Token, TokenTypes
  <2>3. tokens' \in Seq(Token) /\ tokens' # <<>>
    BY <2>0, <2>1, Appended
  <2>4. Types'
    BY <1>0, <2>0, <2>3 DEF Types, Modes
  <2>5. Locals'
    BY <1>0, <2>0, <2>3 DEF Locals, Inside
  <2>6. Order'
    BY <1>0, <2>0, <2>1, OrderAdds DEF Order, Inside, Types
  <2>7. Wholes'
    BY <1>0, <2>0, <2>1, WholesAdds, OtherTokens
  <2>8. Covered'
    BY <1>0, <2>0, <2>1, CoveredAdds DEF Inside
  <2>9. Counted'
    BY <1>0, <2>0, <2>1, CountedAdds DEF Inside, Counted
  <2> QED
    BY <2>4, <2>5, <2>6, <2>7, <2>8, <2>9
<1> QED
  BY <1>a, <1>b DEF Word, Take

\* No token begins with the character.
LEMMA UnknownStep == ASSUME IInv, Unknown PROVE IInv'
<1> USE DEF IInv
<1>0. /\ mode = "look" /\ mode' = "failed"
      /\ UNCHANGED <<source, text, closed, pos, line, locals, tokens>>
  BY DEF Unknown, In, Goto, file
<1>1. Types'
  BY <1>0 DEF Types, Modes, locals
<1>2. Locals'
  BY <1>0 DEF Locals, Inside, locals
<1>3. Order'
  BY <1>0, OrderStays DEF Inside, Types
<1>4. Wholes'
  BY <1>0, WholesStays
<1>5. Covered'
  BY <1>0, CoveredStays DEF Types
<1>6. Counted'
  BY <1>0, CountedStays DEF Inside
<1> QED
  BY <1>1, <1>2, <1>3, <1>4, <1>5, <1>6

\* A token of one character.
LEMMA SingleStep == ASSUME IInv, Single PROVE IInv'
<1> USE DEF IInv
<1> DEFINE k == [type |-> Ch, from |-> pos, to |-> pos, line |-> line]
<1>0. /\ mode = "look" /\ mode' = "idle" /\ pos \in 1..Len(source) /\ Len(source) \in Nat
      /\ pos' = pos + 1 /\ Added(k) /\ line \in 1..pos
      /\ source[pos] \notin LineBreaks /\ Ch \in Alone \cup Bits /\ Ch \notin Operators
      /\ UNCHANGED <<source, text, closed, line, locals>>
  <2>1. Ch \in Alone \cup Bits /\ Ch # "eof" /\ Ch \notin Trivial /\ Ch \notin Operators
    BY OtherTokens, Zenon DEF Single
  <2>2. LineBreaks \subseteq Trivial
    BY DEF Trivial
  <2>3. pos \in 1..Len(source) /\ Ch = source[pos] /\ Len(source) \in Nat
    BY <2>1, AtCharacter
  <2>4. "EOF" \notin Alone \cup Bits
    BY Zenon DEF Alone, Bits
  <2>5. Ch # "EOF"
    BY <2>1, <2>4, Zenon
  <2>6. mode = "look" /\ pos' = pos + 1 /\ UNCHANGED <<source, text, closed, line, locals>>
    BY Zenon DEF Single, In, Take, file
  <2>7. Return(Ch, pos, pos, line)
    BY Zenon DEF Single
  <2>8. Added(k) /\ mode' = "idle"
    BY <2>5, <2>7, Zenon DEF Return, Added
  <2>9. line \in 1..pos
    BY DEF Types
  <2>10. source[pos] \notin LineBreaks
    BY <2>1, <2>2, <2>3, Zenon
  <2> QED
    BY <2>1, <2>3, <2>6, <2>8, <2>9, <2>10, Zenon
<1>1. k \in Token
  BY <1>0 DEF Token, TokenTypes
<1>2. tokens' \in Seq(Token) /\ tokens' # <<>>
  BY <1>0, <1>1, Appended
<1>3. Types'
  BY <1>0, <1>2 DEF Types, Modes, locals
<1>4. Locals'
  BY <1>0, <1>2 DEF Locals, Inside, locals
<1>5. Order'
  BY <1>0, <1>1, OrderAdds DEF Order, Inside
<1>6. Wholes'
  BY <1>0, <1>1, WholesAdds
<1>7. Covered'
  BY <1>0, <1>1, CoveredAdds DEF Inside
<1>8. Counted'
  BY <1>0, <1>1, CountedAdds DEF Counted
<1> QED
  BY <1>3, <1>4, <1>5, <1>6, <1>7, <1>8

\* The end of the file, which may lose the operator before it.
LEMMA EndOfFileStep == ASSUME IInv, EndOfFile PROVE IInv'
<1> USE DEF IInv
<1> DEFINE k == [type |-> "EOF", from |-> pos, to |-> pos - 1, line |-> line]
<1>0. /\ mode \in {"look", "operator"} /\ mode' = "done" /\ pos \in Nat /\ pos >= 1
      /\ Len(source) \in Nat /\ pos <= Len(source) + 1
      /\ Added(k) /\ line \in 1..pos
      /\ UNCHANGED <<source, text, closed, pos, line, locals>>
  BY DEF EndOfFile, In, Return, Added, file, Types
<1>1. k \in Token
  BY <1>0 DEF Token, TokenTypes
<1>2. tokens' \in Seq(Token) /\ tokens' # <<>>
  BY <1>0, <1>1, Appended
<1>3. Types'
  BY <1>0, <1>2 DEF Types, Modes, locals
<1>4. Locals'
  BY <1>0, <1>2 DEF Locals, Inside, locals
<1>5. Order'
  BY <1>0, <1>1, OrderAdds DEF Order, Inside
<1>6. Wholes'
  BY <1>0, <1>1, WholesAdds, OtherTokens
<1>7. Covered'
  <2>1. CASE mode = "look"
    BY <1>0, <1>1, <2>1, CoveredAdds DEF Inside
  <2>2. CASE mode = "operator"
    <3>1. LastToken'.type = "EOF"
      BY <1>0, <1>1, Appended DEF LastToken
    <3>2. form \in Operators /\ LooksOn(form) /\ Spells(source, from, pos - 1, Spelling[form])
      BY <2>2 DEF Locals
    <3>3. LostAtEnd'
      BY <1>0, <1>2, <3>1, <3>2 DEF LostAtEnd, locals
    <3>4. Taken \subseteq Taken'
      BY <1>0, <1>1, Appended DEF Taken
    <3>5. ~LostAtEnd
      BY <2>2 DEF LostAtEnd
    <3> SUFFICES ASSUME ~Occurs({"/"}), NEW p \in 1..pos - 1
                 PROVE  source[p] \in Trivial \/ p \in Taken \/ p >= from
      BY <1>0, <3>3, <3>4 DEF Covered, Occurs, locals
    <3> QED
      BY <2>2, <3>5 DEF Covered
  <2> QED
    BY <1>0, <2>1, <2>2
<1>8. Counted'
  BY <1>0, <1>1, CountedAdds DEF Counted
<1> QED
  BY <1>3, <1>4, <1>5, <1>6, <1>7, <1>8
-----------------------------------------------------------------------------
\* The first character spells itself.
LEMMA SpellsOne ==
  ASSUME NEW s, NEW a \in Nat \ {0}, s[a] \notin Trivial
  PROVE  Spells(s, a, a, <<s[a]>>)
<1>1. (a - 1) \in Int /\ a <= (a - 1) + 1 /\ (a - 1) + 1 = a
  OBVIOUS
<1>2. Solid(s, a, a - 1) = {} /\ Rank(s, a, a - 1) = 0
  BY NothingSolid
<1>3. Solid(s, a, a) = {a} /\ Rank(s, a, a) = 1
  BY <1>1, <1>2, SolidNext
<1> QED
  BY <1>3 DEF Spells

\* White space changes nothing that is spelled.
LEMMA SpellsOver ==
  ASSUME NEW s, NEW a \in Nat \ {0}, NEW b \in Nat, a <= b, NEW w, Spells(s, a, b, w),
         s[b + 1] \in Trivial
  PROVE  Spells(s, a, b + 1, w)
<1>1. Solid(s, a, b + 1) = Solid(s, a, b) /\ Rank(s, a, b + 1) = Rank(s, a, b)
  BY SolidNext
<1> QED
  BY <1>1 DEF Spells

\* The next character that is no white space adds itself.
LEMMA SpellsMore ==
  ASSUME NEW s, NEW a \in Nat \ {0}, NEW b \in Nat, a <= b, s[b + 1] \notin Trivial,
         NEW n \in Nat, NEW v, NEW w, Spells(s, a, b, v), Len(v) = n, Len(w) = n + 1,
         \A i \in 1..n : w[i] = v[i], w[n + 1] = s[b + 1]
  PROVE  Spells(s, a, b + 1, w)
<1>1. Solid(s, a, b + 1) = Solid(s, a, b) \cup {b + 1} /\ Rank(s, a, b + 1) = n + 1
  BY SolidNext DEF Spells
<1>2. ASSUME NEW p \in Solid(s, a, b) PROVE w[Rank(s, a, p)] = s[p]
  <2>1. p \in a..b /\ p \in Solid(s, a, p)
    BY DEF Solid
  <2>2. Rank(s, a, p) \in Nat /\ Rank(s, a, p) <= n
    BY <2>1, SolidGrows, SolidIsFinite DEF Spells
  <2>3. IsFiniteSet(Solid(s, a, p)) /\ Rank(s, a, p) # 0
    BY <2>1, SolidIsFinite, FS_EmptySet DEF Rank
  <2>4. Rank(s, a, p) \in 1..n
    BY <2>2, <2>3
  <2> QED
    BY <2>4 DEF Spells
<1> QED
  BY <1>1, <1>2 DEF Spells

\* The first character of an operator.
LEMMA BeginOperatorStep == ASSUME IInv, BeginOperator PROVE IInv'
<1> USE DEF IInv
<1>0. /\ mode = "look" /\ mode' = "operator" /\ pos \in 1..Len(source) /\ Len(source) \in Nat
      /\ pos' = pos + 1 /\ source[pos] \notin Trivial
      /\ from' = pos /\ from_line' = line /\ line \in 1..pos
      /\ form' \in Operators /\ LooksOn(form') /\ Spelling[form'] = <<source[pos]>>
      /\ UNCHANGED <<source, text, closed, line, rune, depth, tokens>>
  <2>1. Ch \in Characters /\ form' = Ch
    BY DEF BeginOperator
  <2>2. Ch \in Operators /\ Spelling[Ch] = <<Ch>> /\ LooksOn(Ch) /\ Ch \notin Trivial \cup {"eof"}
    BY <2>1, CharactersFacts
  <2> QED
    BY <2>1, <2>2, AtCharacter DEF BeginOperator, In, Take, Goto, file, Types
<1>1. Types'
  BY <1>0 DEF Types, Modes
<1>2. Locals'
  <2>1. Spells(source, pos, pos, <<source[pos]>>)
    BY <1>0, SpellsOne
  <2> QED
    BY <1>0, <2>1 DEF Locals, Inside
<1>3. Order'
  BY <1>0, OrderStays
<1>4. Wholes'
  BY <1>0, WholesStays
<1>5. Covered'
  BY <1>0, CoveredStays DEF Inside
<1>6. Counted'
  BY <1>0, CountedStays DEF Trivial
<1> QED
  BY <1>1, <1>2, <1>3, <1>4, <1>5, <1>6

\* An extension has the same characters and one more.
LEMMA ExtensionIs ==
  ASSUME NEW t \in Operators, NEW u \in Extensions(t)
  PROVE  /\ u \in Operators
         /\ \E n \in 1..3 : /\ Len(Spelling[t]) = n /\ Len(Spelling[u]) = n + 1
                            /\ \A i \in 1..n : Spelling[u][i] = Spelling[t][i]
BY Sizes DEF Extensions, StartsWith

\* Steps that return an operator.
LEMMA ReturnsOperator ==
  ASSUME IInv, mode = "operator", NEW t \in Operators, NEW b \in Nat,
         Return(t, from, b, from_line), Whole(source, from, b, t), b = pos' - 1,
         pos' = pos \/ (pos' = pos + 1 /\ source[pos] \notin Trivial),
         UNCHANGED <<source, text, closed, line, from, from_line, rune, depth>>
  PROVE  IInv'
<1> USE DEF IInv
<1> DEFINE k == [type |-> t, from |-> from, to |-> b, line |-> from_line]
<1>0. /\ pos \in Nat /\ Len(source) \in Nat /\ from \in 1..pos /\ pos' \in Nat /\ pos' >= pos
      /\ from_line \in 1..from /\ b \in from..Len(source) /\ line \in 1..pos
      /\ from >= 1 /\ from <= pos /\ b < pos' /\ from <= b + 1
      /\ \A p \in from..pos' - 1 : p <= b
  BY DEF Locals, Types, Inside, Whole
<1>1. t # "EOF"
  BY OtherTokens, Zenon
<1>2. Added(k) /\ mode' = "idle"
  BY <1>1, Zenon DEF Return, Added
<1>3. k \in Token
  <2>1. t \in TokenTypes
    BY Zenon DEF TokenTypes
  <2>2. from \in Nat /\ from_line \in Nat
    BY <1>0
  <2> QED
    BY <2>1, <2>2, Zenon DEF Token
<1>4. tokens' \in Seq(Token) /\ tokens' # <<>>
  BY <1>2, <1>3, Appended
<1>5. Types'
  BY <1>0, <1>2, <1>4 DEF Types, Modes
<1>6. Locals'
  BY <1>0, <1>2, <1>4 DEF Locals, Inside
<1>7. Order'
  <2>1. mode' \notin Inside
    BY <1>2 DEF Inside
  <2>2. \A i \in DOMAIN tokens : tokens[i].to < k.from
    BY Zenon DEF Order, Inside
  <2>3. k.from >= 1 /\ k.line \in 1..k.from /\ k.to < pos' /\ k.from <= k.to + 1
    BY <1>0, Zenon
  <2> QED
    BY <1>0, <1>2, <1>3, <2>1, <2>2, <2>3, OrderAdds
<1>8. OperatorToken(source, k)
  BY DEF OperatorToken
<1>9. Wholes'
  BY <1>0, <1>2, <1>3, <1>8, WholesAdds
<1>10. Covered'
  <2>1. mode \in Inside /\ mode \notin {"failed", "done"} /\ mode' \in {"idle", "done"}
    BY <1>2 DEF Inside
  <2>2. k.from = from /\ k.from <= pos /\ \A p \in k.from..pos' - 1 : p <= k.to
    BY <1>0, Zenon
  <2> QED
    BY <1>0, <1>2, <1>3, <2>1, <2>2, CoveredAdds
<1>11. Counted'
  <2>1. LineBreaks \subseteq Trivial
    BY DEF Trivial
  <2>2. pos' = pos \/ (pos' = pos + 1 /\ pos <= Len(source) /\ source[pos] \notin LineBreaks)
    BY <1>0, <2>1
  <2>3. ~Occurs({"/", "dq", "bq", "sq"}) => k.line = 1 + Breaks(source, 1, k.from - 1)
    BY DEF Counted, Inside
  <2> QED
    BY <1>2, <1>3, <2>2, <2>3, CountedAdds
<1> QED
  BY <1>5, <1>6, <1>7, <1>9, <1>10, <1>11

\* An operator grows, or is returned because nothing more fits.
LEMMA GoOnOperatorStep == ASSUME IInv, GoOnOperator PROVE IInv'
<1> USE DEF IInv
<1>0. /\ mode = "operator" /\ pos \in 1..Len(source) /\ Len(source) \in Nat
      /\ Ch = source[pos] /\ source[pos] \notin Trivial
      /\ from \in 1..pos - 1 /\ line \in 1..pos /\ from_line \in 1..from
      /\ form \in Operators /\ source[from] \notin Trivial
      /\ Spells(source, from, pos - 1, Spelling[form])
      /\ UNCHANGED <<source, text, closed, line, from, from_line, rune, depth>>
  <2>1. Ch # "eof" /\ mode = "operator" /\ Ch \notin Trivial
    BY DEF GoOnOperator, In
  <2> QED
    BY <2>1, AtCharacter DEF GoOnOperator, Locals, Types, Inside, file
<1>a. ASSUME NEW u \in Extensions(form), Spelling[u][Len(Spelling[u])] = Ch, pos' = pos + 1,
             form' = u,
             IF LooksOn(u) THEN mode' = mode /\ UNCHANGED tokens
             ELSE Return(u, from, pos, from_line)
      PROVE  IInv'
  <2>1. PICK n \in 1..3 : /\ Len(Spelling[form]) = n /\ Len(Spelling[u]) = n + 1
                          /\ \A i \in 1..n : Spelling[u][i] = Spelling[form][i]
    BY <1>0, ExtensionIs
  <2>2. u \in Operators
    BY <1>0, ExtensionIs
  <2>3. Spells(source, from, pos, Spelling[u])
    <3>1. pos - 1 \in Nat /\ from <= pos - 1 /\ (pos - 1) + 1 = pos /\ from \in Nat \ {0} /\ n \in Nat
      BY <1>0
    <3>2. Spelling[u][n + 1] = source[pos]
      BY <1>0, <1>a, <2>1
    <3> QED
      BY <1>0, <2>1, <3>1, <3>2, SpellsMore
  <2>a. CASE LooksOn(u)
    <3>0. mode' = "operator" /\ UNCHANGED tokens
      BY <1>0, <1>a, <2>a
    <3>1. Types'
      BY <1>0, <1>a, <3>0 DEF Types
    <3>2. Locals'
      BY <1>0, <1>a, <2>a, <2>2, <2>3, <3>0 DEF Locals, Inside
    <3>3. Order'
      BY <1>0, <1>a, <3>0, OrderStays DEF Inside
    <3>4. Wholes'
      BY <1>0, <3>0, WholesStays
    <3>5. Covered'
      BY <1>0, <1>a, <3>0, CoveredInside DEF Inside
    <3>6. Counted'
      BY <1>0, <1>a, <3>0, CountedStays DEF Inside, Trivial
    <3> QED
      BY <3>1, <3>2, <3>3, <3>4, <3>5, <3>6
  <2>b. CASE ~LooksOn(u)
    <3>1. Return(u, from, pos, from_line)
      BY <1>a, <2>b
    <3>2. Extensions(u) = {}
      BY <2>b DEF LooksOn
    <3>3. Whole(source, from, pos, u)
      BY <1>0, <2>2, <2>3, <3>2 DEF Whole, Stops
    <3> QED
      BY <1>0, <1>a, <2>2, <3>1, <3>3, ReturnsOperator
  <2> QED
    BY <2>a, <2>b
<1>b. ASSUME \A u \in Extensions(form) : Spelling[u][Len(Spelling[u])] # Ch,
             Return(form, from, pos - 1, from_line), UNCHANGED <<pos, form>>
      PROVE  IInv'
  <2>1. NextSolid(source, pos - 1, pos) /\ pos \in (pos - 1) + 1..Len(source)
    BY <1>0 DEF NextSolid
  <2>2. Stops(source, pos - 1, form)
    BY <1>0, <1>b, <2>1, Zenon DEF Stops
  <2>3. Whole(source, from, pos - 1, form)
    BY <1>0, <2>2 DEF Whole
  <2>4. pos - 1 \in Nat
    BY <1>0
  <2> QED
    BY <1>0, <1>b, <2>3, <2>4, ReturnsOperator
<1> QED
  BY <1>a, <1>b, Zenon DEF GoOnOperator, Take

\* White space, "cr" and "nl" at once, alone or inside an operator.
LEMMA SkipTrivialStep == ASSUME IInv, SkipTrivial PROVE IInv'
<1> USE DEF IInv
<1>0. /\ mode \in {"look", "operator"} /\ pos \in 1..Len(source) /\ Len(source) \in Nat
      /\ source[pos] \in Trivial /\ line \in 1..pos
      /\ line' = (IF source[pos] \in LineBreaks THEN line + 1 ELSE line)
      /\ UNCHANGED <<source, text, closed, mode, tokens>> /\ UNCHANGED locals
      /\ \/ /\ pos' = pos + 2 /\ source[pos] = "cr" /\ source[pos + 1] = "nl"
            /\ pos + 1 \in 1..Len(source)
         \/ /\ pos' = pos + 1
            /\ source[pos] = "cr" => \/ closed /\ pos = Len(source)
                                     \/ pos + 1 <= Len(source) /\ source[pos + 1] # "nl"
  <2>1. Ch \in Trivial /\ Ch # "eof" /\ mode \in {"look", "operator"} /\ Known
    BY DEF SkipTrivial, In, Trivial, LineBreaks
  <2>2. pos \in 1..Len(source) /\ Len(source) \in Nat /\ Ch = source[pos]
    BY <2>1, AtCharacter
  <2>3. Ch = "cr" => closed \/ Len(source) >= pos + 1
    BY <2>1 DEF Known
  <2>4. Len(source) >= pos + 1 => Peek = source[pos + 1]
    BY <2>2 DEF Peek
  <2>5. Peek = "nl" => pos + 1 \in 1..Len(source) /\ source[pos + 1] = "nl"
    BY AtCharacter
  <2>6. /\ line' = (IF Ch \in LineBreaks THEN line + 1 ELSE line)
        /\ UNCHANGED <<source, text, closed, mode, tokens>> /\ UNCHANGED locals
        /\ pos' = (IF Ch = "cr" /\ Peek = "nl" THEN pos + 2 ELSE pos + 1)
    BY DEF SkipTrivial, Take, file
  <2>7. line \in 1..pos
    BY DEF Types
  <2>8. CASE Ch = "cr" /\ Peek = "nl"
    BY <2>1, <2>2, <2>5, <2>6, <2>7, <2>8
  <2>9. CASE ~(Ch = "cr" /\ Peek = "nl")
    <3>1. pos' = pos + 1
      BY <2>6, <2>9
    <3>2. Ch = "cr" => \/ closed /\ pos = Len(source)
                       \/ pos + 1 <= Len(source) /\ source[pos + 1] # "nl"
      BY <2>2, <2>3, <2>4, <2>9
    <3> QED
      BY <2>1, <2>2, <2>6, <2>7, <3>1, <3>2
  <2> QED
    BY <2>8, <2>9
<1>1. pos' \in Nat /\ pos' >= pos /\ pos' <= Len(source) + 1 /\ pos' >= 1
  BY <1>0
<1>2. \A p \in pos..pos' - 1 : source[p] \in Trivial
  <2>1. "nl" \in Trivial
    BY DEF Trivial, LineBreaks
  <2> QED
    BY <1>0, <2>1
<1>3. Types'
  BY <1>0 DEF Types, locals
<1>4. Locals'
  <2>1. CASE mode = "look"
    BY <1>0, <2>1 DEF Locals, Inside, locals
  <2>2. CASE mode = "operator"
    <3>1. /\ pos \in Nat /\ from \in Nat \ {0} /\ from <= pos - 1 /\ pos - 1 \in Nat /\ (pos - 1) + 1 = pos
          /\ Spells(source, from, pos - 1, Spelling[form])
      BY <2>2 DEF Locals, Types
    <3>2. Spells(source, from, pos, Spelling[form])
      BY <1>0, <3>1, SpellsOver
    <3>3. CASE pos' = pos + 1
      <4>1. pos' - 1 = pos /\ from < pos' /\ from <= pos'
        BY <3>1, <3>3
      <4>2. Spells(source, from, pos' - 1, Spelling[form])
        BY <3>2, <4>1
      <4> QED
        BY <1>0, <2>2, <4>1, <4>2 DEF Locals, Inside, locals
    <3>4. CASE pos' = pos + 2
      <4>1. pos' - 1 = pos + 1 /\ from < pos' /\ from <= pos' /\ from <= pos /\ source[pos + 1] \in Trivial
        BY <1>0, <1>2, <3>1, <3>4
      <4>2. Spells(source, from, pos + 1, Spelling[form])
        BY <3>1, <3>2, <4>1, SpellsOver
      <4>3. Spells(source, from, pos' - 1, Spelling[form])
        BY <4>1, <4>2
      <4> QED
        BY <1>0, <2>2, <4>1, <4>3 DEF Locals, Inside, locals
    <3> QED
      BY <1>0, <3>3, <3>4
  <2> QED
    BY <1>0, <2>1, <2>2
<1>5. Order'
  BY <1>0, <1>1, OrderStays DEF locals
<1>6. Wholes'
  BY <1>0, WholesStays
<1>7. Covered'
  BY <1>0, <1>1, <1>2, CoveredStays DEF locals
<1>8. Counted'
  <2> SUFFICES ASSUME ~Occurs({"/", "dq", "bq", "sq"})
               PROVE  Counted'
    BY <1>0 DEF Counted, Occurs
  <2>0. /\ line = 1 + Breaks(source, 1, pos - 1)
        /\ pos > 1 /\ source[pos - 1] = "cr" => source[pos] # "nl"
        /\ pos \in Int /\ 1 <= pos /\ (pos + 1) - 1 = pos /\ pos + 1 \in Int /\ 1 <= pos + 1
        /\ Breaks(source, 1, pos - 1) \in Nat
    BY <1>0, BreaksFinite DEF Counted
  <2>1. Breaks(source, 1, pos) = Breaks(source, 1, pos - 1) + (IF source[pos] \in LineBreaks THEN 1 ELSE 0)
    BY <2>0, BreaksNext DEF BreakAt
  <2>2. line' = 1 + Breaks(source', 1, pos' - 1)
    <3>1. CASE pos' = pos + 1
      BY <1>0, <2>0, <2>1, <3>1
    <3>2. CASE pos' = pos + 2
      <4>1. ~BreakAt(source, pos + 1) /\ source[pos] \in LineBreaks
        BY <1>0, <3>2 DEF BreakAt, LineBreaks
      <4>2. Breaks(source, 1, pos + 1) = Breaks(source, 1, pos)
        <5>1. Breaks(source, 1, pos) \in Nat
          BY <2>0, BreaksFinite
        <5>2. Breaks(source, 1, pos + 1) = Breaks(source, 1, (pos + 1) - 1) + 0
          BY <2>0, <4>1, BreaksNext
        <5> QED
          BY <2>0, <5>1, <5>2
      <4>3. pos' - 1 = pos + 1
        BY <3>2, <2>0
      <4> QED
        BY <1>0, <2>0, <2>1, <4>1, <4>2, <4>3
    <3> QED
      BY <1>0, <3>1, <3>2
  <2>3. pos' > 1 /\ source'[pos' - 1] = "cr" => \/ pos' = Len(source') + 1 /\ closed'
                                                \/ pos' <= Len(source') /\ source'[pos'] # "nl"
    <3>1. CASE pos' = pos + 1
      BY <1>0, <3>1
    <3>2. CASE pos' = pos + 2
      BY <1>0, <3>2
    <3> QED
      BY <1>0, <3>1, <3>2
  <2> QED
    BY <1>0, <2>2, <2>3 DEF Counted, locals
<1> QED
  BY <1>3, <1>4, <1>5, <1>6, <1>7, <1>8
-----------------------------------------------------------------------------
\* A longer text has the same operators.
LEMMA WholeKept ==
  ASSUME NEW s, NEW t, Len(s) \in Nat, Len(t) \in Nat, Len(s) <= Len(t),
         \A p \in 1..Len(s) : t[p] = s[p],
         NEW a, NEW b, NEW o, Whole(s, a, b, o)
  PROVE  Whole(t, a, b, o)
<1>1. /\ a \in Nat \ {0} /\ b \in a..Len(s) /\ o \in Operators /\ s[a] \notin Trivial
      /\ Spells(s, a, b, Spelling[o]) /\ Stops(s, b, o) /\ b \in Int /\ b <= Len(s)
  BY DEF Whole
<1>2. Spells(t, a, b, Spelling[o])
  BY <1>1, SpellsKept
<1>3. Stops(t, b, o)
  <2>1. CASE Extensions(o) = {}
    BY <2>1 DEF Stops
  <2>2. CASE Extensions(o) # {}
    <3>1. PICK p \in b + 1..Len(s) : /\ NextSolid(s, b, p)
                                     /\ \A u \in Extensions(o) : Spelling[u][Len(Spelling[u])] # s[p]
      BY <1>1, <2>2 DEF Stops
    <3>2. p \in b + 1..Len(t) /\ t[p] = s[p] /\ \A q \in b + 1..p - 1 : t[q] = s[q]
      BY <1>1, <3>1
    <3>3. NextSolid(t, b, p)
      BY <3>1, <3>2 DEF NextSolid
    <3> QED
      BY <3>1, <3>2, <3>3 DEF Stops
  <2> QED
    BY <2>1, <2>2
<1> QED
  BY <1>1, <1>2, <1>3 DEF Whole

\* Another character of the file becomes known: nothing already read changes.
LEMMA ReadStep == ASSUME IInv, Read PROVE IInv'
<1> USE DEF IInv
<1>0. /\ mode \notin {"idle", "done", "failed"} /\ ~closed
      /\ pos \in Nat /\ pos >= 1 /\ Len(source) \in Nat /\ pos <= Len(source) + 1
      /\ from \in Nat /\ from >= 1 /\ from <= Len(source) + 1
      /\ UNCHANGED <<text, pos, line, mode, tokens>> /\ UNCHANGED locals
  BY DEF Read, Known, Types
<1>1. /\ source' \in Seq(Chars) /\ closed' \in BOOLEAN
      /\ Len(source') \in Nat /\ Len(source) <= Len(source')
      /\ \A p \in 1..Len(source) : source'[p] = source[p]
      /\ source' = source \/ closed' = closed
  <2>0. \/ \E c \in text.alphabet : source' = Append(source, c) /\ closed' = closed
        \/ closed' = TRUE /\ source' = source
    BY Zenon DEF Read
  <2>1. CASE \E c \in text.alphabet : source' = Append(source, c) /\ closed' = closed
    <3>1. PICK c \in text.alphabet : source' = Append(source, c) /\ closed' = closed
      BY <2>1
    <3>2. c \in Chars
      BY SourceAssumption DEF Types
    <3>3. source \in Seq(Chars) /\ closed \in BOOLEAN
      BY DEF Types
    <3> QED
      BY <3>1, <3>2, <3>3
  <2>2. CASE closed' = TRUE /\ source' = source
    <3>1. source \in Seq(Chars)
      BY DEF Types
    <3> QED
      BY <2>2, <3>1
  <2> QED
    BY <2>0, <2>1, <2>2, Zenon
<1>2. Types'
  BY <1>0, <1>1 DEF Types, locals
<1>3. Locals'
  <2>1. mode = "operator" => /\ source'[from] = source[from]
                             /\ Spells(source', from, pos - 1, Spelling[form])
    <3> SUFFICES ASSUME mode = "operator"
                 PROVE  source'[from] = source[from] /\ Spells(source', from, pos - 1, Spelling[form])
      OBVIOUS
    <3>1. /\ from \in 1..Len(source) /\ from \in Nat \ {0} /\ pos - 1 \in Int /\ pos - 1 <= Len(source)
          /\ Spells(source, from, pos - 1, Spelling[form])
      BY <1>0 DEF Locals
    <3> QED
      BY <1>1, <1>0, <3>1, SpellsKept
  <2> QED
    BY <1>0, <2>1 DEF Locals, locals
<1>4. Order'
  BY <1>0 DEF Order, locals
<1>5. Wholes'
  <2> SUFFICES ASSUME NEW i \in DOMAIN tokens, tokens[i].type \in Operators
               PROVE  OperatorToken(source', tokens[i])
    BY <1>0 DEF Wholes
  <2>1. OperatorToken(source, tokens[i])
    BY DEF Wholes
  <2>2. ASSUME NEW a, NEW b, NEW o, Whole(source, a, b, o)
        PROVE  Whole(source', a, b, o)
    BY <1>0, <1>1, <2>2, WholeKept
  <2>3. 1..Len(source) \subseteq 1..Len(source')
    BY <1>0, <1>1
  <2> QED
    BY <2>1, <2>2, <2>3 DEF OperatorToken
<1>6. ASSUME NEW cs, ~Occurs(cs)' PROVE ~Occurs(cs)
  <2>1. DOMAIN source = 1..Len(source) /\ DOMAIN source' = 1..Len(source')
    BY <1>1 DEF Types
  <2> QED
    BY <1>0, <1>1, <1>6, <2>1 DEF Occurs
<1>7. Covered'
  <2> SUFFICES ASSUME ~Occurs({"/"})'
               PROVE  Covered'
    BY DEF Covered
  <2>1. ~Occurs({"/"}) /\ ~LostAtEnd
    BY <1>0, <1>6 DEF LostAtEnd
  <2>2. \A p \in 1..pos - 1 : source'[p] = source[p]
    BY <1>0, <1>1
  <2> QED
    BY <1>0, <2>1, <2>2 DEF Covered, Taken, locals
<1>8. Counted'
  <2> SUFFICES ASSUME ~Occurs({"/", "dq", "bq", "sq"})'
               PROVE  Counted'
    BY DEF Counted
  <2>1. ~Occurs({"/", "dq", "bq", "sq"})
    BY <1>6
  <2>2. ASSUME NEW p \in Nat, p <= Len(source) + 1
        PROVE  Breaks(source', 1, p - 1) = Breaks(source, 1, p - 1)
    <3>1. p - 1 \in Int /\ p - 1 <= Len(source) /\ 1 \in Nat \ {0}
      BY <1>0, <2>2
    <3>2. Len(source) \in Nat /\ \A q \in 1..Len(source) : source'[q] = source[q]
      BY <1>0, <1>1
    <3> QED
      BY <3>1, <3>2, LinesKept
  <2>3. \A i \in DOMAIN tokens : tokens[i].from \in Nat /\ tokens[i].from <= Len(source) + 1
    <3>1. \A i \in DOMAIN tokens : tokens[i] \in Token
      BY DEF Types
    <3>2. \A i \in DOMAIN tokens : tokens[i].from \in Nat /\ tokens[i].to \in Nat
      BY <3>1 DEF Token
    <3> QED
      BY <1>0, <3>2 DEF Order
  <2>4. \A i \in DOMAIN tokens : tokens[i].line = 1 + Breaks(source', 1, tokens[i].from - 1)
    BY <2>1, <2>2, <2>3 DEF Counted
  <2>5. line = 1 + Breaks(source', 1, pos - 1)
    BY <1>0, <2>1, <2>2 DEF Counted
  <2>6. mode \in Inside => from_line = 1 + Breaks(source', 1, from - 1)
    BY <1>0, <2>1, <2>2 DEF Counted
  <2>7. pos > 1 /\ source'[pos - 1] = "cr" => \/ pos = Len(source') + 1 /\ closed'
                                              \/ pos <= Len(source') /\ source'[pos] # "nl"
    <3>1. pos > 1 => pos - 1 \in 1..Len(source)
      BY <1>0
    <3>2. pos > 1 /\ source'[pos - 1] = "cr" => pos <= Len(source) /\ source[pos] # "nl"
      BY <1>0, <1>1, <2>1, <3>1 DEF Counted
    <3>3. pos <= Len(source) => source'[pos] = source[pos] /\ pos <= Len(source')
      BY <1>0, <1>1
    <3> QED
      BY <3>2, <3>3
  <2> QED
    BY <1>0, <2>1, <2>4, <2>5, <2>6, <2>7 DEF Counted, locals
<1> QED
  BY <1>2, <1>3, <1>4, <1>5, <1>7, <1>8
-----------------------------------------------------------------------------
\* What not_scanner_gt cuts has a second character, and there the scanner resumes.
LEMMA UncutIsLonger ==
  \A t \in Uncut : t \in Operators /\ t # ">" /\ Len(Spelling[t]) \in 2..3
<1>1. Uncut \subseteq Twos \cup Threes
  BY DEF Uncut, Twos, Threes
<1>2. ">" \notin Uncut
  BY DEF Uncut
<1> QED
  BY <1>1, <1>2, ThreeSizes, SizeOfTwo, SizeOfThree

\* The first place after the cut that is no white space.
LEMMA ResumeExists ==
  ASSUME NEW k, k = LastToken, k.type \in Uncut, Whole(source, k.from, k.to, k.type)
  PROVE  /\ Resume \in k.from + 1..k.to
         /\ source[Resume] \notin Trivial
         /\ \A q \in k.from + 1..Resume - 1 : source[q] \in Trivial
<1>0. /\ k.from \in Nat \ {0} /\ k.to \in Nat /\ k.from <= k.to /\ source[k.from] \notin Trivial
      /\ Rank(source, k.from, k.to) \in 2..3
  BY UncutIsLonger DEF Whole, Spells
<1>1. PICK p \in Solid(source, k.from, k.to) : Rank(source, k.from, p) = 2
  <2>1. 2 \in 1..Rank(source, k.from, k.to)
    BY <1>0
  <2> QED
    BY <1>0, <2>1, RankReached
<1>2. Rank(source, k.from, k.from) = 1
  <2>1. Spells(source, k.from, k.from, <<source[k.from]>>)
    BY <1>0, SpellsOne
  <2> QED
    BY <2>1 DEF Spells
<1>3. p \in k.from + 1..k.to /\ source[p] \notin Trivial
  <2>1. p \in k.from..k.to /\ source[p] \notin Trivial
    BY <1>1 DEF Solid
  <2>2. p # k.from
    BY <1>1, <1>2
  <2> QED
    BY <1>0, <2>1, <2>2
<1> DEFINE T == {x \in k.from + 1..k.to : source[x] \notin Trivial}
<1>4. T \subseteq Nat /\ T # {}
  BY <1>0, <1>3
<1>5. PICK x \in T : \A y \in T : x <= y
  BY <1>4, Least
<1>6. \A q \in k.from + 1..x - 1 : source[q] \in Trivial
  <2> SUFFICES ASSUME NEW q \in k.from + 1..x - 1, source[q] \notin Trivial
               PROVE  FALSE
    OBVIOUS
  <2>1. q \in T /\ ~(x <= q)
    BY <1>0
  <2> QED
    BY <1>5, <2>1
<1>7. \E r \in k.from + 1..k.to : /\ source[r] \notin Trivial
                                  /\ \A q \in k.from + 1..r - 1 : source[q] \in Trivial
  BY <1>5, <1>6
<1> QED
  BY <1>7 DEF Resume

\* not_scanner_gt goes back: the rest of the token is scanned again from its
\* first character, on the line that character is on.
LEMMA CutGtStep == ASSUME IInv, CutGt PROVE IInv'
<1> USE DEF IInv
<1> DEFINE n == Len(tokens)
           k == tokens[n]
           g == [type |-> ">", from |-> k.from, to |-> k.from, line |-> k.line]
<1>0. /\ mode = "idle" /\ UNCHANGED <<text, source, closed, mode>> /\ UNCHANGED locals
      /\ LastToken = k /\ k.type \in Uncut
      /\ pos' = Resume /\ line' = k.line + Breaks(source, k.from + 1, Resume - 1)
      /\ tokens' = [tokens EXCEPT ![n] = g]
  BY DEF CutGt, Recut, LastToken, Uncut, file
<1>1. /\ n \in Nat \ {0} /\ DOMAIN tokens = 1..n /\ n \in 1..n /\ tokens \in Seq(Token)
      /\ \A i \in 1..n : tokens[i] \in Token
      /\ Len(source) \in Nat /\ source \in Seq(Chars) /\ pos \in Nat /\ pos <= Len(source) + 1
  BY <1>0 DEF Types, Locals
<1>2. k \in Token /\ k.from \in Nat /\ k.to \in Nat /\ k.line \in Nat
  BY <1>1 DEF Token
<1>3. g \in Token
  <2>1. ">" \in TokenTypes
    BY ThreeSizes DEF TokenTypes, Ones
  <2> QED
    BY <1>2, <2>1 DEF Token
<1>4. Whole(source, k.from, k.to, k.type)
  <2>1. k.type \in Operators /\ k.type # ">"
    BY <1>0, UncutIsLonger
  <2> QED
    BY <1>1, <2>1 DEF Wholes, OperatorToken
<1> HIDE DEF n, k, g
<1>5. /\ g.type = ">" /\ g.from = k.from /\ g.to = k.from /\ g.line = k.line
  BY DEF g
<1>a. \A i \in 1..n : i # n => i < n
  BY <1>1
<1>6. /\ tokens' \in Seq(Token) /\ DOMAIN tokens' = 1..n /\ Len(tokens') = n /\ tokens' # <<>>
      /\ tokens'[n] = g /\ \A i \in 1..n : i # n => tokens'[i] = tokens[i]
  <2>1. tokens' \in Seq(Token) /\ Len(tokens') = n
    BY <1>0, <1>1, <1>3 DEF n
  <2> QED
    BY <1>0, <1>1, <2>1
<1>7. /\ Resume \in k.from + 1..k.to
      /\ source[Resume] \notin Trivial
      /\ \A q \in k.from + 1..Resume - 1 : source[q] \in Trivial
  BY <1>0, <1>4, ResumeExists
<1>8. /\ k.from >= 1 /\ k.line \in 1..k.from /\ k.to < pos /\ k.to <= Len(source)
      /\ source[k.from] \notin Trivial
      /\ \A i \in 1..n : i # n => tokens[i].to < k.from
  <2>1. tokens[n] = k
    BY DEF k, n
  <2>2. /\ k.from >= 1 /\ k.line \in 1..k.from /\ k.to < pos
    BY <1>1, <2>1 DEF Order
  <2>3. \A i \in 1..n : i # n => tokens[i].to < k.from
    BY <1>1, <1>a, <2>1, Zenon DEF Order
  <2>4. k.to <= Len(source) /\ source[k.from] \notin Trivial
    BY <1>4 DEF Whole
  <2> QED
    BY <2>2, <2>3, <2>4
<1>9. /\ pos' \in 1..Len(source) /\ k.from < pos' /\ pos' <= k.to /\ pos' < pos
      /\ line' \in 1..pos'
  <2>1. /\ k.from + 1 \in Int /\ Resume - 1 \in Int /\ k.from + 1 <= (Resume - 1) + 1
    BY <1>2, <1>7
  <2>2. /\ Breaks(source, k.from + 1, Resume - 1) \in Nat
        /\ Breaks(source, k.from + 1, Resume - 1) <= ((Resume - 1) + 1) - (k.from + 1)
    BY <2>1, BreaksFinite
  <2>3. /\ k.from >= 1 /\ k.to < pos /\ k.to <= Len(source) /\ k.from \in Nat /\ k.to \in Nat
        /\ pos \in Nat /\ Len(source) \in Nat /\ k.line \in 1..k.from /\ Resume \in k.from + 1..k.to
    BY <1>1, <1>2, <1>7, <1>8, Zenon
  <2>4. /\ Resume \in 1..Len(source) /\ k.from < Resume /\ Resume <= k.to /\ Resume < pos
        /\ k.line + Breaks(source, k.from + 1, Resume - 1) \in 1..Resume
    <3>1. PICK a \in Nat, r \in Int, m \in Nat :
             /\ a = k.from /\ r = Resume /\ m = Breaks(source, k.from + 1, Resume - 1)
             /\ r \in a + 1..k.to /\ m <= ((r - 1) + 1) - (a + 1)
      BY <2>2, <2>3
    <3>2. r \in 1..Len(source) /\ a < r /\ r <= k.to /\ r < pos
      BY <2>3, <3>1
    <3>3. k.line + m \in 1..r
      BY <2>3, <3>1
    <3> QED
      BY <3>1, <3>2, <3>3, Zenon
  <2> QED
    BY <1>0, <2>4, Zenon
<1>10. Types'
  <2>1. pos' \in 1..Len(source) + 1
    BY <1>1, <1>9
  <2> QED
    BY <1>0, <1>1, <1>6, <1>9, <2>1 DEF Types, locals
<1>11. Locals'
  BY <1>0, <1>6 DEF Locals, Inside, locals
<1>12. Order'
  <2>0. mode' \notin Inside
    BY <1>0 DEF Inside
  <2>1. ASSUME NEW i \in 1..n
        PROVE  /\ tokens'[i].from >= 1 /\ tokens'[i].line \in 1..tokens'[i].from
               /\ tokens'[i].to < pos' /\ tokens'[i].from <= tokens'[i].to + 1
    <3>1. CASE i = n
      <4>1. k.from <= k.from + 1
        BY <1>2
      <4> QED
        BY <1>5, <1>6, <1>8, <1>9, <3>1, <4>1, Zenon
    <3>2. CASE i # n
      <4>1. /\ tokens[i].from >= 1 /\ tokens[i].line \in 1..tokens[i].from
            /\ tokens[i].from <= tokens[i].to + 1
        BY <1>1 DEF Order
      <4>2. tokens[i].to \in Nat
        BY <1>1 DEF Token
      <4>3. tokens[i].to < k.from
        BY <1>8, <3>2
      <4>4. tokens[i].to < pos'
        BY <1>2, <1>9, <4>2, <4>3
      <4> QED
        BY <1>6, <3>2, <4>1, <4>4
    <3> QED
      BY <3>1, <3>2
  <2>2. ASSUME NEW i \in 1..n, NEW j \in 1..n, i < j
        PROVE  tokens'[i].to < tokens'[j].from
    <3>1. i # n /\ tokens'[i] = tokens[i]
      <4>1. i # n
        BY <1>1, <2>2
      <4> QED
        BY <1>6, <4>1, Zenon
    <3>2. CASE j = n
      BY <1>5, <1>6, <1>8, <3>1, <3>2
    <3>3. CASE j # n
      BY <1>1, <1>6, <2>2, <3>1, <3>3 DEF Order
    <3> QED
      BY <3>2, <3>3
  <2> QED
    BY <1>6, <2>0, <2>1, <2>2 DEF Order
<1>13. Wholes'
  <2>1. OperatorToken(source, g)
    <3>1. k.to \in 1..Len(source)
      BY <1>2, <1>8, <1>9
    <3> QED
      BY <1>0, <1>4, <1>5, <3>1 DEF OperatorToken
  <2> QED
    BY <1>0, <1>1, <1>6, <2>1 DEF Wholes
<1>14. Covered'
  <2> SUFFICES ASSUME ~Occurs({"/"}), NEW p \in 1..pos' - 1, source[p] \notin Trivial
               PROVE  p \in Taken'
    BY <1>0 DEF Covered, Occurs
  <2>1. p \in 1..pos - 1
    <3>1. \A a, b \in Nat : a < b => \A x \in 1..a - 1 : x \in 1..b - 1
      OBVIOUS
    <3>2. pos' \in Nat
      BY <1>1, <1>9
    <3> QED
      BY <1>1, <1>9, <3>1, <3>2, Zenon
  <2>2. p \in Taken
    BY <1>0, <2>1 DEF Covered, Inside, LostAtEnd
  <2>3. PICK i \in 1..n : p \in tokens[i].from..tokens[i].to
    BY <1>1, <2>2 DEF Taken
  <2>4. CASE i = n
    <3>1. p \in k.from..k.to
      BY <2>3, <2>4 DEF k
    <3>2. p = k.from
      BY <1>0, <1>2, <1>7, <3>1
    <3>3. p \in tokens'[n].from..tokens'[n].to
      <4>1. k.from \in k.from..k.from
        BY <1>2
      <4> QED
        BY <1>5, <1>6, <3>2, <4>1, Zenon
    <3> QED
      BY <1>1, <1>6, <3>3 DEF Taken
  <2>5. CASE i # n
    BY <1>6, <2>3, <2>5 DEF Taken
  <2> QED
    BY <2>4, <2>5
<1>15. Counted'
  <2> SUFFICES ASSUME ~Occurs({"/", "dq", "bq", "sq"})
               PROVE  Counted'
    BY <1>0 DEF Counted, Occurs
  <2>1. k.line = 1 + Breaks(source, 1, k.from - 1)
    BY <1>1 DEF Counted, k
  <2>2. Breaks(source, 1, k.from) = Breaks(source, 1, k.from - 1)
    <3>1. ~BreakAt(source, k.from)
      BY <1>8 DEF BreakAt, Trivial
    <3>2. k.from \in Int /\ 1 <= k.from /\ k.from - 1 \in Int /\ 1 \in Int
      BY <1>2, <1>8
    <3>3. Breaks(source, 1, k.from) = Breaks(source, 1, k.from - 1) + 0
      BY <3>1, <3>2, BreaksNext
    <3>4. Breaks(source, 1, k.from - 1) \in Nat
      BY <3>2, BreaksFinite
    <3> QED
      BY <3>3, <3>4
  <2>3. Breaks(source, 1, Resume - 1) = Breaks(source, 1, k.from) + Breaks(source, k.from + 1, Resume - 1)
    <3>1. /\ 1 \in Int /\ k.from \in Int /\ Resume - 1 \in Int /\ 1 <= k.from + 1
          /\ k.from <= Resume - 1
      BY <1>2, <1>7, <1>8
    <3> QED
      BY <3>1, BreaksSplit
  <2>4. line' = 1 + Breaks(source, 1, pos' - 1)
    <3>1. /\ k.from - 1 \in Int /\ k.from + 1 \in Int /\ Resume - 1 \in Int
      BY <1>2, <1>7
    <3>2. Breaks(source, 1, k.from - 1) \in Nat /\ Breaks(source, k.from + 1, Resume - 1) \in Nat
      BY <3>1, BreaksFinite
    <3> QED
      BY <1>0, <2>1, <2>2, <2>3, <3>2
  <2>5. \A i \in 1..n : tokens'[i].line = 1 + Breaks(source, 1, tokens'[i].from - 1)
    <3>1. \A i \in 1..n : tokens[i].line = 1 + Breaks(source, 1, tokens[i].from - 1)
      BY <1>1 DEF Counted
    <3> QED
      BY <1>5, <1>6, <2>1, <3>1
  <2>6. source[pos'] # "nl" /\ pos' <= Len(source)
    BY <1>0, <1>7, <1>9 DEF Trivial, LineBreaks
  <2> QED
    BY <1>0, <1>6, <2>4, <2>5, <2>6 DEF Counted, Inside
<1> QED
  BY <1>10, <1>11, <1>12, <1>13, <1>14, <1>15
-----------------------------------------------------------------------------
\* The scanner starts in IInv.
LEMMA InitHolds == Init => IInv
<1> SUFFICES ASSUME Init PROVE IInv
  OBVIOUS
<1>1. /\ source \in Seq(Chars) /\ Len(source) \in Nat /\ tokens = <<>> /\ DOMAIN tokens = {}
      /\ pos = 1 /\ line = 1 /\ mode = "look" /\ mode \notin Inside
  BY SourceAssumption DEF Init, Inside
<1>2. Types
  <2>1. text \in Texts /\ from = 1 /\ depth = 0 /\ closed \in BOOLEAN
    BY DEF Init
  <2>2. tokens \in Seq(Token)
    BY <1>1
  <2>3. 1 \in 1..Len(source) + 1 /\ 1 \in 1..1 /\ 0 \in -Len(source)..Len(source)
    BY <1>1
  <2>4. mode \in Modes
    BY <1>1 DEF Modes
  <2> QED
    BY <1>1, <2>1, <2>2, <2>3, <2>4, Zenon DEF Types
<1>3. Locals
  BY <1>1 DEF Init, Locals
<1>4. Order
  BY <1>1 DEF Order
<1>5. Wholes
  BY <1>1 DEF Wholes
<1>6. Covered
  BY <1>1 DEF Covered
<1>7. Counted
  <2>1. Breaks(source, 1, 0) = 0
    BY NothingBroken
  <2> QED
    BY <1>1, <2>1 DEF Counted
<1> QED
  BY <1>2, <1>3, <1>4, <1>5, <1>6, <1>7 DEF IInv

\* Every step keeps IInv.
LEMMA NextKeeps == IInv /\ [Next]_vars => IInv'
<1> SUFFICES ASSUME IInv, [Next]_vars PROVE IInv'
  OBVIOUS
<1>1. CASE Read
  BY <1>1, ReadStep
<1>2. CASE SkipTrivial
  BY <1>2, SkipTrivialStep
<1>3. CASE EndOfFile
  BY <1>3, EndOfFileStep
<1>4. CASE Single
  BY <1>4, SingleStep
<1>5. CASE BeginOperator
  BY <1>5, BeginOperatorStep
<1>6. CASE GoOnOperator
  BY <1>6, GoOnOperatorStep
<1>7. CASE BeginComment
  BY <1>7, BeginCommentStep
<1>8. CASE LineComment
  BY <1>8, LineCommentStep
<1>9. CASE BlockComment
  BY <1>9, BlockCommentStep
<1>10. CASE BeginString
  BY <1>10, BeginStringStep
<1>11. CASE String
  BY <1>11, StringStep
<1>12. CASE BeginRune
  BY <1>12, BeginRuneStep
<1>13. CASE Rune
  BY <1>13, RuneStep
<1>14. CASE Escape
  BY <1>14, EscapeStep
<1>15. CASE Digits
  BY <1>15, DigitsStep
<1>16. CASE BeginNumber
  BY <1>16, BeginNumberStep
<1>17. CASE Number
  BY <1>17, NumberStep
<1>18. CASE BeginWord
  BY <1>18, BeginWordStep
<1>19. CASE Word
  BY <1>19, WordStep
<1>20. CASE Unknown
  BY <1>20, UnknownStep
<1>21. CASE Advance
  BY <1>21, AdvanceStep
<1>22. CASE CutGt
  BY <1>22, CutGtStep
<1>23. CASE Spin \/ Finished \/ UNCHANGED vars
  BY <1>23, StandStill DEF Spin, Finished
<1> QED
  BY <1>1, <1>2, <1>3, <1>4, <1>5, <1>6, <1>7, <1>8, <1>9, <1>10, <1>11, <1>12, <1>13, <1>14,
     <1>15, <1>16, <1>17, <1>18, <1>19, <1>20, <1>21, <1>22, <1>23, Zenon DEF Next, Scan

\* IInv is invariant.
LEMMA Invariance == Spec => []IInv
<1>1. Init => IInv
  BY InitHolds
<1>2. IInv /\ [Next]_vars => IInv'
  BY NextKeeps
<1> QED
  BY <1>1, <1>2, PTL DEF Spec

\* The offset never leaves the file, and every token lies in it.
THEOREM TypeCorrect == Spec => []TypeOK
<1>1. IInv => TypeOK
  <2> SUFFICES ASSUME IInv PROVE TypeOK
    OBVIOUS
  <2>1. /\ text \in Texts /\ pos \in 1..Len(source) + 1 /\ line \in 1..Len(source) + 1 /\ mode \in Modes
        /\ from \in 1..Len(source) + 1 /\ depth \in -Len(source)..Len(source) /\ Len(source) \in Nat
    BY DEF IInv, Types
  <2>2. ASSUME NEW i \in DOMAIN tokens
        PROVE  /\ tokens[i].type \in TokenTypes
               /\ tokens[i].from \in 1..Len(source) + 1 /\ tokens[i].to \in 0..Len(source)
    <3>1. tokens[i] \in Token
      BY DEF IInv, Types
    <3>2. tokens[i].type \in TokenTypes /\ tokens[i].from \in Nat /\ tokens[i].to \in Nat
      BY <3>1 DEF Token
    <3>3. tokens[i].from >= 1 /\ tokens[i].to < pos /\ tokens[i].from <= tokens[i].to + 1
      BY DEF IInv, Order
    <3> QED
      BY <2>1, <3>2, <3>3
  <2> QED
    BY <2>1, <2>2 DEF TypeOK
<1> QED
  BY <1>1, Invariance, PTL

\* The tokens follow each other and leave nothing between them but white space.
THEOREM TokensTileAlways == Spec => []TokensTile
<1>1. IInv => TokensTile
  BY DEF IInv, Order, Covered, TokensTile, Inside
<1> QED
  BY <1>1, Invariance, PTL

\* An operator token is the longest operator its characters spell, or was cut by
\* not_scanner_gt.
THEOREM LongestOperatorAlways == Spec => []LongestOperator
<1>1. ASSUME NEW s, NEW a, NEW b, NEW t, Len(s) \in Nat, Whole(s, a, b, t),
             NEW S, S = {u \in Operators : \E c \in a..Len(s) : Spells(s, a, c, Spelling[u])}
      PROVE  Longest(S) = t
  <2>1. t \in S
    BY <1>1 DEF Whole
  <2>2. \A u \in S : /\ Len(Spelling[u]) <= Len(Spelling[t])
                     /\ Len(Spelling[u]) = Len(Spelling[t]) => u = t
    BY <1>1, WholeIsLongest
  <2>3. \A u \in S : Len(Spelling[u]) \in Nat
    BY <1>1, Sizes
  <2>4. \A x \in S : (\A u \in S : Len(Spelling[u]) <= Len(Spelling[x])) => x = t
    BY <2>1, <2>2, <2>3
  <2>5. \E x \in S : \A u \in S : Len(Spelling[u]) <= Len(Spelling[x])
    BY <2>1, <2>2, Zenon
  <2> QED
    BY <2>4, <2>5, Zenon DEF Longest
<1>2. ASSUME NEW a, NEW b, NEW t, Len(source) \in Nat, Whole(source, a, b, t)
      PROVE  Longest(SpelledFrom(a)) = t
  BY <1>1, <1>2 DEF SpelledFrom
<1>3. IInv => LongestOperator
  <2> SUFFICES ASSUME IInv, NEW i \in DOMAIN tokens, tokens[i].type \in Operators
               PROVE  \/ tokens[i].type = Longest(SpelledFrom(tokens[i].from))
                      \/ /\ tokens[i].type = ">"
                         /\ Longest(SpelledFrom(tokens[i].from)) \in {">=", ">>=", ">>"}
    BY DEF LongestOperator
  <2>1. OperatorToken(source, tokens[i]) /\ Len(source) \in Nat
    BY DEF IInv, Wholes, Types
  <2> QED
    BY <1>2, <2>1 DEF OperatorToken, Uncut
<1> QED
  BY <1>3, Invariance, PTL

\* The scanner's line, and that of every token, is one more than the line breaks
\* before it, also after not_scanner_gt.
THEOREM LinesCountedAlways == Spec => []LinesCounted
<1>1. IInv => LinesCounted
  BY DEF IInv, Counted, LinesCounted
<1> QED
  BY <1>1, Invariance, PTL
=============================================================================
