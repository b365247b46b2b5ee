---------------------------- MODULE FormulaProofs ----------------------------
(***************************************************************************)
(* What is proved of the formulas.  For every text, well formed or not,    *)
(* the order of the parser's stack.  For the text of every expression: the *)
(* constructor leaves the tokens of the expression in postfix order, and   *)
(* the evaluation leaves its value.                                        *)
(*                                                                         *)
(* Both halves of the second part follow one plan.  A configuration leads  *)
(* to another one when every set of configurations closed under the steps  *)
(* that holds the first holds the second: no induction over the steps is   *)
(* needed to compose such facts, and as a step is determined by where it   *)
(* is taken, what leads to an end still leads to it after each step.  That *)
(* the text of a tree leads from any configuration to one with its tokens  *)
(* is proved for a tree of least text among those it would fail for.       *)
(***************************************************************************)
EXTENDS FormulaReference, SequenceTheorems, FiniteSetTheorems, WellFoundedInduction,
        TLAPS

ParserOK ==
  /\ text \in Seq(Lexeme)
  /\ position \in Nat \ {0}
  /\ output \in Seq(Token)
  /\ stack \in Seq(Token)

ParserInv == ParserOK /\ OutputClean /\ StackOrdered

\* Every type of the table has an integer precedence.
LEMMA Precedences == \A type \in DOMAIN INFOS : INFOS[type][1] \in Int
BY SMTT(60) DEF INFOS

\* What is read is a token.
LEMMA NextTokenType ==
  ASSUME text \in Seq(Lexeme), position \in 1..Len(text)
  PROVE  NextToken \in Token
<1>1. text[position] \in Lexeme
  OBVIOUS
<1>2. Follows("number") => text[position + 1] \in Lexeme
  BY DEF Follows
<1> DEFINE lexeme == text[position]
<1>3. CASE lexeme.type = "number"
  BY <1>1, <1>3 DEF NextToken, Lexeme, Token, Numbers
<1>4. CASE lexeme.type = "name"
  BY <1>1, <1>4 DEF NextToken, Lexeme, Token, Numbers
<1>5. CASE lexeme.type = "blank"
  BY <1>5 DEF NextToken, NoToken, Token
<1>6. CASE lexeme.type = "minus"
  <2>1. CASE Follows("blank")
    BY <1>1, <1>6, <2>1 DEF NextToken, Lexeme, Token, INFOS
  <2>2. CASE ~Follows("blank") /\ Follows("number")
    BY <1>2, <1>6, <2>2 DEF NextToken, Lexeme, Token, Numbers
  <2>3. CASE ~Follows("blank") /\ ~Follows("number")
    BY <1>6, <2>3 DEF NextToken, NoToken, Token
  <2> QED
    BY <2>1, <2>2, <2>3
<1>7. CASE lexeme.type \notin {"number", "name", "blank", "minus"}
  BY <1>1, <1>7 DEF NextToken, Lexeme, Token
<1> QED
  BY <1>3, <1>4, <1>5, <1>6, <1>7

\* A set of numbers up to n has a greatest one.
LEMMA GreatestOf ==
  ASSUME NEW n \in Nat, NEW S, S \subseteq 0..n, S # {}
  PROVE  \E i \in S : \A j \in S : j <= i
<1> DEFINE T == {n - i : i \in S}
<1>1. T \subseteq Nat /\ T # {}
  <2>1. \A i \in S : i \in 0..n /\ n - i \in Nat
    OBVIOUS
  <2>2. PICK i \in S : TRUE
    OBVIOUS
  <2>3. n - i \in T
    BY <2>2
  <2> QED
    BY <2>1, <2>3
<1> DEFINE Less == OpToRel(<, Nat)
<1>2. \A x, y \in Nat : y < x => <<y, x>> \in Less
  BY DEF OpToRel
<1>3. IsWellFoundedOn(Less, Nat)
  BY NatLessThanWellFounded
<1> HIDE DEF T, Less
<1>4. PICK x \in T : \A y \in T : ~(<<y, x>> \in Less)
  BY <1>1, <1>3, WFMin
<1>5. PICK i \in S : x = n - i
  BY <1>4 DEF T
<1>6. ASSUME NEW j \in S
      PROVE  j <= i
  <2>1. n - j \in T
    BY DEF T
  <2>2. ~(n - j < x)
    BY <1>1, <1>2, <1>4, <2>1
  <2> QED
    BY <1>5, <2>2
<1> QED
  BY <1>6

\* The operators that give way to a token are those at the top of the stack.
LEMMA KeptIs ==
  ASSUME stack \in Seq(Token), NEW token
  PROVE  /\ Kept(token) \in 0..Len(stack)
         /\ Kept(token) = 0 \/ ~GivesWay(stack[Kept(token)], token)
         /\ \A i \in (Kept(token) + 1)..Len(stack) : GivesWay(stack[i], token)
<1> DEFINE S == {k \in 0..Len(stack) : k = 0 \/ ~GivesWay(stack[k], token)}
<1>1. S \subseteq 0..Len(stack) /\ 0 \in S /\ Len(stack) \in Nat
  OBVIOUS
<1>2. PICK k \in S : \A j \in S : j <= k
  BY <1>1, GreatestOf
<1>3. ASSUME NEW i \in (k + 1)..Len(stack)
      PROVE  GivesWay(stack[i], token)
  <2>1. i \in 0..Len(stack) /\ ~(i <= k)
    BY <1>1, <1>2
  <2> QED
    BY <2>1, <1>2
<1>4. \E m \in 0..Len(stack) :
        /\ m = 0 \/ ~GivesWay(stack[m], token)
        /\ \A i \in (m + 1)..Len(stack) : GivesWay(stack[i], token)
  BY <1>2, <1>3
<1> QED
  BY <1>4, Zenon DEF Kept

\* A parenthesis that is open has a place on the stack, and only operators stand
\* above the last one.
LEMMA OpenedIs ==
  ASSUME stack \in Seq(Token), OutputClean, LeftBrackets # {}
  PROVE  /\ Opened \in 1..Len(stack)
         /\ stack[Opened].type = "LEFT_BRACKET"
         /\ \A i \in (Opened + 1)..Len(stack) : IsOperator(stack[i])
<1>1. LeftBrackets \subseteq 0..Len(stack) /\ Len(stack) \in Nat
  BY DEF LeftBrackets
<1>2. \E k \in LeftBrackets : \A j \in LeftBrackets : j <= k
  BY <1>1, GreatestOf
<1>3. Opened \in LeftBrackets /\ \A j \in LeftBrackets : j <= Opened
  BY <1>2, Zenon DEF Opened
<1>4. ASSUME NEW i \in (Opened + 1)..Len(stack)
      PROVE  IsOperator(stack[i])
  <2>1. i \in 1..Len(stack) /\ ~(i <= Opened)
    BY <1>3 DEF LeftBrackets
  <2>2. i \notin LeftBrackets
    BY <2>1, <1>3
  <2> QED
    BY <2>1, <2>2 DEF LeftBrackets, OutputClean
<1> QED
  BY <1>3, <1>4 DEF LeftBrackets

\* What is taken from the stack are tokens that were on it.
LEMMA AboveIs ==
  ASSUME stack \in Seq(Token), NEW k \in 0..Len(stack)
  PROVE  /\ Above(k) \in Seq(Token)
         /\ Len(Above(k)) = Len(stack) - k
         /\ \A i \in 1..Len(Above(k)) :
              \E j \in (k + 1)..Len(stack) : Above(k)[i] = stack[j]
<1>1. Len(stack) - k \in Nat
  OBVIOUS
<1>2. \A i \in 1..(Len(stack) - k) :
        /\ Len(stack) + 1 - i \in (k + 1)..Len(stack)
        /\ stack[Len(stack) + 1 - i] \in Token
  OBVIOUS
<1>3. Above(k) \in Seq(Token) /\ Len(Above(k)) = Len(stack) - k
  BY <1>1, <1>2, IsASeq DEF Above
<1> QED
  BY <1>2, <1>3 DEF Above

\* The operators above a place of the stack reach the output unharmed, and what
\* stays below is as clean and as ordered as it was.
LEMMA Unstacked ==
  ASSUME ParserInv, NEW k \in 0..Len(stack),
         \A i \in (k + 1)..Len(stack) : IsOperator(stack[i])
  PROVE  LET out == output \o Above(k)
             rest == SubSeq(stack, 1, k)
         IN  /\ out \in Seq(Token)
             /\ \A i \in 1..Len(out) : IsNumber(out[i]) \/ IsOperator(out[i])
             /\ rest \in Seq(Token)
             /\ Len(rest) = k
             /\ \A i \in 1..k : rest[i] = stack[i]
<1>1. output \in Seq(Token) /\ stack \in Seq(Token)
  BY DEF ParserInv, ParserOK
<1>2. /\ Above(k) \in Seq(Token)
      /\ \A i \in 1..Len(Above(k)) : IsOperator(Above(k)[i])
  BY <1>1, AboveIs
<1>3. \A i \in 1..Len(output) : IsNumber(output[i]) \/ IsOperator(output[i])
  BY DEF ParserInv, OutputClean
<1> HIDE DEF Above
<1>4. output \o Above(k) \in Seq(Token)
  BY <1>1, <1>2
<1>5. ASSUME NEW i \in 1..Len(output \o Above(k))
      PROVE  \/ IsNumber((output \o Above(k))[i])
             \/ IsOperator((output \o Above(k))[i])
  <2>1. CASE i <= Len(output)
    BY <1>1, <1>2, <1>3, <2>1, SMTT(30)
  <2>2. CASE i > Len(output)
    <3>1. i - Len(output) \in 1..Len(Above(k))
      BY <1>1, <1>2, <2>2
    <3>2. (output \o Above(k))[i] = Above(k)[i - Len(output)]
      BY <1>1, <1>2, <2>2, <3>1
    <3> QED
      BY <1>2, <3>1, <3>2
  <2> QED
    BY <1>1, <1>2, <2>1, <2>2
<1>6. /\ SubSeq(stack, 1, k) \in Seq(Token)
      /\ Len(SubSeq(stack, 1, k)) = k
      /\ \A i \in 1..k : SubSeq(stack, 1, k)[i] = stack[i]
  BY <1>1
<1> QED
  BY <1>4, <1>5, <1>6

\* A part of an ordered stack is ordered.
LEMMA OrderedBelow ==
  ASSUME StackOrdered, NEW k \in Nat, stack' \in Seq(Token), Len(stack') = k,
         k <= Len(stack), \A i \in 1..k : stack'[i] = stack[i],
         stack \in Seq(Token)
  PROVE  StackOrdered'
<1> SUFFICES ASSUME NEW j \in 1..Len(stack'), NEW i \in 1..(j - 1),
                    \A m \in i..j : IsOperator(stack'[m])
             PROVE  \/ Precedence(stack'[i]) < Precedence(stack'[j])
                    \/ /\ Precedence(stack'[i]) = Precedence(stack'[j])
                       /\ ~LeftAssociative(stack'[j])
  BY DEF StackOrdered, Precedence, LeftAssociative, IsOperator
<1>1. \A m \in i..j : m \in 1..k /\ stack'[m] = stack[m]
  OBVIOUS
<1>2. \A m \in i..j : IsOperator(stack[m])
  BY <1>1
<1> QED
  BY <1>1, <1>2 DEF StackOrdered

\* A token pushed on what is left of an ordered stack keeps it ordered, when no
\* operator just below it should have given way.
LEMMA OrderedPush ==
  ASSUME StackOrdered, stack \in Seq(Token), NEW k \in 0..Len(stack),
         NEW token \in Token, stack' = Append(SubSeq(stack, 1, k), token),
         IsOperator(token) /\ k > 0 => ~GivesWay(stack[k], token)
  PROVE  StackOrdered'
<1>1. /\ Len(stack') = k + 1 /\ stack'[k + 1] = token
      /\ \A m \in 1..k : stack'[m] = stack[m]
  OBVIOUS
<1> SUFFICES ASSUME NEW j \in 1..(k + 1), NEW i \in 1..(j - 1),
                    \A m \in i..j : IsOperator(stack'[m])
             PROVE  \/ Precedence(stack'[i]) < Precedence(stack'[j])
                    \/ /\ Precedence(stack'[i]) = Precedence(stack'[j])
                       /\ ~LeftAssociative(stack'[j])
  BY <1>1 DEF StackOrdered, Precedence, LeftAssociative, IsOperator
<1>2. CASE j <= k
  <2>1. \A m \in i..j : m \in 1..k /\ stack'[m] = stack[m]
    BY <1>1, <1>2
  <2>2. \A m \in i..j : IsOperator(stack[m])
    BY <2>1
  <2> QED
    BY <2>1, <2>2, <1>2, SMTT(30) DEF StackOrdered
<1>3. CASE j = k + 1
  <2>1. k \in 1..Len(stack) /\ i \in 1..k /\ stack'[j] = token /\ IsOperator(token)
    BY <1>1, <1>3
  <2>2. \A m \in i..k : stack'[m] = stack[m] /\ IsOperator(stack[m])
    BY <1>1, <1>3, <2>1
  <2>3. IsOperator(stack[k]) /\ IsOperator(stack[i])
    BY <2>1, <2>2
  <2>4. /\ Precedence(token) \in Int
        /\ Precedence(stack[k]) \in Int
        /\ Precedence(stack[i]) \in Int
    BY <2>1, <2>3, Precedences DEF IsOperator, Operators, Precedence
  <2>5. \/ Precedence(stack[k]) < Precedence(token)
        \/ /\ Precedence(stack[k]) = Precedence(token)
           /\ ~LeftAssociative(token)
    BY <2>1, <2>3, <2>4 DEF GivesWay
  <2>6. i = k \/ Precedence(stack[i]) <= Precedence(stack[k])
    <3>1. CASE i < k
      <4>1. i \in 1..(k - 1) /\ \A m \in i..k : IsOperator(stack[m])
        BY <2>1, <2>2, <3>1
      <4> QED
        BY <4>1, <2>1, <2>4 DEF StackOrdered
    <3> QED
      BY <2>1, <3>1
  <2>7. stack'[i] = stack[i]
    BY <1>1, <2>1
  <2> QED
    BY <2>1, <2>4, <2>5, <2>6, <2>7
<1> QED
  BY <1>2, <1>3

LEMMA InvNext == ParserInv /\ [Next]_vars => ParserInv'
<1> SUFFICES ASSUME ParserInv, [Next]_vars
             PROVE  ParserInv'
  OBVIOUS
<1> USE DEF ParserInv, ParserOK
<1>0. ASSUME Reading
      PROVE  position \in 1..Len(text) /\ NextToken \in Token /\ position' \in Nat \ {0}
  <2>1. position \in 1..Len(text)
    BY <1>0 DEF Reading
  <2> QED
    BY <1>0, <2>1, NextTokenType DEF Reading, TokenSize
<1>1. ASSUME ReadNumber
      PROVE  ParserInv'
  <2>1. NextToken \in Token /\ position' \in Nat \ {0} /\ IsNumber(NextToken)
    BY <1>0, <1>1 DEF ReadNumber
  <2>2. output' = Append(output, NextToken) /\ stack' = stack /\ text' = text
    BY <1>1 DEF ReadNumber
  <2> DEFINE token == NextToken
  <2> HIDE DEF token
  <2>3. output' = Append(output, token) /\ token \in Token /\ IsNumber(token)
    BY <2>1, <2>2 DEF token
  <2>4. output' \in Seq(Token)
    BY <2>3
  <2>5. \A i \in 1..Len(output') : IsNumber(output'[i]) \/ IsOperator(output'[i])
    BY <2>3 DEF OutputClean
  <2>6. OutputClean'
    BY <2>2, <2>5 DEF OutputClean, IsNumber, IsOperator
  <2>7. StackOrdered'
    BY <2>2 DEF StackOrdered, Precedence, LeftAssociative, IsOperator
  <2> QED
    BY <2>1, <2>2, <2>4, <2>6, <2>7
<1>2. ASSUME ReadOperator
      PROVE  ParserInv'
  <2>1. NextToken \in Token /\ position' \in Nat \ {0} /\ IsOperator(NextToken)
    BY <1>0, <1>2 DEF ReadOperator
  <2> DEFINE token == NextToken
             k == Kept(token)
  <2>2. /\ output' = output \o Above(k)
        /\ stack' = Append(SubSeq(stack, 1, k), token)
        /\ text' = text
    BY <1>2 DEF ReadOperator
  <2> HIDE DEF token
  <2>3. token \in Token /\ IsOperator(token)
    BY <2>1 DEF token
  <2>4. /\ k \in 0..Len(stack)
        /\ k = 0 \/ ~GivesWay(stack[k], token)
        /\ \A i \in (k + 1)..Len(stack) : IsOperator(stack[i])
    BY KeptIs DEF GivesWay
  <2> HIDE DEF k
  <2>5. /\ output' \in Seq(Token)
        /\ \A i \in 1..Len(output') : IsNumber(output'[i]) \/ IsOperator(output'[i])
        /\ SubSeq(stack, 1, k) \in Seq(Token) /\ Len(SubSeq(stack, 1, k)) = k
        /\ \A i \in 1..k : SubSeq(stack, 1, k)[i] = stack[i]
    BY <2>2, <2>4, Unstacked
  <2>6. stack' \in Seq(Token)
    BY <2>2, <2>3, <2>5
  <2>7. \A i \in 1..Len(stack') :
          IsOperator(stack'[i]) \/ stack'[i].type = "LEFT_BRACKET"
    BY <2>2, <2>3, <2>4, <2>5 DEF OutputClean
  <2>8. OutputClean'
    BY <2>5, <2>7 DEF OutputClean, IsNumber, IsOperator
  <2>9. StackOrdered'
    BY <2>2, <2>3, <2>4, OrderedPush
  <2> QED
    BY <2>1, <2>2, <2>5, <2>6, <2>8, <2>9
<1>3. ASSUME ReadLeft
      PROVE  ParserInv'
  <2>1. NextToken \in Token /\ position' \in Nat \ {0}
    BY <1>0, <1>3 DEF ReadLeft
  <2> DEFINE token == NextToken
  <2>2. /\ stack' = Append(stack, token) /\ token.type = "LEFT_BRACKET"
        /\ output' = output /\ text' = text
    BY <1>3 DEF ReadLeft
  <2> HIDE DEF token
  <2>3. token \in Token /\ ~IsOperator(token)
    BY <2>1, <2>2 DEF token, IsOperator, Operators
  <2>4. stack' \in Seq(Token)
    BY <2>2, <2>3
  <2>5. \A i \in 1..Len(stack') :
          IsOperator(stack'[i]) \/ stack'[i].type = "LEFT_BRACKET"
    BY <2>2, <2>3 DEF OutputClean
  <2>6. OutputClean'
    BY <2>2, <2>5 DEF OutputClean, IsNumber, IsOperator
  <2>7. SubSeq(stack, 1, Len(stack)) = stack /\ Len(stack) \in 0..Len(stack)
    BY SubSeqFull
  <2>8. StackOrdered'
    BY <2>2, <2>3, <2>7, OrderedPush
  <2> QED
    BY <2>1, <2>2, <2>4, <2>6, <2>8
<1>4. ASSUME NEW k \in 0..Len(stack),
             \A i \in (k + 1)..Len(stack) : IsOperator(stack[i]),
             NEW rest \in 0..k,
             output' = output \o Above(k), stack' = SubSeq(stack, 1, rest),
             text' = text, position' \in Nat \ {0}
      PROVE  ParserInv'
  <2>1. /\ output' \in Seq(Token)
        /\ \A i \in 1..Len(output') : IsNumber(output'[i]) \/ IsOperator(output'[i])
    BY <1>4, Unstacked
  <2>2. /\ stack' \in Seq(Token) /\ Len(stack') = rest
        /\ \A i \in 1..rest : stack'[i] = stack[i]
        /\ rest <= Len(stack) /\ rest \in Nat
    BY <1>4
  <2>3. OutputClean'
    BY <2>1, <2>2, SMTT(30) DEF OutputClean, IsNumber, IsOperator
  <2>4. StackOrdered'
    BY <2>2, OrderedBelow
  <2> QED
    BY <1>4, <2>1, <2>2, <2>3, <2>4
<1>5. ASSUME ReadRight
      PROVE  ParserInv'
  <2>1. Opened \in 1..Len(stack) /\ \A i \in (Opened + 1)..Len(stack) : IsOperator(stack[i])
    BY <1>5, OpenedIs DEF ReadRight
  <2>2. position' \in Nat \ {0} /\ text' = text
    BY <1>0, <1>5 DEF ReadRight
  <2>3. output' = output \o Above(Opened) /\ stack' = SubSeq(stack, 1, Opened - 1)
    BY <1>5 DEF ReadRight
  <2>4. Opened \in 0..Len(stack) /\ Opened - 1 \in 0..Opened
    BY <2>1
  <2> HIDE DEF ParserInv, ParserOK
  <2> QED
    BY <2>1, <2>2, <2>3, <2>4, <1>4
<1>6. ASSUME LeftBrackets = {}
      PROVE  \A i \in 1..Len(stack) : IsOperator(stack[i])
  BY <1>6 DEF LeftBrackets, OutputClean
<1>7. ASSUME ReadUnopened
      PROVE  ParserInv'
  <2>1. \A i \in (0 + 1)..Len(stack) : IsOperator(stack[i])
    BY <1>6, <1>7 DEF ReadUnopened
  <2>2. position' \in Nat \ {0} /\ text' = text
    BY <1>0, <1>7 DEF ReadUnopened
  <2>3. output' = output \o Above(0) /\ stack' = SubSeq(stack, 1, 0)
    BY <1>7 DEF ReadUnopened
  <2>4. 0 \in 0..Len(stack) /\ 0 \in 0..0
    OBVIOUS
  <2> HIDE DEF ParserInv, ParserOK
  <2> QED
    BY <2>1, <2>2, <2>3, <2>4, <1>4
<1>8. ASSUME Flush
      PROVE  ParserInv'
  <2> DEFINE k == IF LeftBrackets = {} THEN 0 ELSE Opened
  <2>1. k \in 0..Len(stack) /\ \A i \in (k + 1)..Len(stack) : IsOperator(stack[i])
    <3>1. CASE LeftBrackets = {}
      BY <3>1, <1>6
    <3>2. CASE LeftBrackets # {}
      BY <3>2, OpenedIs
    <3> QED
      BY <3>1, <3>2
  <2>2. /\ output' = output \o Above(k) /\ stack' = SubSeq(stack, 1, k)
        /\ text' = text /\ position' \in Nat \ {0} /\ k \in 0..k
    BY <1>8, <2>1 DEF Flush
  <2> HIDE DEF ParserInv, ParserOK, k
  <2> QED
    BY <2>1, <2>2, <1>4
<1>9. ASSUME output' = output, stack' = stack, text' = text, position' \in Nat \ {0}
      PROVE  ParserInv'
  BY <1>9 DEF OutputClean, StackOrdered, IsNumber, IsOperator, Precedence,
              LeftAssociative
<1>10. ASSUME ReadNothing
       PROVE  ParserInv'
  BY <1>0, <1>9, <1>10 DEF ReadNothing
<1>11. ASSUME ReadThrows \/ EvaluateNumber \/ EvaluateOperator \/ Break \/ Finish
              \/ UNCHANGED vars
       PROVE  ParserInv'
  <2>1. UNCHANGED parser
    BY <1>11 DEF ReadThrows, EvaluateNumber, EvaluateOperator, Break, Finish, vars
  <2> QED
    BY <2>1, <1>9 DEF parser
<1> QED
  BY <1>1, <1>2, <1>3, <1>5, <1>7, <1>8, <1>10, <1>11 DEF Next

\* For every text, the stack of the parser is ordered by precedence and no
\* parenthesis reaches the output.
THEOREM Parser == Spec => []StackOrdered /\ []OutputClean
<1>1. Init => ParserInv
  BY DEF Init, ParserInv, ParserOK, OutputClean, StackOrdered
<1>2. ParserInv => StackOrdered /\ OutputClean
  BY DEF ParserInv
<1> QED
  BY <1>1, <1>2, InvNext, PTL DEF Spec
-----------------------------------------------------------------------------
(* The steps of the reading as a relation *)

\* A sequence from its end to its start, and the part of one above a place.
Reversed(w) == [i \in 1..Len(w) |-> w[Len(w) + 1 - i]]
Top(s, k) == [i \in 1..(Len(s) - k) |-> s[Len(s) + 1 - i]]

FollowsAt(t, p, type) == p < Len(t) /\ t[p + 1].type = type

\* The token that starts at a lexeme of a text, and its size.
TokenAt(t, p) ==
  CASE t[p].type = "number" -> [t[p] EXCEPT !.type = "INT64"]
    [] t[p].type = "name" -> [t[p] EXCEPT !.type = "VARIABLE"]
    [] t[p].type = "blank" -> NoToken
    [] t[p].type = "minus" ->
         IF FollowsAt(t, p, "blank") THEN [t[p] EXCEPT !.type = "SUBSTRACTION"]
         ELSE IF FollowsAt(t, p, "number")
         THEN [type |-> "INT64", value |-> -t[p + 1].value]
         ELSE NoToken
    [] OTHER -> t[p]

SizeAt(t, p) == IF t[p].type = "minus" /\ FollowsAt(t, p, "number") THEN 2 ELSE 1

\* What one step of the reading makes of the position, the output and the stack.
StaysAt(s, k, token) ==
  /\ k = 0 \/ ~GivesWay(s[k], token)
  /\ \A i \in (k + 1)..Len(s) : GivesWay(s[i], token)

OpenedAt(s, k) ==
  /\ s[k].type = "LEFT_BRACKET"
  /\ \A i \in (k + 1)..Len(s) : s[i].type # "LEFT_BRACKET"

Handles(token, o, s, o2, s2) ==
  \/ /\ IsNumber(token)
     /\ o2 = Append(o, token) /\ s2 = s
  \/ /\ IsOperator(token)
     /\ \E k \in 0..Len(s) : /\ StaysAt(s, k, token)
                             /\ o2 = o \o Top(s, k)
                             /\ s2 = Append(SubSeq(s, 1, k), token)
  \/ /\ token.type = "LEFT_BRACKET"
     /\ o2 = o /\ s2 = Append(s, token)
  \/ /\ token.type = "RIGHT_BRACKET"
     /\ \E k \in 1..Len(s) : /\ OpenedAt(s, k)
                             /\ o2 = o \o Top(s, k)
                             /\ s2 = SubSeq(s, 1, k - 1)
  \/ /\ token.type = "UNKNOW"
     /\ o2 = o /\ s2 = s

Step(t, c, d) ==
  /\ c[1] \in 1..Len(t)
  /\ ~(t[c[1]].type \in LooksAhead /\ c[1] = Len(t))
  /\ \E o2, s2 : /\ Handles(TokenAt(t, c[1]), c[2], c[3], o2, s2)
                 /\ d = <<c[1] + SizeAt(t, c[1]), o2, s2>>

\* The steps lead from one configuration to another.
Closed(t, S) == \A c \in S : \A d : Step(t, c, d) => d \in S
Leads(t, c, d) == \A S : Closed(t, S) /\ c \in S => d \in S

\* One way after another, and the way of a single step.
LEMMA LeadsOn ==
  ASSUME NEW t, NEW c, NEW d, NEW f, Leads(t, c, d), Leads(t, d, f)
  PROVE  Leads(t, c, f)
BY DEF Leads

LEMMA LeadsBy ==
  ASSUME NEW t, NEW c, NEW d, Step(t, c, d)
  PROVE  Leads(t, c, d)
BY DEF Leads, Closed

\* The steps are a function of the configuration.
LEMMA TokenKinds ==
  ASSUME NEW token
  PROVE  /\ IsNumber(token) =>
              /\ ~IsOperator(token)
              /\ token.type \notin {"LEFT_BRACKET", "RIGHT_BRACKET", "UNKNOW"}
         /\ IsOperator(token) =>
              token.type \notin {"LEFT_BRACKET", "RIGHT_BRACKET", "UNKNOW"}
BY SMTT(60) DEF IsNumber, IsOperator, Numbers, Operators, INFOS

\* What a token does to the output and the stack is determined: how much of the
\* stack stays, which parenthesis is closed, and so the step.
LEMMA StaysAtOne ==
  ASSUME NEW s, Len(s) \in Nat, NEW token, NEW k \in 0..Len(s), NEW j \in 0..Len(s),
         StaysAt(s, k, token), StaysAt(s, j, token)
  PROVE  k = j
<1>1. ASSUME NEW a \in 0..Len(s), NEW b \in 0..Len(s), a < b,
             StaysAt(s, a, token), StaysAt(s, b, token)
      PROVE  FALSE
  <2>1. b # 0 /\ b \in (a + 1)..Len(s)
    BY <1>1
  <2> QED
    BY <1>1, <2>1 DEF StaysAt
<1>2. k < j \/ j < k \/ k = j
  OBVIOUS
<1> QED
  BY <1>1, <1>2

LEMMA OpenedAtOne ==
  ASSUME NEW s, Len(s) \in Nat, NEW k \in 1..Len(s), NEW j \in 1..Len(s),
         OpenedAt(s, k), OpenedAt(s, j)
  PROVE  k = j
<1>1. ASSUME NEW a \in 1..Len(s), NEW b \in 1..Len(s), a < b,
             OpenedAt(s, a), OpenedAt(s, b)
      PROVE  FALSE
  <2>1. b \in (a + 1)..Len(s)
    BY <1>1
  <2> QED
    BY <1>1, <2>1 DEF OpenedAt
<1>2. k < j \/ j < k \/ k = j
  OBVIOUS
<1> QED
  BY <1>1, <1>2

LEMMA HandlesOne ==
  ASSUME NEW token, NEW o, NEW s, Len(s) \in Nat,
         NEW o2, NEW s2, NEW o3, NEW s3,
         Handles(token, o, s, o2, s2), Handles(token, o, s, o3, s3)
  PROVE  o2 = o3 /\ s2 = s3
<1>1. CASE IsNumber(token)
  BY <1>1, TokenKinds DEF Handles
<1>2. CASE IsOperator(token)
  <2>1. PICK k \in 0..Len(s) : /\ StaysAt(s, k, token)
                               /\ o2 = o \o Top(s, k)
                               /\ s2 = Append(SubSeq(s, 1, k), token)
    BY <1>2, TokenKinds DEF Handles
  <2>2. PICK j \in 0..Len(s) : /\ StaysAt(s, j, token)
                               /\ o3 = o \o Top(s, j)
                               /\ s3 = Append(SubSeq(s, 1, j), token)
    BY <1>2, TokenKinds DEF Handles
  <2>3. k = j
    BY <2>1, <2>2, StaysAtOne
  <2> QED
    BY <2>1, <2>2, <2>3
<1>3. CASE token.type = "RIGHT_BRACKET"
  <2>1. PICK k \in 1..Len(s) : /\ OpenedAt(s, k)
                               /\ o2 = o \o Top(s, k)
                               /\ s2 = SubSeq(s, 1, k - 1)
    BY <1>3, TokenKinds DEF Handles
  <2>2. PICK j \in 1..Len(s) : /\ OpenedAt(s, j)
                               /\ o3 = o \o Top(s, j)
                               /\ s3 = SubSeq(s, 1, j - 1)
    BY <1>3, TokenKinds DEF Handles
  <2>3. k = j
    BY <2>1, <2>2, OpenedAtOne
  <2> QED
    BY <2>1, <2>2, <2>3
<1>4. CASE ~IsNumber(token) /\ ~IsOperator(token) /\ token.type # "RIGHT_BRACKET"
  BY <1>4 DEF Handles
<1> QED
  BY <1>1, <1>2, <1>3, <1>4

LEMMA StepOne ==
  ASSUME NEW t, NEW c, Len(c[3]) \in Nat, NEW d, NEW f, Step(t, c, d), Step(t, c, f)
  PROVE  d = f
<1>1. PICK o2, s2 : /\ Handles(TokenAt(t, c[1]), c[2], c[3], o2, s2)
                    /\ d = <<c[1] + SizeAt(t, c[1]), o2, s2>>
  BY DEF Step
<1>2. PICK o3, s3 : /\ Handles(TokenAt(t, c[1]), c[2], c[3], o3, s3)
                    /\ f = <<c[1] + SizeAt(t, c[1]), o3, s3>>
  BY DEF Step
<1>3. o2 = o3 /\ s2 = s3
  BY <1>1, <1>2, HandlesOne
<1> QED
  BY <1>1, <1>2, <1>3

\* After the one step there is, the rest of the way is still ahead.
LEMMA LeadsAfter ==
  ASSUME NEW t, NEW c, Len(c[3]) \in Nat, NEW d, NEW f,
         Step(t, c, d), Leads(t, c, f), c # f
  PROVE  Leads(t, d, f)
<1> SUFFICES ASSUME NEW S, Closed(t, S), d \in S
             PROVE  f \in S
  BY DEF Leads
<1>1. Closed(t, S \cup {c})
  BY StepOne DEF Closed
<1> QED
  BY <1>1 DEF Leads

\* No step leads nowhere.
LEMMA LeadsStuck ==
  ASSUME NEW t, NEW c, NEW f, Leads(t, c, f), \A d : ~Step(t, c, d)
  PROVE  c = f
<1>1. Closed(t, {c})
  BY DEF Closed
<1> QED
  BY <1>1 DEF Leads
-----------------------------------------------------------------------------
(* Sequences *)

\* Facts on concatenations are predicates, which the provers instantiate before they
\* look inside.
Regroups(a, b, c) == (a \o b) \o c = a \o (b \o c)

LEMMA Associative == \A S : \A a, b, c \in Seq(S) : Regroups(a, b, c)
<1> TAKE S
<1> TAKE a, b, c \in Seq(S)
<1>1. (a \o b) \o c = a \o (b \o c)
  BY ConcatAssociative
<1> QED
  BY <1>1 DEF Regroups

LEMMA TokensRegroup == \A a, b, c \in Seq(Token) : Regroups(a, b, c)
BY Associative, Zenon

LEMMA TokensJoin == \A a, b \in Seq(Token) : a \o b \in Seq(Token)
BY ConcatProperties

\* Four sequences and five.
Flattens4(a, b, c, d) == (a \o b) \o (c \o d) = (a \o (b \o c)) \o d

LEMMA ConcatFour == \A a, b, c, d \in Seq(Token) : Flattens4(a, b, c, d)
<1> TAKE a, b, c, d \in Seq(Token)
<1> DEFINE ab == a \o b
<1>1. Regroups(a, b, c)
  BY TokensRegroup, Zenon
<1>2. ab \in Seq(Token)
  BY TokensJoin
<1>3. Regroups(ab, c, d)
  <2> HIDE DEF ab
  <2> QED
    BY <1>2, TokensRegroup, Zenon
<1>4. (ab \o c) \o d = ab \o (c \o d)
  BY <1>3, Zenon DEF Regroups
<1>5. ab \o c = a \o (b \o c)
  BY <1>1, Zenon DEF Regroups
<1>6. ab \o (c \o d) = (a \o (b \o c)) \o d
  <2> HIDE DEF ab
  <2> QED
    BY <1>4, <1>5
<1> QED
  BY <1>6 DEF Flattens4

Flattens(p, q, s, one, rest) ==
  (((p \o q) \o s) \o one) \o rest = p \o (q \o (s \o (one \o rest)))

LEMMA ConcatFive ==
  \A p, q, s, one, rest \in Seq(Token) : Flattens(p, q, s, one, rest)
<1> TAKE p, q, s, one, rest \in Seq(Token)
<1> DEFINE pq == p \o q
           all == pq \o s
           k == one \o rest
           sk == s \o k
<1>1. pq \in Seq(Token) /\ k \in Seq(Token)
  BY TokensJoin, Zenon
<1> HIDE DEF pq, k
<1>2. all \in Seq(Token) /\ sk \in Seq(Token)
  BY <1>1, TokensJoin, Zenon
<1> HIDE DEF all, sk
<1>3. Regroups(p, q, sk) /\ Regroups(pq, s, k) /\ Regroups(all, one, rest)
  BY <1>1, <1>2, TokensRegroup, Zenon
<1>4. (p \o q) \o sk = p \o (q \o sk)
  BY <1>3, Zenon DEF Regroups
<1>5. all \o k = pq \o sk
  BY <1>3, Zenon DEF Regroups, all, sk
<1>6. (all \o one) \o rest = all \o k
  BY <1>3, Zenon DEF Regroups, k
<1>7. (all \o one) \o rest = p \o (q \o sk)
  BY <1>4, <1>5, <1>6, Zenon DEF pq
<1> QED
  BY <1>7, Zenon DEF Flattens, all, pq, sk, k

\* A reversed sequence has the elements of the sequence.
LEMMA ReversedIs ==
  ASSUME NEW w \in Seq(Token)
  PROVE  /\ Reversed(w) \in Seq(Token)
         /\ Len(Reversed(w)) = Len(w)
         /\ \A i \in 1..Len(w) : Reversed(w)[i] = w[Len(w) + 1 - i]
<1>1. Len(w) \in Nat /\ \A i \in 1..Len(w) : w[Len(w) + 1 - i] \in Token
  OBVIOUS
<1> QED
  BY <1>1, IsASeq DEF Reversed

LEMMA ReversedEmpty == Reversed(<<>>) = <<>>
<1>1. <<>> \in Seq(Token) /\ Len(<<>>) = 0
  OBVIOUS
<1>2. Reversed(<<>>) \in Seq(Token) /\ Len(Reversed(<<>>)) = 0
  BY <1>1, ReversedIs
<1> QED
  BY <1>2, EmptySeq

\* The first one comes last.
LEMMA ReversedPush ==
  ASSUME NEW x \in Token, NEW w \in Seq(Token)
  PROVE  Reversed(<<x>> \o w) = Reversed(w) \o <<x>>
<1> DEFINE v == <<x>> \o w
           u == Reversed(w) \o <<x>>
<1>1. /\ v \in Seq(Token) /\ Len(v) = Len(w) + 1 /\ v[1] = x
      /\ \A i \in 1..Len(w) : v[i + 1] = w[i]
  OBVIOUS
<1>2. Reversed(w) \in Seq(Token) /\ Len(Reversed(w)) = Len(w)
  BY ReversedIs
<1>3. /\ u \in Seq(Token) /\ Len(u) = Len(w) + 1 /\ u[Len(w) + 1] = x
      /\ \A i \in 1..Len(w) : u[i] = Reversed(w)[i]
  BY <1>2
<1> HIDE DEF u, v
<1>4. /\ Reversed(v) \in Seq(Token) /\ Len(Reversed(v)) = Len(w) + 1
      /\ \A i \in 1..(Len(w) + 1) : Reversed(v)[i] = v[Len(w) + 2 - i]
  BY <1>1, ReversedIs
<1>5. ASSUME NEW i \in 1..(Len(w) + 1)
      PROVE  Reversed(v)[i] = u[i]
  <2>1. CASE i = Len(w) + 1
    BY <1>1, <1>3, <1>4, <2>1
  <2>2. CASE i # Len(w) + 1
    <3>1. i \in 1..Len(w) /\ Len(w) + 1 - i \in 1..Len(w)
      BY <2>2
    <3>2. u[i] = w[Len(w) + 1 - i]
      BY <1>3, <3>1, ReversedIs
    <3>3. v[(Len(w) + 1 - i) + 1] = w[Len(w) + 1 - i]
      BY <1>1, <3>1
    <3>4. (Len(w) + 1 - i) + 1 = Len(w) + 2 - i
      BY <3>1
    <3> QED
      BY <1>4, <3>2, <3>3, <3>4
  <2> QED
    BY <2>1, <2>2
<1>6. Reversed(v) = u
  BY <1>3, <1>4, <1>5, SeqEqual
<1> QED
  BY <1>6 DEF u, v

\* What stands above the base of a stack.
LEMMA StackSplit ==
  ASSUME NEW s \in Seq(Token), NEW w \in Seq(Token)
  PROVE  /\ s \o w \in Seq(Token)
         /\ Len(s \o w) = Len(s) + Len(w)
         /\ Len(s) \in Nat /\ Len(w) \in Nat
         /\ Top(s \o w, Len(s)) = Reversed(w)
         /\ SubSeq(s \o w, 1, Len(s)) = s
         /\ \A i \in 1..Len(s) : (s \o w)[i] = s[i]
         /\ \A i \in (Len(s) + 1)..(Len(s) + Len(w)) : (s \o w)[i] = w[i - Len(s)]
<1> DEFINE v == s \o w
<1>1. /\ v \in Seq(Token) /\ Len(v) = Len(s) + Len(w)
      /\ Len(s) \in Nat /\ Len(w) \in Nat
      /\ \A i \in 1..Len(s) : v[i] = s[i]
      /\ \A i \in (Len(s) + 1)..(Len(s) + Len(w)) : v[i] = w[i - Len(s)]
  BY ConcatProperties
<1> HIDE DEF v
<1>2. Top(v, Len(s)) = Reversed(w)
  <2>1. Len(v) - Len(s) = Len(w)
    BY <1>1
  <2>2. \A i \in 1..Len(w) : v[Len(v) + 1 - i] = w[Len(w) + 1 - i]
    <3> TAKE i \in 1..Len(w)
    <3>1. /\ Len(v) + 1 - i \in (Len(s) + 1)..(Len(s) + Len(w))
          /\ (Len(v) + 1 - i) - Len(s) = Len(w) + 1 - i
      BY <1>1
    <3> QED
      BY <1>1, <3>1
  <2> QED
    BY <2>1, <2>2 DEF Top, Reversed
<1>3. SubSeq(v, 1, Len(s)) = s
  <2>1. /\ SubSeq(v, 1, Len(s)) \in Seq(Token)
        /\ Len(SubSeq(v, 1, Len(s))) = Len(s)
        /\ \A i \in 1..Len(s) : SubSeq(v, 1, Len(s))[i] = v[i]
    BY <1>1
  <2> QED
    BY <1>1, <2>1, SeqEqual
<1> QED
  BY <1>1, <1>2, <1>3 DEF v
-----------------------------------------------------------------------------
(* Texts *)

TextAt(t, p, s) ==
  \A i \in 1..Len(s) : p + i - 1 \in 1..Len(t) /\ t[p + i - 1] = s[i]

\* The places of two texts, one after the other.
LEMMA TextSplit ==
  ASSUME NEW t, NEW p \in Nat \ {0}, NEW s1 \in Seq(Lexeme), NEW s2 \in Seq(Lexeme),
         TextAt(t, p, s1 \o s2)
  PROVE  /\ TextAt(t, p, s1)
         /\ TextAt(t, p + Len(s1), s2)
         /\ Len(s1 \o s2) = Len(s1) + Len(s2)
         /\ Len(s1) \in Nat /\ Len(s2) \in Nat
<1> DEFINE s == s1 \o s2
<1>1. /\ Len(s) = Len(s1) + Len(s2) /\ Len(s1) \in Nat /\ Len(s2) \in Nat
      /\ \A i \in 1..Len(s1) : s[i] = s1[i]
      /\ \A i \in 1..Len(s2) : s[Len(s1) + i] = s2[i]
  BY ConcatProperties
<1>2. TextAt(t, p, s)
  OBVIOUS
<1> HIDE DEF s
<1>3. TextAt(t, p, s1)
  BY <1>1, <1>2 DEF TextAt
<1>4. ASSUME NEW i \in 1..Len(s2)
      PROVE  (p + Len(s1)) + i - 1 \in 1..Len(t) /\ t[(p + Len(s1)) + i - 1] = s2[i]
  <2>1. Len(s1) + i \in 1..Len(s) /\ p + (Len(s1) + i) - 1 = (p + Len(s1)) + i - 1
    BY <1>1
  <2> QED
    BY <1>1, <1>2, <2>1 DEF TextAt
<1> QED
  BY <1>1, <1>3, <1>4 DEF TextAt, s
-----------------------------------------------------------------------------
(* Single lexemes *)

\* The symbols are lexemes, and those of the table are tokens.
LEMMA SymbolType ==
  /\ \A type \in DOMAIN INFOS \cup {"blank", "minus"} : Symbol(type) \in Lexeme
  /\ \A type \in DOMAIN INFOS : Symbol(type) \in Token
BY DEF Symbol, Lexeme, Token

\* The types that are operators, and those that are not.
LEMMA OpensTypes ==
  /\ {"LEFT_BRACKET", "RIGHT_BRACKET"} \subseteq DOMAIN INFOS
  /\ Operators \subseteq DOMAIN INFOS
  /\ DOMAIN INFOS \cap {"number", "name", "blank", "minus", "UNKNOW"} = {}
  /\ "SUBSTRACTION" \in Operators
  /\ {"LEFT_BRACKET", "RIGHT_BRACKET"} \cap Operators = {}
BY SMTT(60) DEF INFOS, Operators

\* A lexeme that is not the last one of the text.
LEMMA ReadsLexeme ==
  ASSUME NEW t, Len(t) \in Nat, NEW p \in 1..Len(t), NEW o, NEW s, NEW o2, NEW s2,
         p < Len(t) \/ t[p].type \notin LooksAhead,
         Handles(TokenAt(t, p), o, s, o2, s2)
  PROVE  Leads(t, <<p, o, s>>, <<p + SizeAt(t, p), o2, s2>>)
<1> DEFINE c == <<p, o, s>>
           d == <<p + SizeAt(t, p), o2, s2>>
<1>1. c[1] = p /\ c[2] = o /\ c[3] = s
  OBVIOUS
<1> HIDE DEF c, Handles
<1>2. Step(t, c, d)
  BY <1>1 DEF Step
<1>3. Leads(t, c, d)
  BY <1>2, LeadsBy
<1> QED
  BY <1>3 DEF c

\* A symbol and a blank.
LEMMA ReadsSymbol ==
  ASSUME NEW t, Len(t) \in Nat, NEW p \in 1..Len(t), NEW o, NEW s, NEW o2, NEW s2,
         NEW type \in DOMAIN INFOS, t[p] = Symbol(type),
         p < Len(t) \/ type \notin LooksAhead,
         Handles(Symbol(type), o, s, o2, s2)
  PROVE  Leads(t, <<p, o, s>>, <<p + 1, o2, s2>>)
<1>1. t[p].type = type /\ type \notin {"number", "name", "blank", "minus"}
  BY OpensTypes DEF Symbol
<1>2. TokenAt(t, p) = Symbol(type) /\ SizeAt(t, p) = 1
  BY <1>1 DEF TokenAt, SizeAt
<1> QED
  BY <1>1, <1>2, ReadsLexeme

LEMMA ReadsBlank ==
  ASSUME NEW t, Len(t) \in Nat, NEW p \in 1..Len(t), NEW o, NEW s,
         t[p] = Symbol("blank")
  PROVE  Leads(t, <<p, o, s>>, <<p + 1, o, s>>)
<1>1. t[p].type = "blank" /\ "blank" \notin LooksAhead
  BY DEF Symbol, LooksAhead
<1>2. TokenAt(t, p) = NoToken /\ SizeAt(t, p) = 1
  BY <1>1 DEF TokenAt, SizeAt
<1>3. Handles(NoToken, o, s, o, s)
  BY DEF Handles, NoToken
<1> QED
  BY <1>1, <1>2, <1>3, ReadsLexeme

\* An operator pushed on a stack whose upper part gives way to it.
LEMMA ReadsOperator ==
  ASSUME NEW t, Len(t) \in Nat, NEW p \in 1..Len(t), p < Len(t),
         NEW o, NEW s \in Seq(Token), NEW w \in Seq(Token), NEW op \in Operators,
         \A i \in 1..Len(w) : GivesWay(w[i], Symbol(op)),
         Len(s) = 0 \/ ~GivesWay(s[Len(s)], Symbol(op))
  PROVE  Handles(Symbol(op), o, s \o w, o \o Reversed(w), Append(s, Symbol(op)))
<1> DEFINE v == s \o w
           k == Len(s)
<1>1. /\ Len(v) = k + Len(w) /\ k \in Nat /\ Len(w) \in Nat
      /\ Top(v, k) = Reversed(w) /\ SubSeq(v, 1, k) = s
      /\ \A i \in 1..k : v[i] = s[i]
      /\ \A i \in (k + 1)..(k + Len(w)) : v[i] = w[i - k]
  BY StackSplit
<1> HIDE DEF v
<1>2. k \in 0..Len(v) /\ (k # 0 => k \in 1..k)
  BY <1>1
<1>3. StaysAt(v, k, Symbol(op))
  <2>1. k = 0 \/ ~GivesWay(v[k], Symbol(op))
    BY <1>1, <1>2
  <2>2. ASSUME NEW i \in (k + 1)..Len(v)
        PROVE  GivesWay(v[i], Symbol(op))
    <3>1. i - k \in 1..Len(w) /\ v[i] = w[i - k]
      BY <1>1
    <3> QED
      BY <3>1
  <2> QED
    BY <2>1, <2>2 DEF StaysAt
<1>4. IsOperator(Symbol(op))
  BY DEF IsOperator, Symbol
<1>5. /\ o \o Reversed(w) = o \o Top(v, k)
      /\ Append(s, Symbol(op)) = Append(SubSeq(v, 1, k), Symbol(op))
  BY <1>1
<1>6. Handles(Symbol(op), o, v, o \o Reversed(w), Append(s, Symbol(op)))
  BY <1>2, <1>3, <1>4, <1>5, Zenon DEF Handles
<1> QED
  BY <1>6 DEF v

\* A closing parenthesis takes the operators above the opening one.
LEMMA ReadsRight ==
  ASSUME NEW o, NEW s \in Seq(Token), NEW w \in Seq(Token),
         \A i \in 1..Len(w) : IsOperator(w[i])
  PROVE  Handles(Symbol("RIGHT_BRACKET"), o,
                 Append(s, Symbol("LEFT_BRACKET")) \o w, o \o Reversed(w), s)
<1> DEFINE b == Append(s, Symbol("LEFT_BRACKET"))
           v == b \o w
           k == Len(s) + 1
<1>1. Symbol("LEFT_BRACKET") \in Token
  BY SymbolType, OpensTypes
<1>2. /\ b \in Seq(Token) /\ Len(b) = k /\ b[k] = Symbol("LEFT_BRACKET")
      /\ \A i \in 1..Len(s) : b[i] = s[i]
      /\ Len(s) \in Nat
  BY <1>1, AppendProperties
<1> HIDE DEF b
<1>3. /\ Len(v) = Len(b) + Len(w) /\ Len(w) \in Nat /\ v \in Seq(Token)
      /\ Top(v, Len(b)) = Reversed(w)
      /\ \A i \in 1..Len(b) : v[i] = b[i]
      /\ \A i \in (Len(b) + 1)..(Len(b) + Len(w)) : v[i] = w[i - Len(b)]
  BY <1>2, StackSplit
<1> HIDE DEF v
<1>4. k \in 1..Len(v) /\ v[k] = Symbol("LEFT_BRACKET") /\ Top(v, k) = Reversed(w)
  BY <1>2, <1>3
<1>5. ASSUME NEW i \in (k + 1)..Len(v)
      PROVE  v[i].type # "LEFT_BRACKET"
  <2>1. i - k \in 1..Len(w) /\ v[i] = w[i - k]
    BY <1>2, <1>3
  <2> QED
    BY <2>1, OpensTypes DEF IsOperator
<1>6. OpenedAt(v, k)
  BY <1>4, <1>5 DEF OpenedAt, Symbol
<1>7. SubSeq(v, 1, k - 1) = s
  <2>1. k - 1 = Len(s)
    BY <1>2
  <2>2. /\ SubSeq(v, 1, Len(s)) \in Seq(Token)
        /\ Len(SubSeq(v, 1, Len(s))) = Len(s)
        /\ \A i \in 1..Len(s) : SubSeq(v, 1, Len(s))[i] = v[i]
    BY <1>2, <1>3
  <2>3. \A i \in 1..Len(s) : v[i] = s[i]
    BY <1>2, <1>3
  <2> QED
    BY <2>1, <2>2, <2>3, SeqEqual
<1>8. Symbol("RIGHT_BRACKET").type = "RIGHT_BRACKET"
  BY DEF Symbol
<1>9. o \o Reversed(w) = o \o Top(v, k)
  BY <1>4
<1>10. Handles(Symbol("RIGHT_BRACKET"), o, v, o \o Reversed(w), s)
  BY <1>4, <1>6, <1>7, <1>8, <1>9, Zenon DEF Handles
<1> QED
  BY <1>10 DEF v, b

\* An opening parenthesis waits on the stack.
LEMMA ReadsLeft ==
  ASSUME NEW o, NEW s
  PROVE  Handles(Symbol("LEFT_BRACKET"), o, s, o, Append(s, Symbol("LEFT_BRACKET")))
BY DEF Handles, Symbol
-----------------------------------------------------------------------------
(* What the parser makes of a text *)

\* The sign of an operator, with the blanks of a subtraction.
LEMMA ReadsSign ==
  ASSUME NEW t \in Seq(Lexeme), NEW p \in Nat \ {0}, NEW o \in Seq(Token),
         NEW s \in Seq(Token), NEW w \in Seq(Token), NEW op \in Operators,
         TextAt(t, p, Sign1(op)), p + Len(Sign1(op)) <= Len(t),
         \A i \in 1..Len(w) : GivesWay(w[i], Symbol(op)),
         Len(s) = 0 \/ ~GivesWay(s[Len(s)], Symbol(op))
  PROVE  Leads(t, <<p, o, s \o w>>,
               <<p + Len(Sign1(op)), o \o Reversed(w), Append(s, Symbol(op))>>)
<1> DEFINE v == s \o w
           o2 == o \o Reversed(w)
           s2 == Append(s, Symbol(op))
<1>1. Len(t) \in Nat
  OBVIOUS
<1>2. ASSUME NEW q \in 1..Len(t), q < Len(t)
      PROVE  Handles(Symbol(op), o, v, o2, s2)
  BY <1>1, <1>2, ReadsOperator
<1> HIDE DEF v, o2, s2
<1>3. CASE op # "SUBSTRACTION"
  <2>1. Len(Sign1(op)) = 1 /\ Sign1(op)[1] = Symbol(op)
    BY <1>3 DEF Sign1
  <2>2. p \in 1..Len(t) /\ p < Len(t) /\ t[p] = Symbol(op)
    <3>1. p + 1 - 1 = p
      OBVIOUS
    <3> QED
      BY <1>1, <2>1, <3>1 DEF TextAt
  <2>3. op \in DOMAIN INFOS
    BY OpensTypes
  <2>4. Handles(Symbol(op), o, v, o2, s2)
    BY <1>2, <2>2
  <2>5. Leads(t, <<p, o, v>>, <<p + 1, o2, s2>>)
    BY <1>1, <2>2, <2>3, <2>4, ReadsSymbol
  <2> QED
    BY <2>1, <2>5 DEF v, o2, s2
<1>4. CASE op = "SUBSTRACTION"
  <2>1. /\ Len(Sign1(op)) = 3 /\ Sign1(op)[1] = Symbol("blank")
        /\ Sign1(op)[2] = Symbol("minus") /\ Sign1(op)[3] = Symbol("blank")
    BY <1>4 DEF Sign1
  <2>2. /\ p \in 1..Len(t) /\ p + 1 \in 1..Len(t) /\ p + 2 \in 1..Len(t)
        /\ t[p] = Symbol("blank") /\ t[p + 1] = Symbol("minus")
        /\ t[p + 2] = Symbol("blank")
    <3>1. p + 1 - 1 = p /\ p + 2 - 1 = p + 1 /\ p + 3 - 1 = p + 2
      OBVIOUS
    <3>2. 1 \in 1..3 /\ 2 \in 1..3 /\ 3 \in 1..3
      OBVIOUS
    <3> QED
      BY <2>1, <3>1, <3>2 DEF TextAt
  <2>3. Leads(t, <<p, o, v>>, <<p + 1, o, v>>)
    BY <1>1, <2>2, ReadsBlank
  <2>4. p + 1 < Len(t) /\ (p + 1) + 1 = p + 2 /\ (p + 2) + 1 = p + 3
    BY <1>1, <2>2
  <2>5. TokenAt(t, p + 1) = Symbol(op) /\ SizeAt(t, p + 1) = 1
    <3>1. t[p + 1].type = "minus" /\ t[p + 2].type = "blank"
      BY <2>2 DEF Symbol
    <3>2. FollowsAt(t, p + 1, "blank") /\ ~FollowsAt(t, p + 1, "number")
      BY <2>4, <3>1 DEF FollowsAt
    <3>3. TokenAt(t, p + 1) = [t[p + 1] EXCEPT !.type = "SUBSTRACTION"]
      BY <3>1, <3>2 DEF TokenAt
    <3>4. [Symbol("minus") EXCEPT !.type = "SUBSTRACTION"] = Symbol("SUBSTRACTION")
      BY DEF Symbol
    <3> QED
      BY <1>4, <2>2, <3>2, <3>3, <3>4 DEF SizeAt
  <2>6. Handles(TokenAt(t, p + 1), o, v, o2, s2)
    BY <1>2, <2>2, <2>4, <2>5
  <2>7. Leads(t, <<p + 1, o, v>>, <<p + 2, o2, s2>>)
    BY <1>1, <2>2, <2>4, <2>5, <2>6, ReadsLexeme
  <2>8. Leads(t, <<p + 2, o2, s2>>, <<p + 3, o2, s2>>)
    BY <1>1, <2>2, <2>4, ReadsBlank
  <2>9. Leads(t, <<p, o, v>>, <<p + 3, o2, s2>>)
    BY <2>3, <2>7, <2>8, LeadsOn
  <2> QED
    BY <2>1, <2>9 DEF v, o2, s2
<1> QED
  BY <1>3, <1>4

\* An operand that leaves nothing on the stack.
Whole(lexemes, tokens) ==
  \A t \in Seq(Lexeme), p \in Nat \ {0}, o \in Seq(Token), s \in Seq(Token) :
    TextAt(t, p, lexemes) =>
      Leads(t, <<p, o, s>>, <<p + Len(lexemes), o \o tokens, s>>)

\* A number, with its sign or without, and a name.
LEMMA WholeNumber ==
  ASSUME NEW n \in Int
  PROVE  Whole(Number(n).text, Number(n).queue)
<1> DEFINE token == [type |-> "INT64", value |-> n]
<1>1. Number(n).queue = <<token>>
  BY DEF Number, Expression
<1>2. token \in Token /\ IsNumber(token)
  BY DEF Token, IsNumber, Numbers
<1> SUFFICES ASSUME NEW t \in Seq(Lexeme), NEW p \in Nat \ {0},
                    NEW o \in Seq(Token), NEW s \in Seq(Token),
                    TextAt(t, p, Number(n).text)
             PROVE  Leads(t, <<p, o, s>>, <<p + Len(Number(n).text), o \o <<token>>, s>>)
  BY <1>1 DEF Whole
<1> HIDE DEF token
<1>3. Append(o, token) = o \o <<token>>
  BY <1>2, AppendIsConcat
<1>4. Handles(token, o, s, o \o <<token>>, s)
  BY <1>2, <1>3 DEF Handles
<1>5. Len(t) \in Nat
  OBVIOUS
<1>6. CASE n < 0
  <2>1. Number(n).text = <<Symbol("minus"), [type |-> "number", value |-> -n]>>
    BY <1>6 DEF Number, Expression
  <2>2. /\ p \in 1..Len(t) /\ p + 1 \in 1..Len(t) /\ t[p] = Symbol("minus")
        /\ t[p + 1] = [type |-> "number", value |-> -n]
        /\ Len(Number(n).text) = 2
    <3>1. p + 1 - 1 = p /\ p + 2 - 1 = p + 1 /\ 1 \in 1..2 /\ 2 \in 1..2
      OBVIOUS
    <3> QED
      BY <2>1, <3>1 DEF TextAt
  <2>3. p < Len(t) /\ t[p].type = "minus" /\ t[p + 1].type = "number"
        /\ -t[p + 1].value = n
    BY <1>5, <2>2 DEF Symbol
  <2>4. ~FollowsAt(t, p, "blank") /\ FollowsAt(t, p, "number")
    BY <2>3 DEF FollowsAt
  <2>5. TokenAt(t, p) = token /\ SizeAt(t, p) = 2
    BY <2>3, <2>4 DEF TokenAt, SizeAt, token
  <2> QED
    BY <1>4, <1>5, <2>2, <2>3, <2>5, ReadsLexeme
<1>7. CASE ~(n < 0)
  <2>1. Number(n).text = <<[type |-> "number", value |-> n]>>
    BY <1>7 DEF Number, Expression
  <2>2. /\ p \in 1..Len(t) /\ t[p] = [type |-> "number", value |-> n]
        /\ Len(Number(n).text) = 1
    <3>1. p + 1 - 1 = p /\ 1 \in 1..1
      OBVIOUS
    <3> QED
      BY <2>1, <3>1 DEF TextAt
  <2>3. t[p].type = "number" /\ "number" \notin LooksAhead
    BY <2>2 DEF LooksAhead
  <2>4. TokenAt(t, p) = [t[p] EXCEPT !.type = "INT64"] /\ SizeAt(t, p) = 1
    BY <2>3 DEF TokenAt, SizeAt
  <2>5. TokenAt(t, p) = token
    BY <2>2, <2>4 DEF token
  <2> QED
    BY <1>4, <1>5, <2>2, <2>3, <2>4, <2>5, ReadsLexeme
<1> QED
  BY <1>6, <1>7

LEMMA WholeName ==
  ASSUME NEW n \in Int
  PROVE  Whole(Name(n).text, Name(n).queue)
<1> DEFINE token == [type |-> "VARIABLE", value |-> n]
<1>1. Name(n).queue = <<token>> /\ Name(n).text = <<[type |-> "name", value |-> n]>>
  BY DEF Name, Expression
<1>2. token \in Token /\ IsNumber(token)
  BY DEF Token, IsNumber, Numbers
<1> SUFFICES ASSUME NEW t \in Seq(Lexeme), NEW p \in Nat \ {0},
                    NEW o \in Seq(Token), NEW s \in Seq(Token),
                    TextAt(t, p, Name(n).text)
             PROVE  Leads(t, <<p, o, s>>, <<p + Len(Name(n).text), o \o <<token>>, s>>)
  BY <1>1 DEF Whole
<1> HIDE DEF token
<1>3. Append(o, token) = o \o <<token>>
  BY <1>2, AppendIsConcat
<1>4. Handles(token, o, s, o \o <<token>>, s)
  BY <1>2, <1>3 DEF Handles
<1>5. Len(t) \in Nat
  OBVIOUS
<1>6. /\ p \in 1..Len(t) /\ t[p] = [type |-> "name", value |-> n]
      /\ Len(Name(n).text) = 1
  <2>1. p + 1 - 1 = p /\ 1 \in 1..1
    OBVIOUS
  <2> QED
    BY <1>1, <2>1 DEF TextAt
<1>7. t[p].type = "name" /\ "name" \notin LooksAhead
  BY <1>6 DEF LooksAhead
<1>8. TokenAt(t, p) = [t[p] EXCEPT !.type = "VARIABLE"] /\ SizeAt(t, p) = 1
  BY <1>7 DEF TokenAt, SizeAt
<1>9. TokenAt(t, p) = token
  BY <1>6, <1>8 DEF token
<1> QED
  BY <1>4, <1>5, <1>6, <1>7, <1>8, <1>9, ReadsLexeme
-----------------------------------------------------------------------------
(* The levels of the reference and the precedences of the code *)

\* The precedence of each level.
Tightness == <<10, 20, 40, 50, 60, 70, 80, 90, 100, 110, 120>>

\* The levels one by one, and what the table of token.cpp says of them.
LEMMA LevelsAre ==
  /\ DOMAIN Levels = 1..11 /\ Tightest = 12
  /\ Levels[1] = {"LOGICAL_OR"} /\ Levels[2] = {"LOGICAL_AND"}
  /\ Levels[3] = {"BITWISE_OR"} /\ Levels[4] = {"BITWISE_XOR"}
  /\ Levels[5] = {"BITWISE_AND"}
  /\ Levels[6] = {"LOGICAL_EQUAL", "LOGICAL_NOT_EQUAL"}
  /\ Levels[7] = {"LOGICAL_LESS", "LOGICAL_LESS_OR_EQUAL", "LOGICAL_GREATER",
                  "LOGICAL_GREATER_OR_EQUAL"}
  /\ Levels[8] = {"SHIFT_LEFT", "SHIFT_RIGHT"}
  /\ Levels[9] = {"ADDITION", "SUBSTRACTION"}
  /\ Levels[10] = {"MULTIPLICATION", "DIVISION", "REMAINDER"}
  /\ Levels[11] = {"POWER"}
<1>1. Len(Levels) = 11
  BY DEF Levels
<1> QED
  BY <1>1 DEF Levels, Tightest

LEMMA LevelIs ==
  ASSUME NEW i \in 1..11, NEW op \in Levels[i]
  PROVE  LevelOf(op) = i /\ op \in Binary
<1>1. \A j \in 1..11 : op \in Levels[j] => j = i
  BY LevelsAre
<1>2. LevelOf(op) \in 1..11 /\ op \in Levels[LevelOf(op)]
  BY LevelsAre DEF LevelOf
<1> QED
  BY <1>1, <1>2, LevelsAre DEF Binary

LEMMA InfosAre ==
  /\ \A op \in Operators : op \in DOMAIN INFOS
  /\ \A i \in 1..11 : \A op \in Levels[i] :
       /\ op \in Operators
       /\ INFOS[op][1] = Tightness[i]
       /\ INFOS[op][2] = "left" <=> i # 11
       /\ INFOS[op][3] = 2
  /\ {"TERNARY_QUESTION_MARK", "TERNARY_COLON", "BITWISE_NOT"} \subseteq Operators
  /\ INFOS["TERNARY_QUESTION_MARK"] = <<5, "right", 3>>
  /\ INFOS["TERNARY_COLON"] = <<5, "right", 1>>
  /\ INFOS["BITWISE_NOT"] = <<30, "left", 1>>
<1>1. \A op \in Operators : op \in DOMAIN INFOS
  BY DEF Operators
<1>2. /\ {"TERNARY_QUESTION_MARK", "TERNARY_COLON", "BITWISE_NOT"} \subseteq Operators
      /\ INFOS["TERNARY_QUESTION_MARK"] = <<5, "right", 3>>
      /\ INFOS["TERNARY_COLON"] = <<5, "right", 1>>
      /\ INFOS["BITWISE_NOT"] = <<30, "left", 1>>
  BY SMTT(60) DEF INFOS, Operators
<1>3. ASSUME NEW i \in 1..11, NEW op \in Levels[i]
      PROVE  /\ op \in Operators
             /\ INFOS[op][1] = Tightness[i]
             /\ INFOS[op][2] = "left" <=> i # 11
             /\ INFOS[op][3] = 2
  BY LevelsAre, SMTT(60) DEF INFOS, Operators, Tightness
<1> QED
  BY <1>1, <1>2, <1>3

\* A higher level has a higher precedence.
LEMMA TightnessGrows ==
  /\ \A i \in 1..11 : Tightness[i] \in Int /\ Tightness[i] > 5
  /\ \A i, j \in 1..11 : i < j => Tightness[i] < Tightness[j]
BY DEF Tightness

\* The operators that may stand in a text of a level without parentheses.
OpsFrom(level) ==
  {op \in Binary : LevelOf(op) >= level}
    \cup IF level = 0 THEN {"TERNARY_QUESTION_MARK", "TERNARY_COLON"} ELSE {}

\* An operator has the precedence and the associativity of its level.
LEMMA BinaryIs ==
  ASSUME NEW op \in Binary
  PROVE  /\ LevelOf(op) \in 1..11 /\ op \in Levels[LevelOf(op)]
         /\ op \in Operators
         /\ Precedence(Symbol(op)) = Tightness[LevelOf(op)]
         /\ LeftAssociative(Symbol(op)) <=> op # "POWER"
         /\ op = "POWER" <=> LevelOf(op) = 11
<1>1. PICK i \in 1..11 : op \in Levels[i]
  BY LevelsAre DEF Binary
<1>2. LevelOf(op) = i
  BY <1>1, LevelIs
<1>3. op = "POWER" <=> i = 11
  BY <1>1, LevelsAre
<1> QED
  BY <1>1, <1>2, <1>3, InfosAre DEF Precedence, LeftAssociative, Symbol

LEMMA OpsFromAre ==
  ASSUME NEW level \in 0..12, NEW op \in OpsFrom(level)
  PROVE  op \in Operators
BY BinaryIs, InfosAre DEF OpsFrom

\* A tighter text has fewer operators.
LEMMA OpsFromShrink ==
  ASSUME NEW level \in 0..12, NEW tighter \in 0..12, level <= tighter
  PROVE  OpsFrom(tighter) \subseteq OpsFrom(level)
<1>1. \A op \in Binary : LevelOf(op) \in 1..11
  BY BinaryIs
<1> QED
  BY <1>1 DEF OpsFrom

\* An operator gives way to a token by their types alone.
Yields(top, type) == GivesWay(Symbol(top), Symbol(type))

LEMMA YieldsIs ==
  ASSUME NEW top \in Token, NEW type
  PROVE  GivesWay(top, Symbol(type)) <=> Yields(top.type, type)
BY DEF Yields, GivesWay, IsOperator, Precedence, LeftAssociative, Symbol

\* The levels at which the operands of an operator need no parentheses.
LeftLevel(op) == IF op = "POWER" THEN LevelOf(op) + 1 ELSE LevelOf(op)
RightLevel(op) == IF op = "POWER" THEN LevelOf(op) ELSE LevelOf(op) + 1

\* An operator takes all of its left operand from the stack, and nothing of its
\* right operand takes the operator: the levels where parentheses are left out are
\* those the precedences allow.
LEMMA BinaryYields ==
  ASSUME NEW op \in Binary
  PROVE  /\ LeftLevel(op) \in 1..12 /\ RightLevel(op) \in 1..12
         /\ LevelOf(op) <= LeftLevel(op) /\ LevelOf(op) <= RightLevel(op)
         /\ \A top \in OpsFrom(LeftLevel(op)) : Yields(top, op)
         /\ \A type \in OpsFrom(RightLevel(op)) : ~Yields(op, type)
<1>1. /\ LevelOf(op) \in 1..11 /\ op \in Operators
      /\ Precedence(Symbol(op)) = Tightness[LevelOf(op)]
      /\ LeftAssociative(Symbol(op)) <=> op # "POWER"
      /\ op = "POWER" <=> LevelOf(op) = 11
  BY BinaryIs
<1>2. /\ LeftLevel(op) \in 1..12 /\ RightLevel(op) \in 1..12
      /\ LevelOf(op) <= LeftLevel(op) /\ LevelOf(op) <= RightLevel(op)
  BY <1>1 DEF LeftLevel, RightLevel
<1>3. ASSUME NEW top \in OpsFrom(LeftLevel(op))
      PROVE  Yields(top, op)
  <2>1. top \in Binary /\ LevelOf(top) >= LeftLevel(op)
    BY <1>2, <1>3 DEF OpsFrom
  <2>2. /\ LevelOf(top) \in 1..11 /\ top \in Operators
        /\ Precedence(Symbol(top)) = Tightness[LevelOf(top)]
    BY <2>1, BinaryIs
  <2>3. IsOperator(Symbol(top))
    BY <2>2 DEF IsOperator, Symbol
  <2>4. CASE LevelOf(top) > LevelOf(op)
    BY <1>1, <2>2, <2>3, <2>4, TightnessGrows DEF Yields, GivesWay
  <2>5. CASE ~(LevelOf(top) > LevelOf(op))
    <3>1. op # "POWER" /\ LevelOf(top) = LevelOf(op)
      BY <1>1, <2>1, <2>2, <2>5 DEF LeftLevel
    <3> QED
      BY <1>1, <2>2, <2>3, <3>1 DEF Yields, GivesWay
  <2> QED
    BY <2>4, <2>5
<1>4. ASSUME NEW type \in OpsFrom(RightLevel(op))
      PROVE  ~Yields(op, type)
  <2>1. type \in Binary /\ LevelOf(type) >= RightLevel(op)
    BY <1>2, <1>4 DEF OpsFrom
  <2>2. /\ LevelOf(type) \in 1..11
        /\ Precedence(Symbol(type)) = Tightness[LevelOf(type)]
        /\ LeftAssociative(Symbol(type)) <=> type # "POWER"
        /\ type = "POWER" <=> LevelOf(type) = 11
    BY <2>1, BinaryIs
  <2>3. CASE LevelOf(type) > LevelOf(op)
    <3>1. /\ Tightness[LevelOf(op)] < Tightness[LevelOf(type)]
          /\ Tightness[LevelOf(op)] \in Int /\ Tightness[LevelOf(type)] \in Int
      BY <1>1, <2>2, <2>3, TightnessGrows
    <3> QED
      BY <1>1, <2>2, <3>1 DEF Yields, GivesWay
  <2>4. CASE ~(LevelOf(type) > LevelOf(op))
    <3>1. type = "POWER" /\ LevelOf(type) = LevelOf(op)
      BY <1>1, <2>1, <2>2, <2>4 DEF RightLevel
    <3>2. Tightness[LevelOf(op)] \in Int
      BY <1>1, TightnessGrows
    <3> QED
      BY <1>1, <2>2, <3>1, <3>2 DEF Yields, GivesWay
  <2> QED
    BY <2>3, <2>4
<1> QED
  BY <1>2, <1>3, <1>4

\* The same for the three parts of a choice.
LEMMA ChoiceYields ==
  /\ \A top \in OpsFrom(1) : /\ Yields(top, "TERNARY_QUESTION_MARK")
                             /\ Yields(top, "TERNARY_COLON")
  /\ \A type \in OpsFrom(1) : ~Yields("TERNARY_QUESTION_MARK", type)
  /\ ~Yields("TERNARY_QUESTION_MARK", "TERNARY_COLON")
  /\ \A type \in OpsFrom(0) : ~Yields("TERNARY_COLON", type)
<1> DEFINE question == Symbol("TERNARY_QUESTION_MARK")
           colon == Symbol("TERNARY_COLON")
<1>1. /\ Precedence(question) = 5 /\ Precedence(colon) = 5
      /\ ~LeftAssociative(question) /\ ~LeftAssociative(colon)
  BY InfosAre DEF Precedence, LeftAssociative, Symbol
<1>2. \A op \in OpsFrom(1) : /\ IsOperator(Symbol(op))
                             /\ Precedence(Symbol(op)) \in Int
                             /\ 5 < Precedence(Symbol(op))
  <2> TAKE op \in OpsFrom(1)
  <2>1. /\ op \in Operators /\ LevelOf(op) \in 1..11
        /\ Precedence(Symbol(op)) = Tightness[LevelOf(op)]
    BY BinaryIs DEF OpsFrom
  <2>2. IsOperator(Symbol(op))
    BY <2>1 DEF IsOperator, Symbol
  <2> QED
    BY <2>1, <2>2, TightnessGrows
<1>3. \A op \in OpsFrom(0) :
        op \in OpsFrom(1) \/ op = "TERNARY_QUESTION_MARK" \/ op = "TERNARY_COLON"
  BY BinaryIs DEF OpsFrom
<1> HIDE DEF question, colon
<1>4. \A op \in OpsFrom(1) : /\ GivesWay(Symbol(op), question)
                             /\ GivesWay(Symbol(op), colon)
                             /\ ~GivesWay(question, Symbol(op))
                             /\ ~GivesWay(colon, Symbol(op))
  BY <1>1, <1>2 DEF GivesWay
<1>5. ~GivesWay(question, colon) /\ ~GivesWay(colon, question) /\ ~GivesWay(colon, colon)
  BY <1>1 DEF GivesWay
<1> QED
  BY <1>3, <1>4, <1>5 DEF Yields, question, colon
-----------------------------------------------------------------------------
(* What a text reads as *)

\* No operator of a text of a level takes what is on top of the stack.
Fits(s, level) ==
  \/ Len(s) = 0
  \/ \A type \in OpsFrom(level) : ~GivesWay(s[Len(s)], Symbol(type))

\* Where a text has been read, its tokens are in the output but for the operators
\* that it leaves on the stack.
Leaves(lexemes, tokens, level, t, p, o, s) ==
  \E x \in Seq(Token), w \in Seq(Token) :
    /\ x \o Reversed(w) = tokens
    /\ \A i \in 1..Len(w) : w[i].type \in OpsFrom(level)
    /\ Leads(t, <<p, o, s>>, <<p + Len(lexemes), o \o x, s \o w>>)

\* A text that leaves some of its operators on the stack.
Reads(lexemes, tokens, level) ==
  \A t \in Seq(Lexeme), p \in Nat \ {0}, o \in Seq(Token), s \in Seq(Token) :
    TextAt(t, p, lexemes) /\ Fits(s, level) => Leaves(lexemes, tokens, level, t, p, o, s)

\* A text that fits a stack at a level fits it at a tighter one.
LEMMA FitsTighter ==
  ASSUME NEW s, NEW level \in 0..12, NEW tighter \in 0..12, level <= tighter,
         Fits(s, level)
  PROVE  Fits(s, tighter)
BY OpsFromShrink DEF Fits

\* The right operand fits on top of its operator.
LEMMA FitsPushed ==
  ASSUME NEW s \in Seq(Token), NEW op \in DOMAIN INFOS, NEW level \in 0..12,
         \A type \in OpsFrom(level) : ~Yields(op, type)
  PROVE  /\ Fits(Append(s, Symbol(op)), level)
         /\ Append(s, Symbol(op)) \in Seq(Token)
         /\ Len(Append(s, Symbol(op))) > 0
         /\ Append(s, Symbol(op))[Len(Append(s, Symbol(op)))] = Symbol(op)
<1> DEFINE v == Append(s, Symbol(op))
<1>1. Symbol(op) \in Token
  BY SymbolType
<1>2. v \in Seq(Token) /\ Len(v) = Len(s) + 1 /\ v[Len(s) + 1] = Symbol(op)
  BY <1>1, AppendProperties
<1>3. Len(s) \in Nat
  OBVIOUS
<1> HIDE DEF v
<1>4. v[Len(v)] = Symbol(op) /\ Len(v) > 0
  BY <1>2, <1>3
<1>5. Fits(v, level)
  BY <1>4 DEF Fits, Yields
<1> QED
  BY <1>2, <1>4, <1>5 DEF v

\* A text that leaves nothing on the stack reads at every level.
LEMMA WholeReads ==
  ASSUME NEW lexemes, NEW tokens \in Seq(Token), NEW level, Whole(lexemes, tokens)
  PROVE  Reads(lexemes, tokens, level)
<1> SUFFICES ASSUME NEW t \in Seq(Lexeme), NEW p \in Nat \ {0},
                    NEW o \in Seq(Token), NEW s \in Seq(Token),
                    TextAt(t, p, lexemes)
             PROVE  Leaves(lexemes, tokens, level, t, p, o, s)
  BY DEF Reads
<1> DEFINE w == <<>>
<1>1. w \in Seq(Token) /\ Len(w) = 0 /\ Reversed(w) = <<>>
  BY ReversedEmpty
<1>2. tokens \o Reversed(w) = tokens /\ s \o w = s
  BY <1>1, ConcatEmptySeq
<1>3. Leads(t, <<p, o, s>>, <<p + Len(lexemes), o \o tokens, s \o w>>)
  BY <1>2 DEF Whole
<1>4. \A i \in 1..Len(w) : w[i].type \in OpsFrom(level)
  BY <1>1
<1> HIDE DEF w
<1> QED
  BY <1>1, <1>2, <1>3, <1>4 DEF Leaves

\* What reads at a level reads at a looser one.
LEMMA ReadsLooser ==
  ASSUME NEW lexemes, NEW tokens, NEW level \in 0..12, NEW tighter \in 0..12,
         level <= tighter, Reads(lexemes, tokens, tighter)
  PROVE  Reads(lexemes, tokens, level)
<1>1. OpsFrom(tighter) \subseteq OpsFrom(level)
  BY OpsFromShrink
<1> SUFFICES ASSUME NEW t \in Seq(Lexeme), NEW p \in Nat \ {0},
                    NEW o \in Seq(Token), NEW s \in Seq(Token),
                    TextAt(t, p, lexemes), Fits(s, level)
             PROVE  Leaves(lexemes, tokens, level, t, p, o, s)
  BY DEF Reads
<1>2. Fits(s, tighter)
  BY FitsTighter
<1>3. PICK x \in Seq(Token), w \in Seq(Token) :
        /\ x \o Reversed(w) = tokens
        /\ \A i \in 1..Len(w) : w[i].type \in OpsFrom(tighter)
        /\ Leads(t, <<p, o, s>>, <<p + Len(lexemes), o \o x, s \o w>>)
  <2>1. Leaves(lexemes, tokens, tighter, t, p, o, s)
    BY <1>2 DEF Reads
  <2> QED
    BY <2>1 DEF Leaves
<1>4. \A i \in 1..Len(w) : w[i].type \in OpsFrom(level)
  BY <1>1, <1>3
<1> QED
  BY <1>3, <1>4 DEF Leaves

\* The lexemes of a text in parentheses.
LEMMA ParenthesisedIs ==
  ASSUME NEW lexemes \in Seq(Lexeme)
  PROVE  /\ Parenthesised(lexemes) \in Seq(Lexeme)
         /\ Len(Parenthesised(lexemes)) = Len(lexemes) + 2
         /\ Len(lexemes) \in Nat
<1> DEFINE l == <<Symbol("LEFT_BRACKET")>>
           r == <<Symbol("RIGHT_BRACKET")>>
<1>1. /\ l \in Seq(Lexeme) /\ Len(l) = 1
      /\ r \in Seq(Lexeme) /\ Len(r) = 1
      /\ Len(lexemes) \in Nat
  BY SymbolType, OpensTypes
<1>2. Parenthesised(lexemes) = (l \o lexemes) \o r
  BY DEF Parenthesised
<1> HIDE DEF l, r
<1>3. l \o lexemes \in Seq(Lexeme) /\ Len(l \o lexemes) = Len(l) + Len(lexemes)
  BY <1>1, ConcatProperties
<1>4. /\ (l \o lexemes) \o r \in Seq(Lexeme)
      /\ Len((l \o lexemes) \o r) = Len(l \o lexemes) + Len(r)
  BY <1>1, <1>3, ConcatProperties
<1> QED
  BY <1>1, <1>2, <1>3, <1>4

LEMMA ParenthesisedAt ==
  ASSUME NEW lexemes \in Seq(Lexeme), NEW t, NEW p \in Nat \ {0},
         TextAt(t, p, Parenthesised(lexemes))
  PROVE  /\ p \in 1..Len(t) /\ t[p] = Symbol("LEFT_BRACKET")
         /\ TextAt(t, p + 1, lexemes)
         /\ p + 1 + Len(lexemes) \in 1..Len(t)
         /\ t[p + 1 + Len(lexemes)] = Symbol("RIGHT_BRACKET")
<1> DEFINE l == <<Symbol("LEFT_BRACKET")>>
           r == <<Symbol("RIGHT_BRACKET")>>
<1>1. /\ l \in Seq(Lexeme) /\ Len(l) = 1 /\ l[1] = Symbol("LEFT_BRACKET")
      /\ r \in Seq(Lexeme) /\ Len(r) = 1 /\ r[1] = Symbol("RIGHT_BRACKET")
      /\ Len(lexemes) \in Nat
  BY SymbolType, OpensTypes
<1>2. Parenthesised(lexemes) = (l \o lexemes) \o r
  BY DEF Parenthesised
<1> HIDE DEF l, r
<1> DEFINE both == l \o lexemes
<1>3. both \in Seq(Lexeme) /\ Len(both) = Len(l) + Len(lexemes)
  BY <1>1, ConcatProperties
<1>4. TextAt(t, p, both) /\ TextAt(t, p + Len(both), r)
  <2>1. TextAt(t, p, both \o r)
    BY <1>2
  <2> HIDE DEF both
  <2> QED
    BY <1>1, <1>3, <2>1, TextSplit
<1>5. TextAt(t, p, l) /\ TextAt(t, p + Len(l), lexemes)
  BY <1>1, <1>4, TextSplit
<1> HIDE DEF both
<1>6. p \in 1..Len(t) /\ t[p] = Symbol("LEFT_BRACKET")
  <2>1. 1 \in 1..Len(l) /\ p + 1 - 1 = p
    BY <1>1
  <2> QED
    BY <1>1, <1>5, <2>1 DEF TextAt
<1>7. /\ p + 1 + Len(lexemes) \in 1..Len(t)
      /\ t[p + 1 + Len(lexemes)] = Symbol("RIGHT_BRACKET")
  <2>1. /\ 1 \in 1..Len(r)
        /\ p + Len(both) + 1 - 1 = p + 1 + Len(lexemes)
    BY <1>1, <1>3
  <2> QED
    BY <1>1, <1>4, <2>1 DEF TextAt
<1> QED
  BY <1>1, <1>5, <1>6, <1>7

\* The output goes before what a text adds to it.
LEMMA ConcatOver == \A o, x, w \in Seq(Token) : Regroups(o, x, Reversed(w))
<1> TAKE o, x, w \in Seq(Token)
<1>1. Reversed(w) \in Seq(Token)
  BY ReversedIs
<1> QED
  BY <1>1, TokensRegroup, Zenon

\* Every text fits in parentheses.
LEMMA LeftBracketFits ==
  ASSUME NEW s \in Seq(Token), NEW level \in 0..12
  PROVE  /\ Append(s, Symbol("LEFT_BRACKET")) \in Seq(Token)
         /\ Fits(Append(s, Symbol("LEFT_BRACKET")), level)
         /\ \A type : ~GivesWay(Append(s, Symbol("LEFT_BRACKET"))
                                  [Len(Append(s, Symbol("LEFT_BRACKET")))], Symbol(type))
<1>1. \A type : ~Yields("LEFT_BRACKET", type)
  BY OpensTypes DEF Yields, GivesWay, IsOperator, Symbol
<1>2. "LEFT_BRACKET" \in DOMAIN INFOS
  BY OpensTypes
<1> QED
  BY <1>1, <1>2, FitsPushed DEF Yields

\* A text in parentheses leaves nothing on the stack.
LEMMA ParenthesisedWhole ==
  ASSUME NEW lexemes \in Seq(Lexeme), NEW tokens \in Seq(Token),
         NEW level \in 0..12, Reads(lexemes, tokens, level)
  PROVE  Whole(Parenthesised(lexemes), tokens)
<1> SUFFICES ASSUME NEW t \in Seq(Lexeme), NEW p \in Nat \ {0},
                    NEW o \in Seq(Token), NEW s \in Seq(Token),
                    TextAt(t, p, Parenthesised(lexemes))
             PROVE  Leads(t, <<p, o, s>>,
                          <<p + Len(Parenthesised(lexemes)), o \o tokens, s>>)
  BY DEF Whole
<1> DEFINE b == Append(s, Symbol("LEFT_BRACKET"))
           n == Len(lexemes)
<1>1. /\ p \in 1..Len(t) /\ t[p] = Symbol("LEFT_BRACKET")
      /\ TextAt(t, p + 1, lexemes)
      /\ p + 1 + n \in 1..Len(t)
      /\ t[p + 1 + n] = Symbol("RIGHT_BRACKET")
      /\ Len(Parenthesised(lexemes)) = n + 2 /\ n \in Nat
  BY ParenthesisedIs, ParenthesisedAt
<1>2. b \in Seq(Token) /\ Fits(b, level)
  BY LeftBracketFits
<1>3. Handles(Symbol("LEFT_BRACKET"), o, s, o, b)
  BY ReadsLeft
<1>4. /\ "LEFT_BRACKET" \in DOMAIN INFOS /\ "RIGHT_BRACKET" \in DOMAIN INFOS
      /\ "LEFT_BRACKET" \notin LooksAhead /\ "RIGHT_BRACKET" \notin LooksAhead
      /\ Len(t) \in Nat
  BY OpensTypes DEF LooksAhead
<1>5. \A w \in Seq(Token) : (\A i \in 1..Len(w) : IsOperator(w[i])) =>
        \A o2 : Handles(Symbol("RIGHT_BRACKET"), o2, b \o w, o2 \o Reversed(w), s)
  BY ReadsRight
<1> HIDE DEF b
<1>6. Leads(t, <<p, o, s>>, <<p + 1, o, b>>)
  BY <1>1, <1>3, <1>4, ReadsSymbol
<1>7. PICK x \in Seq(Token), w \in Seq(Token) :
        /\ x \o Reversed(w) = tokens
        /\ \A i \in 1..Len(w) : w[i].type \in OpsFrom(level)
        /\ Leads(t, <<p + 1, o, b>>, <<p + 1 + n, o \o x, b \o w>>)
  <2>1. p + 1 \in Nat \ {0}
    OBVIOUS
  <2>2. Leaves(lexemes, tokens, level, t, p + 1, o, b)
    BY <1>1, <1>2, <2>1 DEF Reads
  <2> QED
    BY <2>2 DEF Leaves
<1>8. \A i \in 1..Len(w) : IsOperator(w[i])
  BY <1>7, OpsFromAre DEF IsOperator
<1>9. Handles(Symbol("RIGHT_BRACKET"), o \o x, b \o w, (o \o x) \o Reversed(w), s)
  BY <1>5, <1>8
<1>10. Leads(t, <<p + 1 + n, o \o x, b \o w>>,
             <<(p + 1 + n) + 1, (o \o x) \o Reversed(w), s>>)
  BY <1>1, <1>4, <1>9, ReadsSymbol
<1>11. Leads(t, <<p, o, s>>, <<(p + 1 + n) + 1, (o \o x) \o Reversed(w), s>>)
  BY <1>6, <1>7, <1>10, LeadsOn
<1>12. (o \o x) \o Reversed(w) = o \o tokens
  <2>1. Regroups(o, x, Reversed(w))
    BY <1>7, ConcatOver, Zenon
  <2>2. x \o Reversed(w) = tokens
    BY <1>7
  <2> QED
    BY <2>1, <2>2, Zenon DEF Regroups
<1>13. (p + 1 + n) + 1 = p + (n + 2)
  BY <1>1
<1> QED
  BY <1>1, <1>11, <1>12, <1>13

\* What the induction over the trees establishes.
Understood(e) ==
  /\ e.text \in Seq(Lexeme)
  /\ Len(e.text) > 0
  /\ e.queue \in Seq(Token)
  /\ e.level \in 0..12
  /\ Reads(e.text, e.queue, e.level)

\* An operand reads at the level of its place, in parentheses or without.
LEMMA WithinReads ==
  ASSUME NEW e, Understood(e), NEW level \in 0..12
  PROVE  /\ Within(e, level) \in Seq(Lexeme)
         /\ Len(Within(e, level)) \in Nat
         /\ Len(Within(e, level)) >= Len(e.text)
         /\ Len(Within(e, level)) > 0
         /\ Reads(Within(e, level), e.queue, level)
<1>1. /\ e.text \in Seq(Lexeme) /\ Len(e.text) > 0 /\ e.queue \in Seq(Token)
      /\ e.level \in 0..12 /\ Reads(e.text, e.queue, e.level)
      /\ Len(e.text) \in Nat
  BY DEF Understood
<1>2. CASE e.level < level
  <2>1. Within(e, level) = Parenthesised(e.text)
    BY <1>2 DEF Within
  <2>2. Whole(Parenthesised(e.text), e.queue)
    BY <1>1, ParenthesisedWhole
  <2>3. Reads(Parenthesised(e.text), e.queue, level)
    BY <1>1, <2>2, WholeReads
  <2>4. /\ Parenthesised(e.text) \in Seq(Lexeme)
        /\ Len(Parenthesised(e.text)) = Len(e.text) + 2
    BY <1>1, ParenthesisedIs
  <2> QED
    BY <1>1, <2>1, <2>3, <2>4
<1>3. CASE ~(e.level < level)
  <2>1. Within(e, level) = e.text
    BY <1>3 DEF Within
  <2>2. level <= e.level
    BY <1>1, <1>3
  <2>3. Reads(e.text, e.queue, level)
    BY <1>1, <2>2, ReadsLooser
  <2> QED
    BY <1>1, <2>1, <2>3
<1> QED
  BY <1>2, <1>3

\* The sign of an operator is a text.
LEMMA SignIs ==
  ASSUME NEW op \in Operators
  PROVE  Sign1(op) \in Seq(Lexeme) /\ Len(Sign1(op)) \in Nat /\ Len(Sign1(op)) > 0
<1>1. /\ Symbol(op) \in Lexeme /\ Symbol("blank") \in Lexeme
      /\ Symbol("minus") \in Lexeme
  BY SymbolType, OpensTypes
<1> QED
  BY <1>1 DEF Sign1

\* An operand and the operator after it.
LEMMA LeftOperand ==
  ASSUME NEW lexemes \in Seq(Lexeme), NEW tokens \in Seq(Token), NEW level \in 0..12,
         Reads(lexemes, tokens, level),
         NEW op \in Operators, \A top \in OpsFrom(level) : Yields(top, op),
         NEW t \in Seq(Lexeme), NEW p \in Nat \ {0}, NEW o \in Seq(Token),
         NEW s \in Seq(Token), Fits(s, level),
         Len(s) = 0 \/ ~GivesWay(s[Len(s)], Symbol(op)),
         TextAt(t, p, lexemes), TextAt(t, p + Len(lexemes), Sign1(op)),
         p + Len(lexemes) + Len(Sign1(op)) <= Len(t)
  PROVE  Leads(t, <<p, o, s>>,
               <<p + Len(lexemes) + Len(Sign1(op)), o \o tokens,
                 Append(s, Symbol(op))>>)
<1>1. PICK x \in Seq(Token), w \in Seq(Token) :
        /\ x \o Reversed(w) = tokens
        /\ \A i \in 1..Len(w) : w[i].type \in OpsFrom(level)
        /\ Leads(t, <<p, o, s>>, <<p + Len(lexemes), o \o x, s \o w>>)
  <2>1. Leaves(lexemes, tokens, level, t, p, o, s)
    BY DEF Reads
  <2> QED
    BY <2>1 DEF Leaves
<1>2. ASSUME NEW i \in 1..Len(w)
      PROVE  GivesWay(w[i], Symbol(op))
  <2>1. w[i] \in Token
    BY ElementOfSeq
  <2>2. Yields(w[i].type, op)
    BY <1>1
  <2> QED
    BY <2>1, <2>2, YieldsIs
<1>3. p + Len(lexemes) \in Nat \ {0} /\ o \o x \in Seq(Token)
  BY ConcatProperties
<1>4. Leads(t, <<p + Len(lexemes), o \o x, s \o w>>,
            <<p + Len(lexemes) + Len(Sign1(op)), (o \o x) \o Reversed(w),
              Append(s, Symbol(op))>>)
  BY <1>2, <1>3, ReadsSign
<1>5. (o \o x) \o Reversed(w) = o \o tokens
  <2>1. Regroups(o, x, Reversed(w))
    BY <1>1, ConcatOver, Zenon
  <2>2. x \o Reversed(w) = tokens
    BY <1>1
  <2> QED
    BY <2>1, <2>2, Zenon DEF Regroups
<1> QED
  BY <1>1, <1>4, <1>5, LeadsOn
-----------------------------------------------------------------------------
(* The expressions without operands, and the complement *)

\* The fields of an expression.
LEMMA FieldsAre ==
  ASSUME NEW op, NEW args, NEW level, NEW lexemes, NEW tokens, NEW meaning
  PROVE  LET e == Expression(op, args, level, lexemes, tokens, meaning)
         IN  /\ e.op = op /\ e.args = args /\ e.level = level /\ e.text = lexemes
             /\ e.queue = tokens /\ e.meaning = meaning
             /\ e.ops = {op} \cup UNION {args[i].ops : i \in DOMAIN args}
             /\ e.values = {meaning} \cup UNION {args[i].values : i \in DOMAIN args}
BY DEF Expression

\* A number and a name are understood.
LEMMA NumberUnderstood ==
  ASSUME NEW n \in Int
  PROVE  Understood(Number(n))
<1> DEFINE e == Number(n)
<1>1. /\ e.level = Tightest /\ e.queue = <<[type |-> "INT64", value |-> n]>>
      /\ e.text = IF n < 0
                  THEN <<Symbol("minus"), [type |-> "number", value |-> -n]>>
                  ELSE <<[type |-> "number", value |-> n]>>
  BY FieldsAre DEF Number
<1>2. /\ Symbol("minus") \in Lexeme /\ [type |-> "number", value |-> -n] \in Lexeme
      /\ [type |-> "number", value |-> n] \in Lexeme
      /\ [type |-> "INT64", value |-> n] \in Token
  BY SymbolType DEF Lexeme, Token, Numbers
<1>3. Whole(e.text, e.queue)
  BY WholeNumber
<1> HIDE DEF e
<1>4. e.text \in Seq(Lexeme) /\ Len(e.text) > 0
  <2>1. CASE n < 0
    BY <1>1, <1>2, <2>1
  <2>2. CASE ~(n < 0)
    BY <1>1, <1>2, <2>2
  <2> QED
    BY <2>1, <2>2
<1>5. e.queue \in Seq(Token)
  BY <1>1, <1>2
<1>6. e.level \in 0..12
  BY <1>1, LevelsAre
<1>7. Reads(e.text, e.queue, e.level)
  BY <1>3, <1>5, WholeReads
<1>8. Understood(e)
  BY <1>4, <1>5, <1>6, <1>7 DEF Understood
<1> QED
  BY <1>8 DEF e

LEMMA NameUnderstood ==
  ASSUME NEW n \in Int
  PROVE  Understood(Name(n))
<1> DEFINE e == Name(n)
<1>1. /\ e.level = Tightest /\ e.queue = <<[type |-> "VARIABLE", value |-> n]>>
      /\ e.text = <<[type |-> "name", value |-> n]>>
  BY FieldsAre DEF Name
<1>2. /\ [type |-> "name", value |-> n] \in Lexeme
      /\ [type |-> "VARIABLE", value |-> n] \in Token
  BY DEF Lexeme, Token, Numbers
<1>3. Whole(e.text, e.queue)
  BY WholeName
<1> HIDE DEF e
<1>4. e.text \in Seq(Lexeme) /\ Len(e.text) > 0 /\ e.queue \in Seq(Token)
  BY <1>1, <1>2
<1>5. e.level \in 0..12
  BY <1>1, LevelsAre
<1>6. Reads(e.text, e.queue, e.level)
  BY <1>3, <1>4, WholeReads
<1>7. Understood(e)
  BY <1>4, <1>5, <1>6 DEF Understood
<1> QED
  BY <1>7 DEF e

\* A complement in its parentheses.
LEMMA ComplementWhole ==
  ASSUME NEW lexemes \in Seq(Lexeme), NEW tokens \in Seq(Token), Len(lexemes) > 0,
         Reads(lexemes, tokens, 12)
  PROVE  /\ <<Symbol("BITWISE_NOT")>> \o lexemes \in Seq(Lexeme)
         /\ Whole(Parenthesised(<<Symbol("BITWISE_NOT")>> \o lexemes),
                  tokens \o <<Symbol("BITWISE_NOT")>>)
<1> DEFINE tilde == Symbol("BITWISE_NOT")
           inner == <<tilde>> \o lexemes
           n == Len(lexemes)
<1>1. /\ "BITWISE_NOT" \in Operators /\ "BITWISE_NOT" \in DOMAIN INFOS
      /\ "LEFT_BRACKET" \in DOMAIN INFOS /\ "RIGHT_BRACKET" \in DOMAIN INFOS
  BY InfosAre, OpensTypes
<1>2. /\ tilde \in Lexeme /\ tilde \in Token /\ IsOperator(tilde)
      /\ Symbol("RIGHT_BRACKET") \in Token
  BY <1>1, SymbolType DEF IsOperator, Symbol
<1>3. /\ inner \in Seq(Lexeme) /\ Len(inner) = n + 1 /\ n \in Nat /\ n > 0
      /\ <<tilde>> \in Seq(Lexeme) /\ Len(<<tilde>>) = 1
  BY <1>2
<1>4. OpsFrom(12) = {}
  BY BinaryIs DEF OpsFrom
<1> SUFFICES ASSUME NEW t \in Seq(Lexeme), NEW p \in Nat \ {0},
                    NEW o \in Seq(Token), NEW s \in Seq(Token),
                    TextAt(t, p, Parenthesised(inner))
             PROVE  Leads(t, <<p, o, s>>, <<p + Len(Parenthesised(inner)),
                                            o \o (tokens \o <<tilde>>), s>>)
  BY <1>3 DEF Whole
<1> DEFINE b == Append(s, Symbol("LEFT_BRACKET"))
           c == Append(b, tilde)
<1>5. /\ p \in 1..Len(t) /\ t[p] = Symbol("LEFT_BRACKET")
      /\ TextAt(t, p + 1, inner)
      /\ p + 1 + (n + 1) \in 1..Len(t)
      /\ t[p + 1 + (n + 1)] = Symbol("RIGHT_BRACKET")
      /\ Len(Parenthesised(inner)) = n + 3
  <2>1. TextAt(t, p, Parenthesised(inner)) /\ inner \in Seq(Lexeme) /\ Len(inner) = n + 1
    BY <1>3
  <2> HIDE DEF inner
  <2>2. /\ p \in 1..Len(t) /\ t[p] = Symbol("LEFT_BRACKET")
        /\ TextAt(t, p + 1, inner)
        /\ p + 1 + Len(inner) \in 1..Len(t)
        /\ t[p + 1 + Len(inner)] = Symbol("RIGHT_BRACKET")
    BY <2>1, ParenthesisedAt
  <2>3. Len(Parenthesised(inner)) = Len(inner) + 2
    BY <2>1, ParenthesisedIs
  <2>4. Len(inner) + 2 = n + 3
    BY <1>3, <2>1
  <2> QED
    BY <2>1, <2>2, <2>3, <2>4
<1>6. /\ TextAt(t, p + 1, <<tilde>>) /\ TextAt(t, p + 2, lexemes)
  <2>1. p + 1 \in Nat \ {0} /\ (p + 1) + 1 = p + 2
    OBVIOUS
  <2> DEFINE one == <<tilde>>
  <2>2. one \in Seq(Lexeme) /\ Len(one) = 1 /\ TextAt(t, p + 1, one \o lexemes)
    BY <1>3, <1>5
  <2> HIDE DEF one
  <2>3. TextAt(t, p + 1, one) /\ TextAt(t, (p + 1) + Len(one), lexemes)
    BY <2>1, <2>2, TextSplit
  <2>4. (p + 1) + Len(one) = p + 2
    BY <2>1, <2>2
  <2> QED
    BY <2>3, <2>4 DEF one
<1>7. p + 1 \in 1..Len(t) /\ p + 1 < Len(t) /\ t[p + 1] = tilde /\ Len(t) \in Nat
  <2>1. 1 \in 1..Len(<<tilde>>) /\ <<tilde>>[1] = tilde /\ (p + 1) + 1 - 1 = p + 1
    BY <1>3
  <2>2. p + 1 \in 1..Len(t) /\ t[p + 1] = tilde
    BY <1>6, <2>1 DEF TextAt
  <2>3. Len(t) \in Nat
    OBVIOUS
  <2> QED
    BY <1>3, <1>5, <2>2, <2>3
<1>8. /\ b \in Seq(Token)
      /\ ~GivesWay(b[Len(b)], tilde)
  BY LeftBracketFits
<1>9. Handles(Symbol("LEFT_BRACKET"), o, s, o, b)
  BY ReadsLeft
<1>10. \A o2 : Handles(Symbol("RIGHT_BRACKET"), o2, b \o <<tilde>>,
                       o2 \o Reversed(<<tilde>>), s)
  <2>1. <<tilde>> \in Seq(Token) /\ \A i \in 1..Len(<<tilde>>) : IsOperator(<<tilde>>[i])
    BY <1>2
  <2> QED
    BY <2>1, ReadsRight
<1> HIDE DEF b
<1>11. Leads(t, <<p, o, s>>, <<p + 1, o, b>>)
  <2>1. "LEFT_BRACKET" \notin LooksAhead
    BY DEF LooksAhead
  <2> QED
    BY <1>1, <1>5, <1>7, <1>9, <2>1, ReadsSymbol
<1>12. Handles(tilde, o, b, o, c)
  <2> DEFINE w == <<>>
  <2>1. w \in Seq(Token) /\ Len(w) = 0 /\ Reversed(w) = <<>>
    BY ReversedEmpty
  <2>2. b \o w = b /\ o \o Reversed(w) = o
    BY <1>8, <2>1, ConcatEmptySeq
  <2>3. \A i \in 1..Len(w) : GivesWay(w[i], tilde)
    BY <2>1
  <2> HIDE DEF w, c
  <2>4. Handles(tilde, o, b \o w, o \o Reversed(w), Append(b, tilde))
    BY <1>1, <1>7, <1>8, <2>1, <2>3, ReadsOperator
  <2> QED
    BY <2>2, <2>4 DEF c
<1>13. c \in Seq(Token) /\ c = b \o <<tilde>>
  BY <1>2, <1>8, AppendIsConcat, AppendProperties
<1>14. Fits(c, 12)
  BY <1>4 DEF Fits
<1> HIDE DEF c, tilde
<1>15. Leads(t, <<p + 1, o, b>>, <<p + 2, o, c>>)
  <2>1. (p + 1) + 1 = p + 2
    OBVIOUS
  <2> QED
    BY <1>1, <1>7, <1>12, <2>1, ReadsSymbol DEF tilde
<1>16. Leads(t, <<p + 2, o, c>>, <<p + 2 + n, o \o tokens, c>>)
  <2>1. p + 2 \in Nat \ {0}
    OBVIOUS
  <2>0. Leaves(lexemes, tokens, 12, t, p + 2, o, c)
    BY <1>6, <1>13, <1>14, <2>1 DEF Reads
  <2>2. PICK x \in Seq(Token), w \in Seq(Token) :
          /\ x \o Reversed(w) = tokens
          /\ \A i \in 1..Len(w) : w[i].type \in OpsFrom(12)
          /\ Leads(t, <<p + 2, o, c>>, <<p + 2 + n, o \o x, c \o w>>)
    BY <2>0 DEF Leaves
  <2>3. w = <<>>
    <3>1. Len(w) = 0
      <4>1. \A i \in 1..Len(w) : FALSE
        BY <1>4, <2>2
      <4>2. Len(w) \in Nat
        OBVIOUS
      <4> QED
        BY <4>1, <4>2
    <3> QED
      BY <3>1, EmptySeq
  <2>4. x = tokens /\ c \o w = c
    BY <1>13, <2>2, <2>3, ReversedEmpty, ConcatEmptySeq
  <2> QED
    BY <2>2, <2>4
<1>17. Leads(t, <<p + 2 + n, o \o tokens, c>>,
             <<p + (n + 3), (o \o tokens) \o <<tilde>>, s>>)
  <2>1. Reversed(<<tilde>>) = <<tilde>>
    <3>1. /\ <<>> \in Seq(Token) /\ <<tilde>> \o <<>> = <<tilde>>
          /\ <<>> \o <<tilde>> = <<tilde>>
      BY <1>2, ConcatEmptySeq
    <3> QED
      BY <1>2, <3>1, ReversedPush, ReversedEmpty
  <2>2. Handles(Symbol("RIGHT_BRACKET"), o \o tokens, c,
                (o \o tokens) \o <<tilde>>, s)
    BY <1>10, <1>13, <2>1
  <2>3. p + 2 + n = p + 1 + (n + 1) /\ (p + 2 + n) + 1 = p + (n + 3)
    BY <1>3
  <2>4. "RIGHT_BRACKET" \notin LooksAhead
    BY DEF LooksAhead
  <2>5. p + 2 + n \in 1..Len(t) /\ t[p + 2 + n] = Symbol("RIGHT_BRACKET")
    BY <1>5, <2>3
  <2>6. Leads(t, <<p + 2 + n, o \o tokens, c>>,
              <<(p + 2 + n) + 1, (o \o tokens) \o <<tilde>>, s>>)
    BY <1>1, <1>7, <2>2, <2>4, <2>5, ReadsSymbol
  <2> QED
    BY <2>3, <2>6
<1>18. (o \o tokens) \o <<tilde>> = o \o (tokens \o <<tilde>>)
  <2> DEFINE one == <<tilde>>
  <2>1. one \in Seq(Token)
    BY <1>2
  <2> HIDE DEF one
  <2>2. Regroups(o, tokens, one)
    BY <2>1, TokensRegroup, Zenon
  <2> QED
    BY <2>2, Zenon DEF Regroups, one
<1>19. Leads(t, <<p, o, s>>, <<p + 2, o, c>>)
  BY <1>11, <1>15, LeadsOn
<1>20. Leads(t, <<p, o, s>>, <<p + 2 + n, o \o tokens, c>>)
  BY <1>16, <1>19, LeadsOn
<1>21. Leads(t, <<p, o, s>>, <<p + (n + 3), (o \o tokens) \o <<tilde>>, s>>)
  BY <1>17, <1>20, LeadsOn
<1> HIDE DEF inner
<1> QED
  BY <1>5, <1>18, <1>21

\* A complement of what is understood is.
LEMMA ComplementUnderstood ==
  ASSUME NEW a, Understood(a)
  PROVE  Understood(Complement(a))
<1> DEFINE e == Complement(a)
           in == Within(a, Tightest)
           inner == <<Symbol("BITWISE_NOT")>> \o in
<1>1. /\ e.level = Tightest /\ e.queue = a.queue \o <<Symbol("BITWISE_NOT")>>
      /\ e.text = Parenthesised(inner)
  BY DEF Complement, Expression
<1>2. Tightest = 12 /\ 12 \in 0..12 /\ a.queue \in Seq(Token)
  BY LevelsAre DEF Understood
<1>3. in \in Seq(Lexeme) /\ Len(in) > 0 /\ Reads(in, a.queue, 12)
  BY <1>2, WithinReads
<1> HIDE DEF in, e
<1>4. inner \in Seq(Lexeme) /\ Whole(e.text, e.queue)
  BY <1>1, <1>2, <1>3, ComplementWhole
<1> HIDE DEF inner
<1>5. e.text \in Seq(Lexeme) /\ Len(e.text) > 0
  <2>1. /\ Parenthesised(inner) \in Seq(Lexeme)
        /\ Len(Parenthesised(inner)) = Len(inner) + 2 /\ Len(inner) \in Nat
    BY <1>4, ParenthesisedIs
  <2> QED
    BY <1>1, <2>1
<1>6. e.queue \in Seq(Token)
  <2>1. <<Symbol("BITWISE_NOT")>> \in Seq(Token)
    BY SymbolType, InfosAre, OpensTypes
  <2> QED
    BY <1>1, <1>2, <2>1, ConcatProperties
<1>7. Reads(e.text, e.queue, e.level)
  BY <1>4, <1>6, WholeReads
<1>8. Understood(e)
  BY <1>1, <1>2, <1>5, <1>6, <1>7 DEF Understood
<1> QED
  BY <1>8 DEF e
-----------------------------------------------------------------------------
(* Two operands and an operator *)

\* What stands above an operator on the stack.
Pushed(s, w, x) ==
  /\ Append(s, x) \o w = s \o (<<x>> \o w)
  /\ <<x>> \o w \in Seq(Token)
  /\ Len(<<x>> \o w) = Len(w) + 1
  /\ (<<x>> \o w)[1] = x
  /\ \A i \in 1..(Len(w) + 1) :
       i = 1 \/ (i - 1 \in 1..Len(w) /\ (<<x>> \o w)[i] = w[i - 1])

LEMMA PushedConcat == \A s, w \in Seq(Token), x \in Token : Pushed(s, w, x)
<1> TAKE s, w \in Seq(Token), x \in Token
<1> DEFINE one == <<x>>
<1>1. one \in Seq(Token) /\ Len(one) = 1 /\ one[1] = x /\ Append(s, x) = s \o one
  BY AppendIsConcat
<1>2. Len(w) \in Nat
  OBVIOUS
<1> HIDE DEF one
<1>3. (s \o one) \o w = s \o (one \o w)
  <2>1. Regroups(s, one, w)
    BY <1>1, TokensRegroup, Zenon
  <2> QED
    BY <2>1, Zenon DEF Regroups
<1>4. /\ one \o w \in Seq(Token)
      /\ Len(one \o w) = Len(one) + Len(w)
      /\ \A i \in 1..(Len(one) + Len(w)) :
           (one \o w)[i] = IF i <= Len(one) THEN one[i] ELSE w[i - Len(one)]
  BY <1>1, ConcatProperties
<1>5. (one \o w)[1] = x
  BY <1>1, <1>2, <1>4
<1>6. ASSUME NEW i \in 1..(Len(w) + 1), i # 1
      PROVE  i - 1 \in 1..Len(w) /\ (one \o w)[i] = w[i - 1]
  BY <1>1, <1>2, <1>4, <1>6
<1>7. Append(s, x) \o w = s \o (one \o w)
  BY <1>1, <1>3, Zenon
<1>8. Len(one \o w) = Len(w) + 1
  BY <1>1, <1>2, <1>4
<1> QED
  BY <1>4, <1>5, <1>6, <1>7, <1>8 DEF one, Pushed

\* The output, once the operators of a stack have gone to it.
Emptied(x, w) == x \o Reversed(w)

\* An operator on the stack below what its operand has left there.
Over(s, o, q, x, w, token) ==
  \E y \in Seq(Token), v \in Seq(Token) :
    /\ (o \o q) \o x = o \o y
    /\ Emptied(y, v) = (q \o Emptied(x, w)) \o <<token>>
    /\ Append(s, token) \o w = s \o v
    /\ Len(v) = Len(w) + 1 /\ Len(w) \in Nat /\ v[1] = token
    /\ \A i \in 1..(Len(w) + 1) :
         i = 1 \/ (i - 1 \in 1..Len(w) /\ v[i] = w[i - 1])

\* The stack above the base is emptied from the top.
LEMMA OperandPushed ==
  \A s, o, q, x, w \in Seq(Token), token \in Token : Over(s, o, q, x, w, token)
<1> TAKE s, o, q, x, w \in Seq(Token), token \in Token
<1> DEFINE one == <<token>>
           y == q \o x
           v == one \o w
           back == Reversed(w)
<1>1. one \in Seq(Token)
  OBVIOUS
<1>2. back \in Seq(Token)
  BY ReversedIs
<1>3. Reversed(v) = back \o one
  BY ReversedPush
<1>4. /\ Append(s, token) \o w = s \o v /\ v \in Seq(Token)
      /\ Len(v) = Len(w) + 1 /\ v[1] = token
      /\ \A i \in 1..(Len(w) + 1) :
           i = 1 \/ (i - 1 \in 1..Len(w) /\ v[i] = w[i - 1])
  <2>1. Pushed(s, w, token)
    BY PushedConcat, Zenon
  <2> QED
    BY <2>1, Zenon DEF Pushed
<1>5. Len(w) \in Nat
  OBVIOUS
<1>6. x \o back = Emptied(x, w)
  BY DEF Emptied
<1> HIDE DEF one, back
<1>7. y \in Seq(Token) /\ (o \o q) \o x = o \o (q \o x)
  <2>1. Regroups(o, q, x)
    BY TokensRegroup, Zenon
  <2>2. y \in Seq(Token)
    BY TokensJoin, Zenon
  <2> QED
    BY <2>1, <2>2, Zenon DEF Regroups
<1>8. (q \o x) \o (back \o one) = (q \o (x \o back)) \o one
  <2>1. Flattens4(q, x, back, one)
    BY <1>1, <1>2, ConcatFour, Zenon
  <2> QED
    BY <2>1, Zenon DEF Flattens4
<1> HIDE DEF v
<1>9. Emptied(y, v) = (q \o Emptied(x, w)) \o one
  BY <1>3, <1>6, <1>8 DEF Emptied
<1>10. (o \o q) \o x = o \o y
  BY <1>7
<1> HIDE DEF y
<1> QED
  BY <1>4, <1>5, <1>7, <1>9, <1>10 DEF one, Over

\* Two operands and the operator between them.
LEMMA DyadicReads ==
  ASSUME NEW op \in Binary, NEW a \in Seq(Lexeme), NEW b \in Seq(Lexeme),
         Len(b) > 0, NEW q \in Seq(Token), NEW r \in Seq(Token),
         Reads(a, q, LeftLevel(op)), Reads(b, r, RightLevel(op))
  PROVE  Reads((a \o Sign1(op)) \o b, (q \o r) \o <<Symbol(op)>>, LevelOf(op))
<1> DEFINE sign == Sign1(op)
           level == LevelOf(op)
           token == Symbol(op)
<1>1. /\ level \in 0..12 /\ op \in Operators /\ op \in DOMAIN INFOS
      /\ LeftLevel(op) \in 0..12 /\ RightLevel(op) \in 0..12
      /\ level <= LeftLevel(op) /\ level <= RightLevel(op)
      /\ \A top \in OpsFrom(LeftLevel(op)) : Yields(top, op)
      /\ \A type \in OpsFrom(RightLevel(op)) : ~Yields(op, type)
  <2>1. LevelOf(op) \in 1..11 /\ op \in Operators
    BY BinaryIs
  <2>2. op \in DOMAIN INFOS
    BY <2>1, InfosAre
  <2> QED
    BY <2>1, <2>2, BinaryYields
<1>2. op \in OpsFrom(level) /\ OpsFrom(RightLevel(op)) \subseteq OpsFrom(level)
  <2>1. level >= level
    BY <1>1
  <2> QED
    BY <1>1, <2>1, OpsFromShrink DEF OpsFrom
<1>3. token \in Token /\ token.type = op
  BY <1>1, SymbolType DEF Symbol
<1>4. sign \in Seq(Lexeme) /\ Len(sign) \in Nat /\ Len(sign) > 0
  BY <1>1, SignIs
<1> DEFINE both == a \o sign
           lexemes == both \o b
           tokens == (q \o r) \o <<token>>
<1> SUFFICES Reads(lexemes, tokens, level)
  BY DEF lexemes, both, tokens, token, sign, level
<1> HIDE DEF sign, level, both, lexemes, tokens
<1>0. SUFFICES ASSUME NEW t \in Seq(Lexeme), NEW p \in Nat \ {0},
                      NEW o \in Seq(Token), NEW s \in Seq(Token),
                      TextAt(t, p, lexemes), Fits(s, level)
             PROVE  Leaves(lexemes, tokens, level, t, p, o, s)
  BY DEF Reads
<1> DEFINE p2 == p + Len(a) + Len(sign)
           c == Append(s, token)
<1>5. /\ TextAt(t, p, a) /\ TextAt(t, p + Len(a), sign) /\ TextAt(t, p2, b)
      /\ Len(lexemes) = Len(a) + Len(sign) + Len(b)
      /\ Len(a) \in Nat /\ Len(b) \in Nat /\ p2 \in Nat \ {0}
  <2>1. both \in Seq(Lexeme) /\ TextAt(t, p, both \o b)
    BY <1>0, <1>4, ConcatProperties DEF both, lexemes
  <2>2. /\ TextAt(t, p, both) /\ TextAt(t, p + Len(both), b)
        /\ Len(lexemes) = Len(both) + Len(b)
        /\ Len(both) \in Nat /\ Len(b) \in Nat
    BY <2>1, TextSplit DEF lexemes
  <2>3. /\ TextAt(t, p, a) /\ TextAt(t, p + Len(a), sign)
        /\ Len(both) = Len(a) + Len(sign)
        /\ Len(a) \in Nat
    BY <1>4, <2>2, TextSplit DEF both
  <2>4. p + Len(both) = p2 /\ p2 \in Nat \ {0}
    BY <1>4, <2>3
  <2>5. Len(lexemes) = Len(a) + Len(sign) + Len(b)
    BY <2>2, <2>3
  <2> QED
    BY <2>2, <2>3, <2>4, <2>5
<1>6. p2 <= Len(t)
  <2>1. p2 + 1 - 1 = p2 /\ 1 \in 1..Len(b)
    BY <1>5
  <2>2. p2 \in 1..Len(t)
    BY <1>5, <2>1 DEF TextAt
  <2> QED
    BY <2>2
<1>7. Fits(s, LeftLevel(op)) /\ (Len(s) = 0 \/ ~GivesWay(s[Len(s)], Symbol(op)))
  BY <1>0, <1>1, <1>2, FitsTighter DEF Fits
<1>8. Leads(t, <<p, o, s>>, <<p2, o \o q, c>>)
  BY <1>1, <1>5, <1>6, <1>7, LeftOperand DEF sign
<1>9. Fits(c, RightLevel(op)) /\ c \in Seq(Token)
  BY <1>1, FitsPushed
<1> HIDE DEF p2, c, token
<1>10. o \o q \in Seq(Token)
  BY ConcatProperties
<1>11. PICK x \in Seq(Token), w \in Seq(Token) :
         /\ x \o Reversed(w) = r
         /\ \A i \in 1..Len(w) : w[i].type \in OpsFrom(RightLevel(op))
         /\ Leads(t, <<p2, o \o q, c>>, <<p2 + Len(b), (o \o q) \o x, c \o w>>)
  <2>1. Leaves(b, r, RightLevel(op), t, p2, o \o q, c)
    BY <1>5, <1>9, <1>10 DEF Reads
  <2> QED
    BY <2>1 DEF Leaves
<1>12. PICK y \in Seq(Token), v \in Seq(Token) :
         /\ (o \o q) \o x = o \o y
         /\ Emptied(y, v) = (q \o Emptied(x, w)) \o <<token>>
         /\ Append(s, token) \o w = s \o v
         /\ Len(v) = Len(w) + 1 /\ Len(w) \in Nat /\ v[1] = token
         /\ \A i \in 1..(Len(w) + 1) :
              i = 1 \/ (i - 1 \in 1..Len(w) /\ v[i] = w[i - 1])
  <2>1. Over(s, o, q, x, w, token)
    BY <1>3, <1>11, OperandPushed, Zenon
  <2> QED
    BY <2>1 DEF Over
<1>14. y \o Reversed(v) = tokens
  <2>1. Emptied(x, w) = r
    BY <1>11 DEF Emptied
  <2>2. Emptied(y, v) = tokens
    BY <1>12, <2>1, Zenon DEF tokens
  <2> QED
    BY <2>2 DEF Emptied
<1>13. c \o w = s \o v
  BY <1>12 DEF c
<1>15. \A i \in 1..Len(v) : v[i].type \in OpsFrom(level)
  BY <1>2, <1>3, <1>11, <1>12
<1>16. Leads(t, <<p, o, s>>, <<p2 + Len(b), o \o y, s \o v>>)
  BY <1>8, <1>11, <1>12, <1>13, LeadsOn
<1>17. p2 + Len(b) = p + Len(lexemes)
  BY <1>4, <1>5 DEF p2
<1> QED
  BY <1>14, <1>15, <1>16, <1>17 DEF Leaves

\* An operator between what is understood is.
LEMMA DyadicUnderstood ==
  ASSUME NEW op \in Binary, NEW a, NEW b, Understood(a), Understood(b)
  PROVE  Understood(Dyadic(op, a, b))
<1> DEFINE e == Dyadic(op, a, b)
           l == Within(a, LeftLevel(op))
           r == Within(b, RightLevel(op))
<1>1. /\ e.level = LevelOf(op) /\ e.text = (l \o Sign1(op)) \o r
      /\ e.queue = (a.queue \o b.queue) \o <<Symbol(op)>>
  BY DEF Dyadic, Expression, LeftLevel, RightLevel
<1>2. /\ LevelOf(op) \in 0..12 /\ op \in Operators /\ op \in DOMAIN INFOS
      /\ LeftLevel(op) \in 0..12 /\ RightLevel(op) \in 0..12
  BY BinaryIs, BinaryYields, InfosAre
<1>3. l \in Seq(Lexeme) /\ Reads(l, a.queue, LeftLevel(op)) /\ a.queue \in Seq(Token)
  BY <1>2, WithinReads DEF Understood
<1>4. /\ r \in Seq(Lexeme) /\ Len(r) > 0 /\ Reads(r, b.queue, RightLevel(op))
      /\ b.queue \in Seq(Token)
  BY <1>2, WithinReads DEF Understood
<1> HIDE DEF e, l, r
<1>5. Reads(e.text, e.queue, e.level)
  BY <1>1, <1>3, <1>4, DyadicReads
<1>6. e.text \in Seq(Lexeme) /\ Len(e.text) > 0
  <2>1. Sign1(op) \in Seq(Lexeme)
    BY <1>2, SignIs
  <2>2. l \o Sign1(op) \in Seq(Lexeme)
    BY <1>3, <2>1, ConcatProperties
  <2>3. /\ (l \o Sign1(op)) \o r \in Seq(Lexeme)
        /\ Len((l \o Sign1(op)) \o r) = Len(l \o Sign1(op)) + Len(r)
    BY <1>4, <2>2, ConcatProperties
  <2>4. Len(l \o Sign1(op)) \in Nat /\ Len(r) \in Nat
    BY <1>4, <2>2, LenProperties
  <2> QED
    BY <1>1, <1>4, <2>3, <2>4
<1>7. e.queue \in Seq(Token)
  <2>1. <<Symbol(op)>> \in Seq(Token)
    BY <1>2, SymbolType
  <2>2. a.queue \o b.queue \in Seq(Token)
    BY <1>3, <1>4, ConcatProperties
  <2> QED
    BY <1>1, <2>1, <2>2, ConcatProperties
<1>8. Understood(e)
  BY <1>1, <1>2, <1>5, <1>6, <1>7 DEF Understood
<1> QED
  BY <1>8 DEF e
-----------------------------------------------------------------------------
(* The choice *)

\* The two symbols of a choice.
LEMMA ChoiceSymbols ==
  /\ {"TERNARY_QUESTION_MARK", "TERNARY_COLON"} \subseteq Operators \cap DOMAIN INFOS
  /\ {"TERNARY_QUESTION_MARK", "TERNARY_COLON"} \subseteq OpsFrom(0)
  /\ OpsFrom(1) \subseteq OpsFrom(0)
  /\ \A op \in {"TERNARY_QUESTION_MARK", "TERNARY_COLON"} :
       /\ Symbol(op) \in Token /\ Symbol(op).type = op
       /\ Symbol(op) \in Lexeme
       /\ Sign1(op) = <<Symbol(op)>> /\ Sign1(op) \in Seq(Lexeme)
       /\ Len(Sign1(op)) = 1
<1>1. {"TERNARY_QUESTION_MARK", "TERNARY_COLON"} \subseteq Operators \cap DOMAIN INFOS
  BY InfosAre
<1>2. {"TERNARY_QUESTION_MARK", "TERNARY_COLON"} \subseteq OpsFrom(0)
  BY DEF OpsFrom
<1>3. OpsFrom(1) \subseteq OpsFrom(0)
  BY OpsFromShrink
<1>4. ASSUME NEW op \in {"TERNARY_QUESTION_MARK", "TERNARY_COLON"}
      PROVE  /\ Symbol(op) \in Token /\ Symbol(op).type = op
             /\ Symbol(op) \in Lexeme
             /\ Sign1(op) = <<Symbol(op)>> /\ Sign1(op) \in Seq(Lexeme)
             /\ Len(Sign1(op)) = 1
  <2>1. Symbol(op) \in Token /\ Symbol(op) \in Lexeme
    BY <1>1, SymbolType
  <2>2. Symbol(op).type = op
    BY DEF Symbol
  <2>3. Sign1(op) = <<Symbol(op)>>
    BY DEF Sign1
  <2> QED
    BY <2>1, <2>2, <2>3
<1> QED
  BY <1>1, <1>2, <1>3, <1>4

\* Two single elements.
LEMMA Pair ==
  ASSUME NEW S, NEW x \in S, NEW y \in S
  PROVE  <<x>> \o <<y>> = <<x, y>>
<1>1. <<x, y>> = Append(<<x>>, y)
  OBVIOUS
<1>2. <<x>> \in Seq(S)
  OBVIOUS
<1> QED
  BY <1>1, <1>2, AppendIsConcat

\* The two tokens of a choice come last.
ChoiceEnds(q, r, u, x, y) ==
  /\ (q \o ((r \o u) \o <<x>>)) \o <<y>> = ((q \o r) \o u) \o <<x, y>>
  /\ ((q \o r) \o u) \o <<x, y>> \in Seq(Token)

\* In postfix order they end the queue.
LEMMA ChoiceQueue ==
  \A q, r, u \in Seq(Token), x, y \in Token : ChoiceEnds(q, r, u, x, y)
<1> TAKE q, r, u \in Seq(Token), x, y \in Token
<1> DEFINE one == <<x>>
           two == <<y>>
<1>1. one \in Seq(Token) /\ two \in Seq(Token) /\ <<x, y>> = one \o two
  <2>1. one \in Seq(Token) /\ two \in Seq(Token)
    OBVIOUS
  <2>2. <<x, y>> = one \o two
    BY Pair
  <2> QED
    BY <2>1, <2>2
<1> HIDE DEF one, two
<1> DEFINE ru == r \o u
           qr == q \o r
           all == qr \o u
<1>2. ru \in Seq(Token) /\ qr \in Seq(Token)
  BY TokensJoin, Zenon
<1> HIDE DEF ru, qr
<1>3. all \in Seq(Token)
  BY <1>2, TokensJoin, Zenon
<1> HIDE DEF all
<1>4. Regroups(q, ru, one) /\ Regroups(q, r, u) /\ Regroups(all, one, two)
  BY <1>1, <1>2, <1>3, TokensRegroup, Zenon
<1>5. q \o ru = all
  BY <1>4 DEF Regroups, ru, qr, all
<1>6. (q \o ru) \o one = q \o (ru \o one)
  BY <1>4, Zenon DEF Regroups
<1>7. (all \o one) \o two = all \o (one \o two)
  BY <1>4, Zenon DEF Regroups
<1>8. (q \o (ru \o one)) \o two = all \o (one \o two)
  BY <1>5, <1>6, <1>7
<1>9. all \o (one \o two) \in Seq(Token)
  <2> DEFINE end == one \o two
  <2>1. end \in Seq(Token)
    BY <1>1, TokensJoin, Zenon
  <2> HIDE DEF end
  <2> QED
    BY <1>3, <2>1, TokensJoin, Zenon DEF end
<1>10. (q \o (ru \o one)) \o two = all \o <<x, y>> /\ all \o <<x, y>> \in Seq(Token)
  BY <1>1, <1>8, <1>9, Zenon
<1> QED
  BY <1>10, Zenon DEF one, two, ru, qr, all, ChoiceEnds

\* The places of the five parts of a choice.
ChoiceAt(t, p, a, q, b, r, c) ==
  /\ TextAt(t, p, a)
  /\ TextAt(t, p + Len(a), q)
  /\ TextAt(t, p + Len(a) + Len(q), b)
  /\ TextAt(t, p + Len(a) + Len(q) + Len(b), r)
  /\ TextAt(t, p + Len(a) + Len(q) + Len(b) + Len(r), c)
  /\ Len((((a \o q) \o b) \o r) \o c) = Len(a) + Len(q) + Len(b) + Len(r) + Len(c)
  /\ Len(a) \in Nat /\ Len(q) \in Nat /\ Len(b) \in Nat /\ Len(r) \in Nat
  /\ Len(c) \in Nat

\* The text of a choice has its parts in their places.
LEMMA ChoiceText ==
  ASSUME NEW a \in Seq(Lexeme), NEW b \in Seq(Lexeme), NEW c \in Seq(Lexeme),
         NEW q \in Seq(Lexeme), NEW r \in Seq(Lexeme), NEW t, NEW p \in Nat \ {0},
         TextAt(t, p, (((a \o q) \o b) \o r) \o c)
  PROVE  ChoiceAt(t, p, a, q, b, r, c)
<1> DEFINE two == a \o q
           three == two \o b
           four == three \o r
<1>1. two \in Seq(Lexeme) /\ TextAt(t, p, ((two \o b) \o r) \o c)
  BY ConcatProperties
<1> HIDE DEF two
<1>2. three \in Seq(Lexeme) /\ TextAt(t, p, (three \o r) \o c)
  BY <1>1, ConcatProperties
<1> HIDE DEF three
<1>3. four \in Seq(Lexeme) /\ TextAt(t, p, four \o c)
  BY <1>2, ConcatProperties
<1> HIDE DEF four
<1>4. /\ TextAt(t, p, four) /\ TextAt(t, p + Len(four), c)
      /\ Len(four \o c) = Len(four) + Len(c) /\ Len(c) \in Nat
  BY <1>3, TextSplit
<1>5. /\ TextAt(t, p, three) /\ TextAt(t, p + Len(three), r)
      /\ Len(four) = Len(three) + Len(r) /\ Len(r) \in Nat
  BY <1>2, <1>4, TextSplit DEF four
<1>6. /\ TextAt(t, p, two) /\ TextAt(t, p + Len(two), b)
      /\ Len(three) = Len(two) + Len(b) /\ Len(b) \in Nat
  BY <1>1, <1>5, TextSplit DEF three
<1>7. /\ TextAt(t, p, a) /\ TextAt(t, p + Len(a), q)
      /\ Len(two) = Len(a) + Len(q) /\ Len(a) \in Nat /\ Len(q) \in Nat
  BY <1>6, TextSplit DEF two
<1>8. /\ p + Len(two) = p + Len(a) + Len(q)
      /\ p + Len(three) = p + Len(a) + Len(q) + Len(b)
      /\ p + Len(four) = p + Len(a) + Len(q) + Len(b) + Len(r)
      /\ Len(four) + Len(c) = Len(a) + Len(q) + Len(b) + Len(r) + Len(c)
  BY <1>4, <1>5, <1>6, <1>7
<1>9. Len((((a \o q) \o b) \o r) \o c) = Len(four \o c)
  BY DEF two, three, four
<1> QED
  BY <1>4, <1>5, <1>6, <1>7, <1>8, <1>9 DEF ChoiceAt

\* The three parts of a choice and the symbols between them.
LEMMA ChoiceReads ==
  ASSUME NEW a \in Seq(Lexeme), NEW b \in Seq(Lexeme), NEW c \in Seq(Lexeme),
         Len(c) > 0,
         NEW q \in Seq(Token), NEW r \in Seq(Token), NEW u \in Seq(Token),
         Reads(a, q, 1), Reads(b, r, 1), Reads(c, u, 0)
  PROVE  Reads((((a \o Sign1("TERNARY_QUESTION_MARK")) \o b)
                  \o Sign1("TERNARY_COLON")) \o c,
               ((q \o r) \o u) \o <<Symbol("TERNARY_COLON"),
                                    Symbol("TERNARY_QUESTION_MARK")>>, 0)
<1> DEFINE asks == Sign1("TERNARY_QUESTION_MARK")
           tells == Sign1("TERNARY_COLON")
           question == Symbol("TERNARY_QUESTION_MARK")
           colon == Symbol("TERNARY_COLON")
           all == (((a \o asks) \o b) \o tells) \o c
           tokens == ((q \o r) \o u) \o <<colon, question>>
<1>1. /\ asks \in Seq(Lexeme) /\ tells \in Seq(Lexeme) /\ Len(asks) = 1 /\ Len(tells) = 1
      /\ question \in Token /\ colon \in Token
      /\ question.type \in OpsFrom(0) /\ colon.type \in OpsFrom(0)
      /\ "TERNARY_QUESTION_MARK" \in Operators /\ "TERNARY_COLON" \in Operators
      /\ "TERNARY_QUESTION_MARK" \in DOMAIN INFOS /\ "TERNARY_COLON" \in DOMAIN INFOS
      /\ OpsFrom(1) \subseteq OpsFrom(0)
  BY ChoiceSymbols
<1> HIDE DEF asks, tells, tokens
<1>0. SUFFICES ASSUME NEW t \in Seq(Lexeme), NEW p \in Nat \ {0},
                      NEW o \in Seq(Token), NEW s \in Seq(Token),
                      TextAt(t, p, all), Fits(s, 0)
             PROVE  Leaves(all, tokens, 0, t, p, o, s)
  BY DEF Reads, asks, tells, tokens
<1> DEFINE p2 == p + Len(a) + Len(asks)
           p3 == p2 + Len(b) + Len(tells)
           s2 == Append(s, question)
           s3 == Append(s2, colon)
<1>2. /\ TextAt(t, p, a) /\ TextAt(t, p + Len(a), asks)
      /\ TextAt(t, p2, b) /\ TextAt(t, p2 + Len(b), tells) /\ TextAt(t, p3, c)
      /\ Len(all) = Len(a) + Len(asks) + Len(b) + Len(tells) + Len(c)
      /\ Len(a) \in Nat /\ Len(b) \in Nat /\ Len(c) \in Nat
  <2>1. TextAt(t, p, (((a \o asks) \o b) \o tells) \o c) /\ p \in Nat \ {0}
    BY <1>0
  <2>2. ChoiceAt(t, p, a, asks, b, tells, c)
    BY <1>1, <2>1, ChoiceText, Zenon
  <2> QED
    BY <2>2 DEF ChoiceAt
<1>3. p2 \in Nat \ {0} /\ p3 \in Nat \ {0} /\ p2 <= p3 /\ p3 + Len(c) = p + Len(all)
  <2>1. /\ Len(asks) = 1 /\ Len(tells) = 1
        /\ Len(all) = Len(a) + Len(asks) + Len(b) + Len(tells) + Len(c)
        /\ Len(a) \in Nat /\ Len(b) \in Nat /\ Len(c) \in Nat
    BY <1>1, <1>2, Zenon
  <2>2. p \in Nat \ {0}
    BY <1>0
  <2> HIDE DEF all
  <2> QED
    BY <2>1, <2>2
<1>4. p3 <= Len(t) /\ Len(t) \in Nat
  <2>1. p3 + 1 - 1 = p3 /\ 1 \in 1..Len(c)
    BY <1>2, <1>3
  <2>2. p3 \in 1..Len(t)
    BY <1>2, <2>1 DEF TextAt
  <2> QED
    BY <2>2
<1>5. Fits(s, 1) /\ (Len(s) = 0 \/ ~GivesWay(s[Len(s)], question))
  <2>1. Fits(s, 1)
    BY <1>0, FitsTighter
  <2> QED
    BY <1>0, <1>1, <2>1 DEF Fits, Symbol
<1>6. Leads(t, <<p, o, s>>, <<p2, o \o q, s2>>)
  <2>1. p + Len(a) + Len(asks) <= Len(t)
    BY <1>3, <1>4
  <2>2. \A top \in OpsFrom(1) : Yields(top, "TERNARY_QUESTION_MARK")
    BY ChoiceYields
  <2>3. 1 \in 0..12
    OBVIOUS
  <2> QED
    BY <1>1, <1>2, <1>5, <2>1, <2>2, <2>3, LeftOperand, Zenon DEF asks
<1>7. /\ Fits(s2, 1) /\ s2 \in Seq(Token)
      /\ Len(s2) = 0 \/ ~GivesWay(s2[Len(s2)], colon)
  <2>1. \A type \in OpsFrom(1) : ~Yields("TERNARY_QUESTION_MARK", type)
    BY ChoiceYields
  <2>2. Fits(s2, 1) /\ s2 \in Seq(Token) /\ s2[Len(s2)] = question
    BY <1>1, <2>1, FitsPushed
  <2>3. ~GivesWay(question, colon)
    BY ChoiceYields DEF Yields
  <2> HIDE DEF s2
  <2> QED
    BY <2>2, <2>3
<1> HIDE DEF s2
<1>8. o \o q \in Seq(Token) /\ (o \o q) \o r \in Seq(Token)
  BY ConcatProperties
<1>9. Leads(t, <<p2, o \o q, s2>>, <<p3, (o \o q) \o r, s3>>)
  <2>1. p2 + Len(b) + Len(tells) <= Len(t)
    BY <1>4
  <2>2. \A top \in OpsFrom(1) : Yields(top, "TERNARY_COLON")
    BY ChoiceYields
  <2> DEFINE o2 == o \o q
  <2>3. o2 \in Seq(Token)
    BY <1>8
  <2>5. 1 \in 0..12
    OBVIOUS
  <2> HIDE DEF o2, p2
  <2>4. Leads(t, <<p2, o2, s2>>, <<p2 + Len(b) + Len(tells), o2 \o r, Append(s2, colon)>>)
    BY <1>1, <1>2, <1>3, <1>7, <2>1, <2>2, <2>3, <2>5, LeftOperand, Zenon DEF tells
  <2> QED
    BY <2>4 DEF o2
<1>10. Fits(s3, 0) /\ s3 \in Seq(Token)
  <2>1. \A type \in OpsFrom(0) : ~Yields("TERNARY_COLON", type)
    BY ChoiceYields
  <2> QED
    BY <1>1, <1>7, <2>1, FitsPushed
<1> HIDE DEF s3, p2, p3, all, question, colon
<1>11. PICK x \in Seq(Token), w \in Seq(Token) :
         /\ x \o Reversed(w) = u
         /\ \A i \in 1..Len(w) : w[i].type \in OpsFrom(0)
         /\ Leads(t, <<p3, (o \o q) \o r, s3>>,
                     <<p3 + Len(c), ((o \o q) \o r) \o x, s3 \o w>>)
  <2>1. Leaves(c, u, 0, t, p3, (o \o q) \o r, s3)
    BY <1>2, <1>3, <1>8, <1>10 DEF Reads
  <2> QED
    BY <2>1 DEF Leaves
<1>12. PICK y \in Seq(Token), v \in Seq(Token) :
         /\ ((o \o q) \o r) \o x = (o \o q) \o y
         /\ Emptied(y, v) = (r \o Emptied(x, w)) \o <<colon>>
         /\ Append(s2, colon) \o w = s2 \o v
         /\ Len(v) = Len(w) + 1 /\ Len(w) \in Nat /\ v[1] = colon
         /\ \A i \in 1..(Len(w) + 1) :
              i = 1 \/ (i - 1 \in 1..Len(w) /\ v[i] = w[i - 1])
  <2>1. Over(s2, o \o q, r, x, w, colon)
    BY <1>1, <1>7, <1>8, <1>11, OperandPushed, Zenon
  <2> QED
    BY <2>1 DEF Over
<1>13. PICK z \in Seq(Token), k \in Seq(Token) :
         /\ (o \o q) \o y = o \o z
         /\ Emptied(z, k) = (q \o Emptied(y, v)) \o <<question>>
         /\ Append(s, question) \o v = s \o k
         /\ Len(k) = Len(v) + 1 /\ Len(v) \in Nat /\ k[1] = question
         /\ \A i \in 1..(Len(v) + 1) :
              i = 1 \/ (i - 1 \in 1..Len(v) /\ k[i] = v[i - 1])
  <2>1. Over(s, o, q, y, v, question)
    BY <1>1, <1>12, OperandPushed, Zenon
  <2> QED
    BY <2>1 DEF Over
<1>14. z \o Reversed(k) = tokens
  <2>1. Emptied(x, w) = u
    BY <1>11 DEF Emptied
  <2>2. Emptied(z, k) = (q \o ((r \o u) \o <<colon>>)) \o <<question>>
    BY <1>12, <1>13, <2>1, Zenon
  <2>5. ChoiceEnds(q, r, u, colon, question)
    BY <1>1, ChoiceQueue, Zenon
  <2>3. (q \o ((r \o u) \o <<colon>>)) \o <<question>>
          = ((q \o r) \o u) \o <<colon, question>>
    BY <2>5, Zenon DEF ChoiceEnds
  <2>4. Emptied(z, k) = tokens
    BY <2>2, <2>3, Zenon DEF tokens
  <2> QED
    BY <2>4 DEF Emptied
<1>15. \A i \in 1..Len(k) : k[i].type \in OpsFrom(0)
  <2>1. \A i \in 1..Len(v) : v[i].type \in OpsFrom(0)
    BY <1>1, <1>11, <1>12
  <2> QED
    BY <1>1, <1>13, <2>1
<1>16. ((o \o q) \o r) \o x = o \o z /\ s3 \o w = s \o k
  BY <1>12, <1>13, Zenon DEF s3, s2
<1>17. Leads(t, <<p, o, s>>, <<p3, (o \o q) \o r, s3>>)
  BY <1>6, <1>9, LeadsOn
<1>18. Leads(t, <<p, o, s>>, <<p3 + Len(c), ((o \o q) \o r) \o x, s3 \o w>>)
  BY <1>11, <1>17, LeadsOn
<1>19. Leads(t, <<p, o, s>>, <<p + Len(all), o \o z, s \o k>>)
  BY <1>3, <1>16, <1>18, Zenon
<1> QED
  BY <1>13, <1>14, <1>15, <1>19 DEF Leaves

\* A choice between what is understood is.
LEMMA ChoiceUnderstood ==
  ASSUME NEW c, NEW a, NEW b, Understood(c), Understood(a), Understood(b)
  PROVE  Understood(Choice(c, a, b))
<1> DEFINE e == Choice(c, a, b)
           l == Within(c, 1)
           m == Within(a, 1)
           asks == Sign1("TERNARY_QUESTION_MARK")
           tells == Sign1("TERNARY_COLON")
<1>1. /\ asks = <<Symbol("TERNARY_QUESTION_MARK")>> /\ tells = <<Symbol("TERNARY_COLON")>>
      /\ asks \in Seq(Lexeme) /\ tells \in Seq(Lexeme)
      /\ Symbol("TERNARY_QUESTION_MARK") \in Token /\ Symbol("TERNARY_COLON") \in Token
  BY ChoiceSymbols
<1>2. /\ e.level = 0 /\ e.text = (((l \o asks) \o m) \o tells) \o b.text
      /\ e.queue = ((c.queue \o a.queue) \o b.queue)
                     \o <<Symbol("TERNARY_COLON"), Symbol("TERNARY_QUESTION_MARK")>>
  BY <1>1 DEF Choice, Expression
<1>3. /\ l \in Seq(Lexeme) /\ Reads(l, c.queue, 1) /\ c.queue \in Seq(Token)
      /\ m \in Seq(Lexeme) /\ Reads(m, a.queue, 1) /\ a.queue \in Seq(Token)
  <2>1. 1 \in 0..12
    OBVIOUS
  <2>2. l \in Seq(Lexeme) /\ Reads(l, c.queue, 1)
    BY <2>1, WithinReads
  <2>3. m \in Seq(Lexeme) /\ Reads(m, a.queue, 1)
    BY <2>1, WithinReads
  <2> QED
    BY <2>2, <2>3 DEF Understood
<1>4. /\ b.text \in Seq(Lexeme) /\ Len(b.text) > 0 /\ b.queue \in Seq(Token)
      /\ Reads(b.text, b.queue, 0)
  BY ReadsLooser DEF Understood
<1> HIDE DEF e, l, m
<1>5. Reads(e.text, e.queue, 0)
  <2>1. Reads((((l \o asks) \o m) \o tells) \o b.text,
              ((c.queue \o a.queue) \o b.queue)
                \o <<Symbol("TERNARY_COLON"), Symbol("TERNARY_QUESTION_MARK")>>, 0)
    BY <1>3, <1>4, ChoiceReads, Zenon
  <2> QED
    BY <1>2, <2>1, Zenon
<1> HIDE DEF asks, tells
<1>6. e.text \in Seq(Lexeme) /\ Len(e.text) > 0
  <2>1. l \o asks \in Seq(Lexeme)
    BY <1>1, <1>3, ConcatProperties
  <2>2. (l \o asks) \o m \in Seq(Lexeme)
    BY <1>3, <2>1, ConcatProperties
  <2>3. ((l \o asks) \o m) \o tells \in Seq(Lexeme)
    BY <1>1, <2>2, ConcatProperties
  <2> DEFINE before == ((l \o asks) \o m) \o tells
  <2>4. before \in Seq(Lexeme) /\ e.text = before \o b.text
    BY <1>2, <2>3
  <2> HIDE DEF before
  <2>5. /\ before \o b.text \in Seq(Lexeme)
        /\ Len(before \o b.text) = Len(before) + Len(b.text)
        /\ Len(before) \in Nat /\ Len(b.text) \in Nat
    BY <1>4, <2>4, ConcatProperties
  <2> QED
    BY <1>4, <2>4, <2>5
<1>7. e.queue \in Seq(Token)
  <2>2. ChoiceEnds(c.queue, a.queue, b.queue, Symbol("TERNARY_COLON"),
                   Symbol("TERNARY_QUESTION_MARK"))
    BY <1>1, <1>3, <1>4, ChoiceQueue, Zenon
  <2>1. ((c.queue \o a.queue) \o b.queue)
          \o <<Symbol("TERNARY_COLON"), Symbol("TERNARY_QUESTION_MARK")>> \in Seq(Token)
    BY <2>2, Zenon DEF ChoiceEnds
  <2> QED
    BY <1>2, <2>1, Zenon
<1>8. Understood(e)
  <2>1. e.level \in 0..12 /\ Reads(e.text, e.queue, e.level)
    BY <1>2, <1>5
  <2> QED
    BY <1>6, <1>7, <2>1 DEF Understood
<1> QED
  BY <1>8 DEF e
-----------------------------------------------------------------------------
(* Induction over the trees *)

\* Parentheses make an operand no shorter.
LEMMA WithinIs ==
  ASSUME NEW e, e.text \in Seq(Lexeme), NEW level
  PROVE  /\ Within(e, level) \in Seq(Lexeme)
         /\ Len(Within(e, level)) \in Nat /\ Len(e.text) \in Nat
         /\ Len(Within(e, level)) >= Len(e.text)
<1>1. CASE e.level < level
  <2>1. Within(e, level) = Parenthesised(e.text)
    BY <1>1 DEF Within
  <2>2. /\ Parenthesised(e.text) \in Seq(Lexeme)
        /\ Len(Parenthesised(e.text)) = Len(e.text) + 2
        /\ Len(e.text) \in Nat
    BY ParenthesisedIs
  <2> QED
    BY <2>1, <2>2
<1>2. CASE ~(e.level < level)
  <2>1. Within(e, level) = e.text
    BY <1>2 DEF Within
  <2>2. Len(e.text) \in Nat
    OBVIOUS
  <2> QED
    BY <2>1, <2>2
<1> QED
  BY <1>1, <1>2

Shorter(a, e) == Len(a.text) < Len(e.text)

\* The text of an operand is shorter than the text of the expression.
LEMMA ComplementShorter ==
  ASSUME NEW a, a.text \in Seq(Lexeme)
  PROVE  Shorter(a, Complement(a))
<1> DEFINE in == Within(a, Tightest)
           one == <<Symbol("BITWISE_NOT")>>
<1>1. in \in Seq(Lexeme) /\ Len(in) \in Nat /\ Len(a.text) \in Nat /\ Len(in) >= Len(a.text)
  BY WithinIs
<1>2. one \in Seq(Lexeme) /\ Len(one) = 1
  BY SymbolType, InfosAre, OpensTypes
<1>3. Complement(a).text = Parenthesised(one \o in)
  BY DEF Complement, Expression
<1> HIDE DEF in, one
<1>4. one \o in \in Seq(Lexeme) /\ Len(one \o in) = Len(one) + Len(in)
  BY <1>1, <1>2, ConcatProperties
<1>5. Len(Parenthesised(one \o in)) = Len(one \o in) + 2
  BY <1>4, ParenthesisedIs
<1> QED
  BY <1>1, <1>2, <1>3, <1>4, <1>5 DEF Shorter

LEMMA DyadicShorter ==
  ASSUME NEW op \in Binary, NEW a, NEW b,
         a.text \in Seq(Lexeme), b.text \in Seq(Lexeme)
  PROVE  Shorter(a, Dyadic(op, a, b)) /\ Shorter(b, Dyadic(op, a, b))
<1> DEFINE l == Within(a, LeftLevel(op))
           r == Within(b, RightLevel(op))
           sign == Sign1(op)
<1>1. /\ l \in Seq(Lexeme) /\ Len(l) \in Nat /\ Len(a.text) \in Nat /\ Len(l) >= Len(a.text)
      /\ r \in Seq(Lexeme) /\ Len(r) \in Nat /\ Len(b.text) \in Nat /\ Len(r) >= Len(b.text)
  BY WithinIs
<1>2. sign \in Seq(Lexeme) /\ Len(sign) \in Nat /\ Len(sign) > 0
  BY BinaryIs, SignIs
<1>3. Dyadic(op, a, b).text = (l \o sign) \o r
  BY DEF Dyadic, Expression, LeftLevel, RightLevel
<1> HIDE DEF l, r, sign
<1>4. l \o sign \in Seq(Lexeme) /\ Len(l \o sign) = Len(l) + Len(sign)
  BY <1>1, <1>2, ConcatProperties
<1>5. Len((l \o sign) \o r) = Len(l \o sign) + Len(r)
  BY <1>1, <1>4, ConcatProperties
<1> QED
  BY <1>1, <1>2, <1>3, <1>4, <1>5 DEF Shorter

LEMMA ChoiceShorter ==
  ASSUME NEW c, NEW a, NEW b, c.text \in Seq(Lexeme),
         a.text \in Seq(Lexeme), b.text \in Seq(Lexeme)
  PROVE  /\ Shorter(c, Choice(c, a, b)) /\ Shorter(a, Choice(c, a, b))
         /\ Shorter(b, Choice(c, a, b))
<1> DEFINE l == Within(c, 1)
           m == Within(a, 1)
           q == Sign1("TERNARY_QUESTION_MARK")
           r == Sign1("TERNARY_COLON")
<1>1. /\ l \in Seq(Lexeme) /\ Len(l) \in Nat /\ Len(c.text) \in Nat /\ Len(l) >= Len(c.text)
      /\ m \in Seq(Lexeme) /\ Len(m) \in Nat /\ Len(a.text) \in Nat /\ Len(m) >= Len(a.text)
      /\ Len(b.text) \in Nat
  BY WithinIs
<1>2. /\ q \in Seq(Lexeme) /\ Len(q) = 1 /\ r \in Seq(Lexeme) /\ Len(r) = 1
      /\ q = <<Symbol("TERNARY_QUESTION_MARK")>> /\ r = <<Symbol("TERNARY_COLON")>>
  BY ChoiceSymbols
<1>3. Choice(c, a, b).text = (((l \o q) \o m) \o r) \o b.text
  BY <1>2 DEF Choice, Expression
<1> HIDE DEF l, m, q, r
<1>4. l \o q \in Seq(Lexeme) /\ Len(l \o q) = Len(l) + Len(q)
  BY <1>1, <1>2, ConcatProperties
<1>5. (l \o q) \o m \in Seq(Lexeme) /\ Len((l \o q) \o m) = Len(l \o q) + Len(m)
  BY <1>1, <1>4, ConcatProperties
<1>6. /\ ((l \o q) \o m) \o r \in Seq(Lexeme)
      /\ Len(((l \o q) \o m) \o r) = Len((l \o q) \o m) + Len(r)
  BY <1>2, <1>5, ConcatProperties
<1>7. Len((((l \o q) \o m) \o r) \o b.text) = Len(((l \o q) \o m) \o r) + Len(b.text)
  BY <1>6, ConcatProperties
<1>8. Len(Choice(c, a, b).text) = Len(l) + 1 + Len(m) + 1 + Len(b.text)
  BY <1>1, <1>2, <1>3, <1>4, <1>5, <1>6, <1>7
<1>9. \A k, i, j, x, y \in Nat : x >= k /\ y >= i =>
        k < x + 1 + y + 1 + j /\ i < x + 1 + y + 1 + j /\ j < x + 1 + y + 1 + j
  OBVIOUS
<1>10. /\ Len(c.text) < Len(l) + 1 + Len(m) + 1 + Len(b.text)
       /\ Len(a.text) < Len(l) + 1 + Len(m) + 1 + Len(b.text)
       /\ Len(b.text) < Len(l) + 1 + Len(m) + 1 + Len(b.text)
  BY <1>1, <1>9
<1> QED
  BY <1>8, <1>10, Zenon DEF Shorter

\* How a tree is made, and that its operands are smaller.
Made(e) ==
  \/ e.meaning \in Int /\ e = Number(e.meaning)
  \/ \E n \in DOMAIN Variables : n \in Int /\ Variables[n] \in Int /\ e = Name(n)
  \/ \E a \in Trees : e = Complement(a) /\ Shorter(a, e)
  \/ \E op \in Binary : \E a \in Trees : \E b \in Trees :
       e = Dyadic(op, a, b) /\ Shorter(a, e) /\ Shorter(b, e)
  \/ \E c \in Trees : \E a \in Trees : \E b \in Trees :
       e = Choice(c, a, b) /\ Shorter(c, e) /\ Shorter(a, e) /\ Shorter(b, e)

\* A tree is made by one of the constructors, of smaller trees.
LEMMA TreesMade ==
  ASSUME NEW e \in Trees
  PROVE  Made(e) /\ e.text \in Seq(Lexeme) /\ e.meaning \in Int
<1>1. IsTree(e)
  BY ReferenceAssumption
<1>2. e.text \in Seq(Lexeme) /\ e.meaning \in Int /\ \A i \in DOMAIN e.args : e.args[i] \in Trees
  BY <1>1 DEF IsTree
<1>3. \A a \in Trees : a.text \in Seq(Lexeme)
  BY ReferenceAssumption DEF IsTree
<1>4. CASE e = Number(e.meaning)
  BY <1>2, <1>4 DEF Made
<1>5. CASE \E n \in DOMAIN Variables : e = Name(n)
  <2>1. \A n \in DOMAIN Variables : n \in Int /\ Variables[n] \in Int
    BY FormulaAssumption
  <2> QED
    BY <1>2, <1>5, <2>1, Zenon DEF Made
<1>6. CASE e.op = "BITWISE_NOT" /\ e = Complement(e.args[1])
  <2> DEFINE a == e.args[1]
  <2>1. e = Complement(a)
    BY <1>6
  <2> HIDE DEF a
  <2>2. e.args = <<a>>
    BY <2>1 DEF Complement, Expression
  <2>3. 1 \in DOMAIN <<a>>
    OBVIOUS
  <2>4. a \in Trees
    BY <1>2, <2>2, <2>3 DEF a
  <2>5. Shorter(a, e)
    BY <1>3, <2>1, <2>4, ComplementShorter
  <2> QED
    BY <1>2, <2>1, <2>4, <2>5, Zenon DEF Made
<1>7. CASE e.op \in Binary /\ e = Dyadic(e.op, e.args[1], e.args[2])
  <2> DEFINE a == e.args[1]
             b == e.args[2]
             op == e.op
  <2>1. op \in Binary /\ e = Dyadic(op, a, b)
    BY <1>7
  <2> HIDE DEF a, b, op
  <2>2. e.args = <<a, b>>
    BY <2>1 DEF Dyadic, Expression
  <2>3. 1 \in DOMAIN <<a, b>> /\ 2 \in DOMAIN <<a, b>>
    OBVIOUS
  <2>4. a \in Trees /\ b \in Trees
    BY <1>2, <2>2, <2>3 DEF a, b
  <2>5. Shorter(a, e) /\ Shorter(b, e)
    BY <1>3, <2>1, <2>4, DyadicShorter
  <2> QED
    BY <1>2, <2>1, <2>4, <2>5, Zenon DEF Made
<1>8. CASE /\ e.op = "TERNARY_QUESTION_MARK"
           /\ e = Choice(e.args[1], e.args[2], e.args[3])
  <2> DEFINE c == e.args[1]
             a == e.args[2]
             b == e.args[3]
  <2>1. e = Choice(c, a, b)
    BY <1>8
  <2> HIDE DEF a, b, c
  <2>2. e.args = <<c, a, b>>
    BY <2>1 DEF Choice, Expression
  <2>3. 1 \in DOMAIN <<c, a, b>> /\ 2 \in DOMAIN <<c, a, b>> /\ 3 \in DOMAIN <<c, a, b>>
    OBVIOUS
  <2>4. a \in Trees /\ b \in Trees /\ c \in Trees
    BY <1>2, <2>2, <2>3 DEF a, b, c
  <2>5. Shorter(a, e) /\ Shorter(b, e) /\ Shorter(c, e)
    BY <1>3, <2>1, <2>4, ChoiceShorter
  <2> QED
    BY <1>2, <2>1, <2>4, <2>5, Zenon DEF Made
<1> QED
  BY <1>1, <1>4, <1>5, <1>6, <1>7, <1>8 DEF IsTree

\* Of a set of trees one has no smaller one in it.
LEMMA SmallestTree ==
  ASSUME NEW B, B \subseteq Trees, B # {}
  PROVE  \E e \in B : \A a \in B : ~Shorter(a, e)
<1>1. \A e \in B : Len(e.text) \in Nat
  BY TreesMade, LenProperties
<1> DEFINE T == {Len(e.text) : e \in B}
           Less == OpToRel(<, Nat)
<1>2. T \subseteq Nat /\ T # {}
  BY <1>1
<1>3. \A x, y \in Nat : y < x => <<y, x>> \in Less
  BY DEF OpToRel
<1>4. IsWellFoundedOn(Less, Nat)
  BY NatLessThanWellFounded
<1> HIDE DEF T, Less
<1>5. PICK x \in T : \A y \in T : ~(<<y, x>> \in Less)
  BY <1>2, <1>4, WFMin
<1>6. PICK e \in B : x = Len(e.text)
  BY <1>5 DEF T
<1>7. ASSUME NEW a \in B
      PROVE  ~Shorter(a, e)
  <2>1. Len(a.text) \in T
    BY DEF T
  <2>2. ~(Len(a.text) < x)
    BY <1>2, <1>3, <1>5, <2>1
  <2> QED
    BY <1>6, <2>2 DEF Shorter
<1> QED
  BY <1>7

\* The constructor understands every tree.
LEMMA AllUnderstood == \A e \in Trees : Understood(e)
<1> DEFINE B == {e \in Trees : ~Understood(e)}
<1> SUFFICES ASSUME B # {}
             PROVE  FALSE
  OBVIOUS
<1>1. PICK e \in B : \A a \in B : ~Shorter(a, e)
  <2>1. B \subseteq Trees
    OBVIOUS
  <2> HIDE DEF B
  <2> QED
    BY <2>1, SmallestTree
<1>2. \A a \in Trees : Shorter(a, e) => Understood(a)
  BY <1>1
<1>3. e \in Trees /\ ~Understood(e)
  OBVIOUS
<1>4. Made(e)
  BY <1>3, TreesMade
<1>5. Understood(e)
  <2>1. CASE e.meaning \in Int /\ e = Number(e.meaning)
    BY <2>1, NumberUnderstood
  <2>2. CASE \E n \in DOMAIN Variables : n \in Int /\ Variables[n] \in Int /\ e = Name(n)
    BY <2>2, NameUnderstood
  <2>3. CASE \E a \in Trees : e = Complement(a) /\ Shorter(a, e)
    BY <1>2, <2>3, ComplementUnderstood
  <2>4. CASE \E op \in Binary : \E a \in Trees : \E b \in Trees :
               e = Dyadic(op, a, b) /\ Shorter(a, e) /\ Shorter(b, e)
    BY <1>2, <2>4, DyadicUnderstood
  <2>5. CASE \E c \in Trees : \E a \in Trees : \E b \in Trees :
               e = Choice(c, a, b) /\ Shorter(c, e) /\ Shorter(a, e) /\ Shorter(b, e)
    BY <1>2, <2>5, ChoiceUnderstood
  <2> QED
    BY <1>4, <2>1, <2>2, <2>3, <2>4, <2>5 DEF Made
<1> QED
  BY <1>3, <1>5
-----------------------------------------------------------------------------
(* The steps of the constructor *)

Configuration == <<position, output, stack>>

\* The text that is left brings the output and the stack where they give the
\* tokens of the expression.
Ahead ==
  \E x \in Seq(Token), w \in Seq(Token) :
    /\ Emptied(x, w) = tree.queue
    /\ \A i \in 1..Len(w) : IsOperator(w[i])
    /\ Leads(text, Configuration, <<Len(text) + 1, x, w>>)

TreeRead ==
  tree # NoTree =>
    /\ tree \in Trees
    /\ pc \in {"read", "evaluate", "done"}
    /\ pc = "read" => Ahead
    /\ pc # "read" => output = tree.queue

ReadInv == ParserInv /\ TreeRead

\* An action of the model that handles a token is a step of the relation.
LEMMA ReadingStep ==
  ASSUME text \in Seq(Lexeme), position \in Nat \ {0}, Reading,
         Handles(NextToken, output, stack, output', stack')
  PROVE  Step(text, Configuration, Configuration')
<1>1. TokenAt(text, position) = NextToken /\ SizeAt(text, position) = TokenSize
  BY DEF TokenAt, NextToken, SizeAt, TokenSize, Follows, FollowsAt
<1>2. /\ position \in 1..Len(text)
      /\ ~(text[position].type \in LooksAhead /\ position = Len(text))
      /\ position' = position + TokenSize
  BY DEF Reading
<1> DEFINE c == Configuration
           d == Configuration'
<1>3. /\ c[1] = position /\ c[2] = output /\ c[3] = stack
      /\ d = <<position', output', stack'>>
  BY DEF Configuration
<1> HIDE DEF c, d
<1>4. Step(text, c, d)
  BY <1>1, <1>2, <1>3, Zenon DEF Step
<1> QED
  BY <1>4 DEF c, d

\* A step leaves the end of the way ahead.
LEMMA AheadNext ==
  ASSUME text \in Seq(Lexeme), position \in Nat \ {0}, stack \in Seq(Token), Reading,
         Handles(NextToken, output, stack, output', stack'),
         Ahead, text' = text, tree' = tree
  PROVE  Ahead'
<1>1. PICK x \in Seq(Token), w \in Seq(Token) :
        /\ Emptied(x, w) = tree.queue
        /\ \A i \in 1..Len(w) : IsOperator(w[i])
        /\ Leads(text, Configuration, <<Len(text) + 1, x, w>>)
  BY DEF Ahead
<1> DEFINE c == Configuration
           d == Configuration'
           f == <<Len(text) + 1, x, w>>
<1>2. Step(text, c, d)
  BY ReadingStep
<1>3. Len(c[3]) \in Nat /\ c # f
  <2>1. c[3] = stack /\ c[1] = position /\ f[1] = Len(text) + 1
    BY DEF Configuration
  <2>2. position <= Len(text) /\ Len(text) \in Nat
    BY DEF Reading
  <2> HIDE DEF c, f
  <2> QED
    BY <2>1, <2>2
<1>4. Leads(text, c, f)
  BY <1>1
<1> HIDE DEF c, d, f
<1>5. Leads(text, d, f)
  BY <1>2, <1>3, <1>4, LeadsAfter
<1>6. Leads(text, Configuration', <<Len(text) + 1, x, w>>)
  BY <1>5 DEF d, f
<1> QED
  BY <1>1, <1>6 DEF Ahead, IsOperator

\* Where no step is possible, the text is at its end.
LEMMA AheadStuck ==
  ASSUME Ahead, \A d : ~Step(text, Configuration, d)
  PROVE  /\ position = Len(text) + 1 /\ output \in Seq(Token) /\ stack \in Seq(Token)
         /\ Emptied(output, stack) = tree.queue
         /\ \A i \in 1..Len(stack) : IsOperator(stack[i])
<1>1. PICK x \in Seq(Token), w \in Seq(Token) :
        /\ Emptied(x, w) = tree.queue
        /\ \A i \in 1..Len(w) : IsOperator(w[i])
        /\ Leads(text, Configuration, <<Len(text) + 1, x, w>>)
  BY DEF Ahead
<1>2. Configuration = <<Len(text) + 1, x, w>>
  BY <1>1, LeadsStuck
<1>3. position = Len(text) + 1 /\ output = x /\ stack = w
  BY <1>2 DEF Configuration
<1> QED
  BY <1>1, <1>3

\* At the start of the text of a tree, its tokens are ahead.
LEMMA AheadInit ==
  ASSUME ReferenceInit, tree \in Trees, text = tree.text
  PROVE  Ahead
<1>1. /\ text \in Seq(Lexeme) /\ tree.queue \in Seq(Token) /\ tree.level \in 0..12
      /\ Reads(text, tree.queue, tree.level)
  BY AllUnderstood DEF Understood
<1>2. Configuration = <<1, <<>>, <<>>>>
  BY DEF ReferenceInit, Init, Configuration
<1>3. TextAt(text, 1, text)
  <2>1. \A i \in 1..Len(text) : 1 + i - 1 = i
    OBVIOUS
  <2> QED
    BY <2>1 DEF TextAt
<1> DEFINE none == <<>>
<1>4. none \in Seq(Token) /\ Len(none) = 0 /\ 1 \in Nat \ {0}
  OBVIOUS
<1>5. \A s \in Seq(Token) : none \o s = s
  BY ConcatEmptySeq
<1>6. Configuration = <<1, none, none>>
  BY <1>2
<1> HIDE DEF none
<1>7. Fits(none, tree.level)
  BY <1>4 DEF Fits
<1>8. PICK x \in Seq(Token), w \in Seq(Token) :
        /\ x \o Reversed(w) = tree.queue
        /\ \A i \in 1..Len(w) : w[i].type \in OpsFrom(tree.level)
        /\ Leads(text, <<1, none, none>>, <<1 + Len(text), none \o x, none \o w>>)
  <2>1. Leaves(text, tree.queue, tree.level, text, 1, none, none)
    BY <1>1, <1>3, <1>4, <1>7, Zenon DEF Reads
  <2> QED
    BY <2>1 DEF Leaves
<1>9. \A i \in 1..Len(w) : IsOperator(w[i])
  BY <1>1, <1>8, OpsFromAre DEF IsOperator
<1>10. 1 + Len(text) = Len(text) + 1
  <2>1. Len(text) \in Nat
    BY <1>1
  <2> QED
    BY <2>1
<1>11. Leads(text, Configuration, <<Len(text) + 1, x, w>>)
  BY <1>5, <1>6, <1>8, <1>10, Zenon
<1>12. Emptied(x, w) = tree.queue
  BY <1>8 DEF Emptied
<1> QED
  BY <1>9, <1>11, <1>12 DEF Ahead

\* The reading of a token is a step.
LEMMA ReadsHandle ==
  ASSUME ParserInv, ReadNumber \/ ReadOperator \/ ReadLeft \/ ReadRight \/ ReadNothing
  PROVE  /\ Reading /\ Handles(NextToken, output, stack, output', stack')
         /\ text' = text /\ pc' = pc /\ pc = "read"
<1>1. CASE ReadNumber
  BY <1>1 DEF ReadNumber, Handles, Reading
<1>2. CASE ReadOperator
  <2> DEFINE token == NextToken
             k == Kept(token)
  <2>1. /\ Reading /\ IsOperator(token) /\ text' = text /\ pc' = pc /\ pc = "read"
        /\ output' = output \o Above(k)
        /\ stack' = Append(SubSeq(stack, 1, k), token)
    BY <1>2 DEF ReadOperator, Reading
  <2>2. /\ k \in 0..Len(stack)
        /\ k = 0 \/ ~GivesWay(stack[k], token)
        /\ \A i \in (k + 1)..Len(stack) : GivesWay(stack[i], token)
    BY KeptIs DEF ParserInv, ParserOK
  <2>3. Above(k) = Top(stack, k)
    BY DEF Above, Top
  <2> HIDE DEF token, k
  <2>4. StaysAt(stack, k, token)
    BY <2>2 DEF StaysAt
  <2>5. Handles(token, output, stack, output', stack')
    BY <2>1, <2>2, <2>3, <2>4, Zenon DEF Handles
  <2> QED
    BY <2>1, <2>5 DEF token
<1>3. CASE ReadLeft
  BY <1>3 DEF ReadLeft, Handles, Reading
<1>4. CASE ReadRight
  <2> DEFINE k == Opened
  <2>1. /\ Reading /\ NextToken.type = "RIGHT_BRACKET"
        /\ text' = text /\ pc' = pc /\ pc = "read" /\ LeftBrackets # {}
        /\ output' = output \o Above(k)
        /\ stack' = SubSeq(stack, 1, k - 1)
    BY <1>4 DEF ReadRight, Reading
  <2>2. /\ k \in 1..Len(stack) /\ stack[k].type = "LEFT_BRACKET"
        /\ \A i \in (k + 1)..Len(stack) : IsOperator(stack[i])
    BY <2>1, OpenedIs DEF ParserInv, ParserOK
  <2>3. Above(k) = Top(stack, k)
    BY DEF Above, Top
  <2> HIDE DEF k
  <2>4. OpenedAt(stack, k)
    <3>1. "LEFT_BRACKET" \notin Operators
      BY OpensTypes
    <3> QED
      BY <2>2, <3>1 DEF OpenedAt, IsOperator
  <2> DEFINE token == NextToken
  <2>6. token.type = "RIGHT_BRACKET"
    BY <2>1
  <2> HIDE DEF token
  <2>5. Handles(token, output, stack, output', stack')
    BY <2>1, <2>2, <2>3, <2>4, <2>6, Zenon DEF Handles
  <2> QED
    BY <2>1, <2>5 DEF token
<1>5. CASE ReadNothing
  BY <1>5 DEF ReadNothing, Handles, Reading
<1> QED
  BY <1>1, <1>2, <1>3, <1>4, <1>5

\* A text that stands for an expression closes no parenthesis too many.
LEMMA NothingUnopened ==
  ASSUME ParserInv, Ahead, ReadUnopened
  PROVE  FALSE
<1>1. /\ Reading /\ NextToken.type = "RIGHT_BRACKET" /\ LeftBrackets = {}
  BY DEF ReadUnopened
<1>2. position \in Nat \ {0} /\ text \in Seq(Lexeme)
  BY DEF ParserInv, ParserOK
<1>3. TokenAt(text, position) = NextToken
  BY DEF TokenAt, NextToken, Follows, FollowsAt
<1>4. Configuration[1] = position /\ Configuration[3] = stack
  BY DEF Configuration
<1>5. ASSUME NEW d, Step(text, Configuration, d)
      PROVE  FALSE
  <2>1. PICK o2, s2 : Handles(NextToken, Configuration[2], stack, o2, s2)
    BY <1>3, <1>4, <1>5 DEF Step
  <2>2. PICK k \in 1..Len(stack) : OpenedAt(stack, k)
    BY <1>1, <2>1, TokenKinds DEF Handles
  <2> QED
    BY <1>1, <2>2 DEF OpenedAt, LeftBrackets
<1>6. position = Len(text) + 1 /\ Len(text) \in Nat
  BY <1>2, <1>5, AheadStuck
<1> QED
  BY <1>1, <1>6 DEF Reading

\* Nor does it end where the parser looks one character further.
LEMMA NothingThrown ==
  ASSUME ParserInv, Ahead, ReadThrows
  PROVE  FALSE
<1>1. position = Len(text) /\ text[position].type \in LooksAhead /\ Len(text) \in Nat
  BY DEF ReadThrows, ParserInv, ParserOK
<1>2. Configuration[1] = position
  BY DEF Configuration
<1>3. \A d : ~Step(text, Configuration, d)
  BY <1>1, <1>2 DEF Step
<1>4. position = Len(text) + 1
  BY <1>3, AheadStuck
<1> QED
  BY <1>1, <1>4

\* At the end of the text, the output and the stack give the tokens.
LEMMA FlushYields ==
  ASSUME ParserInv, Ahead, pc = "read", Flush
  PROVE  output' = tree.queue
<1>1. position > Len(text) /\ Len(text) \in Nat /\ position \in Nat
  BY DEF Flush, ParserInv, ParserOK
<1>2. Configuration[1] = position
  BY DEF Configuration
<1>3. \A d : ~Step(text, Configuration, d)
  BY <1>1, <1>2 DEF Step
<1>4. /\ Emptied(output, stack) = tree.queue
      /\ \A i \in 1..Len(stack) : IsOperator(stack[i])
      /\ stack \in Seq(Token)
  BY <1>3, AheadStuck
<1>5. LeftBrackets = {}
  <2>1. "LEFT_BRACKET" \notin Operators
    BY OpensTypes
  <2> QED
    BY <1>4, <2>1 DEF LeftBrackets, IsOperator
<1>6. output' = output \o Above(0)
  BY <1>5 DEF Flush
<1>7. Above(0) = Reversed(stack)
  <2>1. Len(stack) - 0 = Len(stack)
    BY <1>4
  <2> QED
    BY <2>1 DEF Above, Reversed
<1> QED
  BY <1>4, <1>6, <1>7 DEF Emptied

\* Every step of the model preserves the invariant.
LEMMA ReadInvNext == ReadInv /\ [Next /\ UNCHANGED tree]_<<vars, tree>> => ReadInv'
<1> SUFFICES ASSUME ReadInv, [Next /\ UNCHANGED tree]_<<vars, tree>>
             PROVE  ReadInv'
  OBVIOUS
<1>1. ParserInv /\ [Next]_vars /\ tree' = tree /\ TreeRead
  BY DEF ReadInv, vars
<1>2. ParserInv'
  BY <1>1, InvNext
<1>3. TreeRead'
  <2> SUFFICES ASSUME tree # NoTree
               PROVE  /\ tree \in Trees
                      /\ pc' \in {"read", "evaluate", "done"}
                      /\ pc' = "read" => Ahead'
                      /\ pc' # "read" => output' = tree.queue
    BY <1>1 DEF TreeRead
  <2>1. /\ tree \in Trees /\ pc \in {"read", "evaluate", "done"}
        /\ pc = "read" => Ahead
        /\ pc # "read" => output = tree.queue
    BY <1>1 DEF TreeRead
  <2>2. CASE ReadNumber \/ ReadOperator \/ ReadLeft \/ ReadRight \/ ReadNothing
    <3>1. /\ Reading /\ Handles(NextToken, output, stack, output', stack')
          /\ text' = text /\ pc' = pc /\ pc = "read"
      BY <1>1, <2>2, ReadsHandle
    <3>2. Ahead'
      BY <1>1, <2>1, <3>1, AheadNext DEF ParserInv, ParserOK
    <3> QED
      BY <2>1, <3>1, <3>2
  <2>3. CASE ReadUnopened
    BY <1>1, <2>1, <2>3, NothingUnopened DEF ReadUnopened, Reading
  <2>4. CASE ReadThrows
    BY <1>1, <2>1, <2>4, NothingThrown DEF ReadThrows
  <2>5. CASE Flush
    <3>1. pc = "read" /\ pc' = "evaluate"
      BY <2>1, <2>5 DEF Flush
    <3> QED
      BY <1>1, <2>1, <2>5, <3>1, FlushYields
  <2>6. CASE EvaluateNumber \/ EvaluateOperator \/ Break \/ Finish
    <3>1. pc = "evaluate" /\ pc' \in {"evaluate", "done"} /\ output' = output
      BY <2>6 DEF EvaluateNumber, EvaluateOperator, Break, Finish, parser
    <3> QED
      BY <2>1, <3>1
  <2>7. CASE UNCHANGED vars
    <3>1. pc' = pc /\ output' = output /\ position' = position /\ stack' = stack
          /\ text' = text
      BY <2>7 DEF vars, parser
    <3>2. Ahead => Ahead'
      BY <1>1, <3>1 DEF Ahead, Configuration, IsOperator
    <3> QED
      BY <2>1, <3>1, <3>2
  <2> QED
    BY <1>1, <2>2, <2>3, <2>4, <2>5, <2>6, <2>7 DEF Next
<1> QED
  BY <1>2, <1>3 DEF ReadInv

\* The invariant holds where the reading starts.
LEMMA ReadInvInit == ReferenceInit => ReadInv
<1> SUFFICES ASSUME ReferenceInit
             PROVE  ReadInv
  OBVIOUS
<1>1. ParserInv
  BY DEF ReferenceInit, Init, ParserInv, ParserOK, OutputClean, StackOrdered
<1>2. tree # NoTree => tree \in Trees /\ Ahead
  BY AheadInit DEF ReferenceInit
<1>3. pc = "read"
  BY DEF ReferenceInit, Init
<1> QED
  BY <1>1, <1>2, <1>3 DEF ReadInv, TreeRead
-----------------------------------------------------------------------------
(* Powers of two, and what a double holds of an integer *)

\* A power of two is the number of subsets of a set: this is where the growth of
\* the powers comes from, the provers know nothing else of exponents.
LEMMA PowerIs ==
  ASSUME NEW m \in Nat
  PROVE  /\ 2^m = Cardinality(SUBSET (1..m)) /\ 2^m \in Nat
         /\ IsFiniteSet(SUBSET (1..m))
<1>1. IsFiniteSet(1..m) /\ Cardinality(1..m) = m
  BY FS_Interval
<1>2. IsFiniteSet(SUBSET (1..m)) /\ 2^m = Cardinality(SUBSET (1..m))
  BY <1>1, FS_SUBSET
<1> QED
  BY <1>2, FS_CardinalityType

LEMMA PowerZero == 2^0 = 1
<1>1. 1..0 = {} /\ 0 \in Nat
  OBVIOUS
<1>2. SUBSET (1..0) = {{}}
  BY <1>1
<1>3. Cardinality({{}}) = 1
  BY FS_Singleton
<1> QED
  BY <1>1, <1>2, <1>3, PowerIs

LEMMA PowerNext ==
  ASSUME NEW m \in Nat
  PROVE  2^(m + 1) = 2 * 2^m
<1> DEFINE A == SUBSET (1..m)
           B == {x \cup {m + 1} : x \in A}
           f == [x \in A |-> x \cup {m + 1}]
<1>1. \A x \in A : m + 1 \notin x
  OBVIOUS
<1>2. f \in Bijection(A, B)
  <2>1. f \in [A -> B]
    OBVIOUS
  <2>2. \A x, y \in A : f[x] = f[y] => x = y
    <3> SUFFICES ASSUME NEW x \in A, NEW y \in A, x \cup {m + 1} = y \cup {m + 1}
                 PROVE  x = y
      OBVIOUS
    <3>1. m + 1 \notin x /\ m + 1 \notin y
      BY <1>1
    <3>2. \A i : i \in x <=> i \in y
      BY <3>1
    <3> QED
      BY <3>2
  <2>3. \A z \in B : \E x \in A : f[x] = z
    OBVIOUS
  <2> HIDE DEF f, B, A
  <2> QED
    BY <2>1, <2>2, <2>3 DEF Bijection, Injection, Surjection, IsInjective
<1>3. SUBSET (1..(m + 1)) = A \cup B
  <2>1. 1..(m + 1) = 1..m \cup {m + 1}
    OBVIOUS
  <2>2. ASSUME NEW x \in SUBSET (1..(m + 1))
        PROVE  x \in A \cup B
    <3>1. CASE m + 1 \in x
      <4>1. x \ {m + 1} \in A /\ x = (x \ {m + 1}) \cup {m + 1}
        BY <2>1, <3>1
      <4> QED
        BY <4>1
    <3>2. CASE m + 1 \notin x
      BY <2>1, <3>2
    <3> QED
      BY <3>1, <3>2
  <2>3. ASSUME NEW x \in A \cup B
        PROVE  x \in SUBSET (1..(m + 1))
    BY <2>1
  <2> QED
    BY <2>2, <2>3
<1>4. A \cap B = {}
  BY <1>1
<1>5. /\ IsFiniteSet(A) /\ Cardinality(A) = 2^m /\ 2^m \in Nat
      /\ Cardinality(SUBSET (1..(m + 1))) = 2^(m + 1)
  <2>1. m + 1 \in Nat
    OBVIOUS
  <2>2. Cardinality(SUBSET (1..(m + 1))) = 2^(m + 1)
    BY <2>1, PowerIs
  <2>3. IsFiniteSet(A) /\ Cardinality(A) = 2^m /\ 2^m \in Nat
    BY PowerIs
  <2> QED
    BY <2>2, <2>3
<1>6. ExistsBijection(A, B)
  BY <1>2 DEF ExistsBijection
<1> HIDE DEF A, B, f
<1>7. IsFiniteSet(B) /\ Cardinality(B) = 2^m
  BY <1>5, <1>6, FS_Bijection
<1>8. Cardinality(A \cup B) = Cardinality(A) + Cardinality(B) - Cardinality(A \cap B)
  BY <1>5, <1>7, FS_Union
<1>9. Cardinality(A \cap B) = 0
  BY <1>4, FS_EmptySet
<1>10. Cardinality(A \cup B) = 2^m + 2^m - 0
  BY <1>5, <1>7, <1>8, <1>9
<1>11. \A x \in Nat : x + x - 0 = 2 * x
  OBVIOUS
<1>12. 2^(m + 1) = Cardinality(A \cup B)
  BY <1>3, <1>5
<1> QED
  BY <1>5, <1>10, <1>11, <1>12

\* Powers of two are positive and grow.
LEMMA PowerGrows ==
  ASSUME NEW m \in Nat
  PROVE  /\ 2^m \in Nat \ {0}
         /\ m # 0 => 2^m >= 2 /\ 2^m = 2 * 2^(m - 1) /\ 2^(m - 1) \in Nat \ {0}
<1>1. ASSUME NEW k \in Nat
      PROVE  2^k \in Nat \ {0}
  <2>1. {} \in SUBSET (1..k)
    OBVIOUS
  <2>2. Cardinality(SUBSET (1..k)) # 0
    BY <2>1, PowerIs, FS_EmptySet
  <2> QED
    BY <2>2, PowerIs
<1>2. ASSUME m # 0
      PROVE  2^m >= 2 /\ 2^m = 2 * 2^(m - 1) /\ 2^(m - 1) \in Nat \ {0}
  <2>1. m - 1 \in Nat /\ (m - 1) + 1 = m
    BY <1>2
  <2>2. 2^m = 2 * 2^(m - 1)
    BY <2>1, PowerNext
  <2>3. 2^(m - 1) \in Nat \ {0}
    BY <1>1, <2>1
  <2>4. \A x \in Nat \ {0} : 2 * x >= 2
    OBVIOUS
  <2> QED
    BY <2>2, <2>3, <2>4
<1> QED
  BY <1>1, <1>2

\* Division by a positive number.
LEMMA Halves ==
  ASSUME NEW n \in Nat, NEW d \in Nat \ {0}
  PROVE  /\ n \div d \in Nat /\ n \div d <= n
         /\ d >= 2 /\ n # 0 => n \div d < n
         /\ n \div 1 = n
OBVIOUS

\* A double holds an integer that is not too large.
LEMMA FloatIs ==
  ASSUME NEW n \in Int, Magnitude(n) <= 2^Precision
  PROVE  ToFloat(n) = n
<1> DEFINE M == Magnitude(n)
           top == 2^Precision
           Keeps(k) == M \div 2^k < top /\ (k > 0 => M \div 2^(k - 1) >= top)
           K == CHOOSE k \in 0..Width : Keeps(k)
           step == 2^K
           floor == M \div step
           twice == 2 * (M - floor * step)
           up == twice > step \/ (twice = step /\ floor % 2 = 1)
<1>1. M \in Nat /\ n = Sign(n) * M /\ M <= top /\ Sign(n) \in {-1, 1}
  BY DEF Magnitude, Sign
<1>2. /\ Precision \in Nat \ {0} /\ Width \in Nat \ {0}
      /\ top \in Nat \ {0} /\ top = 2 * 2^(Precision - 1)
      /\ 2^(Precision - 1) \in Nat \ {0}
  BY FormulaAssumption, PowerGrows
<1>3. 2^0 = 1 /\ 2^1 = 2
  <2>1. 2^(0 + 1) = 2 * 2^0
    BY PowerNext
  <2> QED
    BY <2>1, PowerZero
<1>4. \A k \in Nat : 2^k \in Nat \ {0} /\ (k # 0 => 2^k >= 2)
  BY PowerGrows
<1>5. ToFloat(n) = Sign(n) * step * (IF up THEN floor + 1 ELSE floor)
  BY DEF ToFloat
<1>6. ASSUME NEW j \in 0..Width, Keeps(j), \A k \in 0..Width : Keeps(k) => k = j
      PROVE  K = j
  BY <1>6
<1> HIDE DEF K, M, top, Keeps
<1>7. ASSUME step \in Nat \ {0}, M = floor * step, floor \in Nat
      PROVE  ToFloat(n) = n
  <2>1. twice = 0
    BY <1>1, <1>7
  <2>2. ~up
    BY <1>7, <2>1
  <2>3. ToFloat(n) = Sign(n) * step * floor
    BY <1>5, <2>2
  <2> HIDE DEF step, floor
  <2>4. \A a \in {-1, 1} : \A x, y \in Nat : a * x * y = a * (y * x)
    OBVIOUS
  <2> QED
    BY <1>1, <1>7, <2>3, <2>4
<1>8. CASE M < top
  <2>1. Keeps(0)
    BY <1>1, <1>3, <1>8, Halves DEF Keeps
  <2>2. ASSUME NEW k \in 0..Width, Keeps(k)
        PROVE  k = 0
    <3> SUFFICES ASSUME k # 0
                 PROVE  FALSE
      OBVIOUS
    <3>1. k - 1 \in Nat /\ k > 0
      BY <1>2
    <3>2. M \div 2^(k - 1) <= M /\ M \div 2^(k - 1) \in Nat
      BY <1>1, <1>4, <3>1, Halves
    <3>3. M \div 2^(k - 1) >= top
      BY <2>2, <3>1 DEF Keeps
    <3> QED
      BY <1>1, <1>2, <1>8, <3>2, <3>3
  <2>3. 0 \in 0..Width
    BY <1>2
  <2>4. K = 0
    BY <1>6, <2>1, <2>2, <2>3
  <2>5. step = 1 /\ floor = M
    BY <1>1, <1>3, <2>4, Halves
  <2> QED
    BY <1>1, <1>7, <2>5
<1>9. CASE M = top
  <2> DEFINE half == 2^(Precision - 1)
  <2>1. M = 2 * half /\ half \in Nat \ {0}
    BY <1>2, <1>9
  <2> HIDE DEF half
  <2>2. M \div 2 = half /\ M \div 1 = M /\ half < M
    BY <2>1
  <2>3. Keeps(1)
    BY <1>1, <1>3, <1>9, <2>1, <2>2 DEF Keeps
  <2>4. ASSUME NEW k \in 0..Width, Keeps(k)
        PROVE  k = 1
    <3>1. ASSUME k = 0
          PROVE  FALSE
      <4>1. M \div 2^0 < top
        BY <2>4, <3>1 DEF Keeps
      <4>2. M \div 2^0 = M
        BY <1>3, <2>2
      <4> QED
        BY <1>1, <1>2, <1>9, <4>1, <4>2
    <3>2. ASSUME k > 1
          PROVE  FALSE
      <4>1. k - 1 \in Nat /\ k - 1 # 0 /\ k > 0
        BY <1>2, <3>2
      <4>2. 2^(k - 1) >= 2 /\ 2^(k - 1) \in Nat \ {0}
        BY <1>4, <4>1
      <4>3. M \div 2^(k - 1) < M /\ M \div 2^(k - 1) \in Nat
        BY <1>1, <1>2, <1>9, <4>2, Halves
      <4>4. M \div 2^(k - 1) >= top
        BY <2>4, <4>1 DEF Keeps
      <4> QED
        BY <1>1, <1>9, <4>3, <4>4
    <3> QED
      BY <3>1, <3>2
  <2>5. 1 \in 0..Width
    BY <1>2
  <2>6. K = 1
    BY <1>6, <2>3, <2>4, <2>5
  <2>7. step = 2 /\ floor = half
    BY <1>3, <2>2, <2>6
  <2>8. M = half * 2
    BY <2>1
  <2> QED
    BY <1>7, <2>1, <2>7, <2>8
<1>10. M < top \/ M = top
  BY <1>1, <1>2
<1> QED
  BY <1>8, <1>9, <1>10
-----------------------------------------------------------------------------
(* The steps of the evaluation *)

KeepsOf(m, n) == IF m = "float" THEN ToFloat(n) ELSE n

OperandOf(v, n) == IF n <= Len(v) THEN v[Len(v) + 1 - n] ELSE 0

RefusedBy(m, token, v) ==
  \/ Len(v) < OperandsCount(token)
  \/ m = "float" /\ token.type \in OnIntegersOnly

Applied(m, token, v) ==
  Append(SubSeq(v, 1, Len(v) - OperandsCount(token)),
         KeepsOf(m, Apply(token.type, OperandOf(v, 1), OperandOf(v, 2), OperandOf(v, 3))))

EvaluationStep(m, c, d) ==
  /\ c[1] # <<>>
  /\ \/ /\ IsNumber(Head(c[1]))
        /\ d = <<Tail(c[1]), Append(c[2], KeepsOf(m, ValueOf(Head(c[1]))))>>
     \/ /\ ~IsNumber(Head(c[1])) /\ ~RefusedBy(m, Head(c[1]), c[2])
        /\ d = <<Tail(c[1]), Applied(m, Head(c[1]), c[2])>>

EvaluationClosed(m, S) == \A c \in S : \A d : EvaluationStep(m, c, d) => d \in S
Evaluates(m, c, d) == \A S : EvaluationClosed(m, S) /\ c \in S => d \in S

\* One way after another, and the way of a single step.
LEMMA EvaluatesOn ==
  ASSUME NEW m, NEW c, NEW d, NEW f, Evaluates(m, c, d), Evaluates(m, d, f)
  PROVE  Evaluates(m, c, f)
BY DEF Evaluates

LEMMA EvaluatesBy ==
  ASSUME NEW m, NEW c, NEW d, EvaluationStep(m, c, d)
  PROVE  Evaluates(m, c, d)
BY DEF Evaluates, EvaluationClosed

\* The steps are a function of the configuration: what leads to an end still leads
\* to it after a step, and where no step is possible the end is reached.
LEMMA EvaluationOne ==
  ASSUME NEW m, NEW c, NEW d, NEW f, EvaluationStep(m, c, d), EvaluationStep(m, c, f)
  PROVE  d = f
BY DEF EvaluationStep

LEMMA EvaluatesAfter ==
  ASSUME NEW m, NEW c, NEW d, NEW f, EvaluationStep(m, c, d), Evaluates(m, c, f), c # f
  PROVE  Evaluates(m, d, f)
<1> SUFFICES ASSUME NEW S, EvaluationClosed(m, S), d \in S
             PROVE  f \in S
  BY DEF Evaluates
<1>1. EvaluationClosed(m, S \cup {c})
  BY EvaluationOne DEF EvaluationClosed
<1> QED
  BY <1>1 DEF Evaluates

LEMMA EvaluatesStuck ==
  ASSUME NEW m, NEW c, NEW f, Evaluates(m, c, f), \A d : ~EvaluationStep(m, c, d)
  PROVE  c = f
<1>1. EvaluationClosed(m, {c})
  BY DEF EvaluationClosed
<1> QED
  BY <1>1 DEF Evaluates

\* The first token of a queue.
LEMMA HeadTail ==
  \A x \in Token, rest \in Seq(Token) :
    <<x>> \o rest # <<>> /\ Head(<<x>> \o rest) = x /\ Tail(<<x>> \o rest) = rest
<1> TAKE x \in Token, rest \in Seq(Token)
<1> DEFINE one == <<x>>
           all == one \o rest
<1>1. one \in Seq(Token) /\ Len(one) = 1 /\ one[1] = x
  OBVIOUS
<1>2. Len(rest) \in Nat
  OBVIOUS
<1> HIDE DEF one
<1>3. /\ all \in Seq(Token) /\ Len(all) = Len(rest) + 1 /\ all[1] = x
      /\ \A i \in 1..Len(rest) : all[i + 1] = rest[i]
  <2>1. /\ all \in Seq(Token) /\ Len(all) = Len(one) + Len(rest)
        /\ \A i \in 1..(Len(one) + Len(rest)) :
             all[i] = IF i <= Len(one) THEN one[i] ELSE rest[i - Len(one)]
    BY <1>1, ConcatProperties
  <2> HIDE DEF all
  <2>2. all[1] = x
    BY <1>1, <1>2, <2>1
  <2>3. ASSUME NEW i \in 1..Len(rest)
        PROVE  all[i + 1] = rest[i]
    <3>1. i + 1 \in 1..(Len(one) + Len(rest)) /\ ~(i + 1 <= Len(one))
          /\ (i + 1) - Len(one) = i
      BY <1>1, <1>2
    <3> QED
      BY <2>1, <3>1
  <2> QED
    BY <1>1, <1>2, <2>1, <2>2, <2>3
<1> HIDE DEF all
<1>4. all # <<>>
  BY <1>2, <1>3
<1>5. Head(all) = x
  BY <1>3, <1>4
<1>6. /\ Tail(all) \in Seq(Token) /\ Len(Tail(all)) = Len(rest)
      /\ \A i \in 1..Len(rest) : Tail(all)[i] = all[i + 1]
  BY <1>2, <1>3, <1>4, HeadTailProperties
<1>7. Tail(all) = rest
  BY <1>3, <1>6, SeqEqual
<1> QED
  BY <1>4, <1>5, <1>7 DEF all, one

\* The operands of an operator are the last values.
LEMMA OperandsAre ==
  ASSUME NEW v \in Seq(Int), NEW u \in Seq(Int)
  PROVE  /\ Len(v \o u) = Len(v) + Len(u) /\ Len(v) \in Nat /\ Len(u) \in Nat
         /\ SubSeq(v \o u, 1, Len(v)) = v
         /\ \A n \in 1..Len(u) : OperandOf(v \o u, n) = u[Len(u) + 1 - n]
<1> DEFINE all == v \o u
<1>1. /\ all \in Seq(Int) /\ Len(all) = Len(v) + Len(u)
      /\ Len(v) \in Nat /\ Len(u) \in Nat
      /\ \A i \in 1..Len(v) : all[i] = v[i]
      /\ \A i \in 1..Len(u) : all[Len(v) + i] = u[i]
  BY ConcatProperties
<1> HIDE DEF all
<1>2. SubSeq(all, 1, Len(v)) = v
  <2>1. /\ SubSeq(all, 1, Len(v)) \in Seq(Int)
        /\ Len(SubSeq(all, 1, Len(v))) = Len(v)
        /\ \A i \in 1..Len(v) : SubSeq(all, 1, Len(v))[i] = all[i]
    BY <1>1
  <2> QED
    BY <1>1, <2>1, SeqEqual
<1>3. ASSUME NEW n \in 1..Len(u)
      PROVE  OperandOf(all, n) = u[Len(u) + 1 - n]
  <2>1. /\ n <= Len(all) /\ Len(u) + 1 - n \in 1..Len(u)
        /\ Len(all) + 1 - n = Len(v) + (Len(u) + 1 - n)
    BY <1>1
  <2> QED
    BY <1>1, <2>1 DEF OperandOf
<1> QED
  BY <1>1, <1>2, <1>3 DEF all

\* Values pushed one after the other.
LEMMA Pushes ==
  \A v \in Seq(Int), a, b, c \in Int :
    /\ Append(v, a) \in Seq(Int) /\ Append(v, a) = v \o <<a>>
    /\ Append(Append(v, a), b) = v \o <<a, b>>
    /\ Append(Append(Append(v, a), b), c) = v \o <<a, b, c>>
<1> TAKE v \in Seq(Int), a, b, c \in Int
<1>1. \A s \in Seq(Int), x \in Int : Append(s, x) \in Seq(Int) /\ Append(s, x) = s \o <<x>>
  BY AppendIsConcat, AppendProperties
<1>2. \A k, l, m \in Seq(Int) : Regroups(k, l, m)
  BY Associative, Zenon
<1> DEFINE A == <<a>>
           B == <<b>>
           C == <<c>>
           AB == <<a, b>>
           ABC == <<a, b, c>>
<1>3. A \in Seq(Int) /\ B \in Seq(Int) /\ C \in Seq(Int) /\ AB \in Seq(Int)
  OBVIOUS
<1>4. AB = A \o B
  BY Pair
<1>5. ABC = Append(AB, c)
  OBVIOUS
<1>6. /\ Append(v, a) \in Seq(Int) /\ Append(v, a) = v \o A
      /\ \A s \in Seq(Int) : Append(s, b) = s \o B /\ Append(s, c) = s \o C
  BY <1>1
<1> HIDE DEF A, B, C, AB, ABC
<1>7. v \o AB \in Seq(Int)
  BY <1>3, ConcatProperties
<1>8. Append(Append(v, a), b) = v \o AB
  <2>1. v \o A \in Seq(Int)
    BY <1>6
  <2>2. Append(v \o A, b) = (v \o A) \o B
    BY <1>6, <2>1
  <2>3. Regroups(v, A, B)
    BY <1>2, <1>3, Zenon
  <2> QED
    BY <1>4, <1>6, <2>2, <2>3, Zenon DEF Regroups
<1>9. Append(Append(Append(v, a), b), c) = (v \o AB) \o C
  BY <1>6, <1>7, <1>8
<1>10. ABC = AB \o C
  BY <1>3, <1>5, <1>6
<1>11. (v \o AB) \o C = v \o ABC
  <2>1. Regroups(v, AB, C)
    BY <1>2, <1>3, Zenon
  <2> QED
    BY <1>10, <2>1, Zenon DEF Regroups
<1> QED
  BY <1>6, <1>8, <1>9, <1>11 DEF A, AB, ABC
-----------------------------------------------------------------------------
(* What the tokens of an expression push *)

\* Which operands the operators look at.
LEMMA ApplyIs ==
  /\ \A x, y, z : Apply("BITWISE_NOT", x, y, z) = -x - 1
  /\ \A x, y, z : Apply("TERNARY_COLON", x, y, z) = x
  /\ \A x, y, z :
       Apply("TERNARY_QUESTION_MARK", x, y, z) = IF z # 0 THEN y ELSE x
  /\ \A op \in Binary : \A x, y, z : Apply(op, x, y, z) = Apply(op, x, y, 0)
<1>1. \A x, y, z : Apply("BITWISE_NOT", x, y, z) = -x - 1
  BY DEF Apply
<1>2. \A x, y, z : Apply("TERNARY_COLON", x, y, z) = x
  BY DEF Apply
<1>3. \A x, y, z : Apply("TERNARY_QUESTION_MARK", x, y, z) = IF z # 0 THEN y ELSE x
  BY DEF Apply
<1>4. ASSUME NEW op \in Binary, NEW x, NEW y, NEW z
      PROVE  Apply(op, x, y, z) = Apply(op, x, y, 0)
  <2>1. op # "TERNARY_QUESTION_MARK"
    BY LevelsAre DEF Binary
  <2> QED
    BY <2>1 DEF Apply
<1> QED
  BY <1>1, <1>2, <1>3, <1>4

\* Tokens that push a value.
Valued(m, tokens, value) ==
  \A rest \in Seq(Token), v \in Seq(Int) :
    Evaluates(m, <<tokens \o rest, v>>, <<rest, Append(v, value)>>)

\* A number pushes its value.
LEMMA NumberValued ==
  ASSUME NEW m, NEW token \in Token, IsNumber(token)
  PROVE  Valued(m, <<token>>, KeepsOf(m, ValueOf(token)))
<1> SUFFICES ASSUME NEW rest \in Seq(Token), NEW v \in Seq(Int)
             PROVE  Evaluates(m, <<<<token>> \o rest, v>>,
                              <<rest, Append(v, KeepsOf(m, ValueOf(token)))>>)
  BY DEF Valued
<1> DEFINE q == <<token>> \o rest
           c == <<q, v>>
           d == <<rest, Append(v, KeepsOf(m, ValueOf(token)))>>
<1>1. q # <<>> /\ Head(q) = token /\ Tail(q) = rest
  BY HeadTail
<1> HIDE DEF q
<1>2. c[1] = q /\ c[2] = v
  OBVIOUS
<1>3. d = <<Tail(c[1]), Append(c[2], KeepsOf(m, ValueOf(Head(c[1]))))>>
  BY <1>1, <1>2
<1> HIDE DEF c, d
<1>4. EvaluationStep(m, c, d)
  BY <1>1, <1>2, <1>3 DEF EvaluationStep
<1>5. Evaluates(m, c, d)
  BY <1>4, EvaluatesBy
<1> QED
  BY <1>5 DEF c, d, q

\* An operator that finds its operands.
LEMMA OperatorApplied ==
  ASSUME NEW m, NEW op \in Operators, NEW v \in Seq(Int), NEW u \in Seq(Int),
         Len(u) = INFOS[op][3], ~(m = "float" /\ op \in OnIntegersOnly),
         NEW r, KeepsOf(m, r) = r,
         Apply(op, OperandOf(v \o u, 1), OperandOf(v \o u, 2), OperandOf(v \o u, 3)) = r,
         NEW rest \in Seq(Token)
  PROVE  Evaluates(m, <<<<Symbol(op)>> \o rest, v \o u>>, <<rest, Append(v, r)>>)
<1> DEFINE token == Symbol(op)
           q == <<token>> \o rest
           all == v \o u
           c == <<q, all>>
           d == <<rest, Append(v, r)>>
<1>1. token \in Token /\ token.type = op /\ OperandsCount(token) = Len(u)
  BY SymbolType, OpensTypes DEF Symbol, OperandsCount
<1>2. ~IsNumber(token)
  BY <1>1, TokenKinds DEF IsOperator
<1>3. q # <<>> /\ Head(q) = token /\ Tail(q) = rest
  BY <1>1, HeadTail
<1>4. /\ Len(all) = Len(v) + Len(u) /\ Len(v) \in Nat /\ Len(u) \in Nat
      /\ SubSeq(all, 1, Len(v)) = v
  BY OperandsAre
<1>5. Apply(op, OperandOf(all, 1), OperandOf(all, 2), OperandOf(all, 3)) = r
  OBVIOUS
<1> HIDE DEF q, all, token
<1>6. ~RefusedBy(m, token, all)
  BY <1>1, <1>4 DEF RefusedBy
<1>7. Len(all) - OperandsCount(token) = Len(v)
  <2>1. \A i, j \in Nat : (i + j) - j = i
    OBVIOUS
  <2>2. OperandsCount(token) = Len(u)
    BY <1>1
  <2> QED
    BY <1>4, <2>1, <2>2, Zenon
<1>8. Applied(m, token, all) = Append(v, r)
  BY <1>1, <1>4, <1>5, <1>7 DEF Applied
<1>9. c[1] = q /\ c[2] = all
  OBVIOUS
<1>10. d = <<Tail(c[1]), Applied(m, Head(c[1]), c[2])>>
  BY <1>3, <1>8, <1>9
<1> HIDE DEF c, d
<1>11. EvaluationStep(m, c, d)
  BY <1>2, <1>3, <1>6, <1>9, <1>10 DEF EvaluationStep
<1>12. Evaluates(m, c, d)
  BY <1>11, EvaluatesBy
<1> QED
  BY <1>12 DEF c, d, q, all, token

\* An operator takes the values its operands have pushed.
LEMMA UnaryValued ==
  ASSUME NEW m, NEW q \in Seq(Token), NEW a \in Int, Valued(m, q, a),
         NEW op \in Operators, INFOS[op][3] = 1,
         ~(m = "float" /\ op \in OnIntegersOnly),
         NEW r, KeepsOf(m, r) = r, \A y, z : Apply(op, a, y, z) = r
  PROVE  Valued(m, q \o <<Symbol(op)>>, r)
<1> SUFFICES ASSUME NEW rest \in Seq(Token), NEW v \in Seq(Int)
             PROVE  Evaluates(m, <<(q \o <<Symbol(op)>>) \o rest, v>>, <<rest, Append(v, r)>>)
  BY DEF Valued
<1> DEFINE one == <<Symbol(op)>>
           k == one \o rest
           u == <<a>>
<1>1. one \in Seq(Token)
  BY SymbolType, OpensTypes
<1>2. k \in Seq(Token)
  BY <1>1, ConcatProperties
<1>3. (q \o one) \o rest = q \o k
  <2> HIDE DEF one
  <2>1. Regroups(q, one, rest)
    BY <1>1, TokensRegroup, Zenon
  <2> QED
    BY <2>1, Zenon DEF Regroups, k
<1>4. u \in Seq(Int) /\ Len(u) = 1 /\ u[1] = a /\ Append(v, a) = v \o u
  <2>1. Append(v, a) = v \o u
    BY Pushes, Zenon
  <2>2. u \in Seq(Int) /\ Len(u) = 1 /\ u[1] = a
    OBVIOUS
  <2> QED
    BY <2>1, <2>2
<1> HIDE DEF one, u, k
<1>5. Evaluates(m, <<q \o k, v>>, <<k, v \o u>>)
  BY <1>2, <1>4, Zenon DEF Valued
<1>6. OperandOf(v \o u, 1) = a
  <2>1. 1 \in 1..Len(u) /\ Len(u) + 1 - 1 = 1
    BY <1>4
  <2> QED
    BY <1>4, <2>1, OperandsAre
<1>7. Evaluates(m, <<k, v \o u>>, <<rest, Append(v, r)>>)
  BY <1>4, <1>6, OperatorApplied DEF k, one
<1>8. Evaluates(m, <<q \o k, v>>, <<rest, Append(v, r)>>)
  BY <1>5, <1>7, EvaluatesOn
<1> QED
  BY <1>3, <1>8 DEF one

LEMMA BinaryValued ==
  ASSUME NEW m, NEW p \in Seq(Token), NEW a \in Int, Valued(m, p, a),
         NEW q \in Seq(Token), NEW b \in Int, Valued(m, q, b),
         NEW op \in Operators, INFOS[op][3] = 2,
         ~(m = "float" /\ op \in OnIntegersOnly),
         NEW r, KeepsOf(m, r) = r, \A z : Apply(op, b, a, z) = r
  PROVE  Valued(m, (p \o q) \o <<Symbol(op)>>, r)
<1> SUFFICES ASSUME NEW rest \in Seq(Token), NEW v \in Seq(Int)
             PROVE  Evaluates(m, <<((p \o q) \o <<Symbol(op)>>) \o rest, v>>,
                              <<rest, Append(v, r)>>)
  BY DEF Valued
<1> DEFINE one == <<Symbol(op)>>
           k == one \o rest
           w == Append(v, a)
           u == <<a, b>>
<1>1. one \in Seq(Token) /\ p \o q \in Seq(Token)
  BY SymbolType, OpensTypes, ConcatProperties
<1>2. k \in Seq(Token) /\ q \o k \in Seq(Token)
  BY <1>1, ConcatProperties
<1>3. ((p \o q) \o one) \o rest = p \o (q \o k)
  <2> DEFINE pq == p \o q
  <2>1. pq \in Seq(Token) /\ one \in Seq(Token) /\ k \in Seq(Token)
    BY <1>1, <1>2, Zenon
  <2> HIDE DEF pq, one, k
  <2>2. Regroups(pq, one, rest) /\ Regroups(p, q, k)
    BY <2>1, TokensRegroup, Zenon
  <2>3. (pq \o one) \o rest = pq \o k
    BY <2>2, Zenon DEF Regroups, k
  <2>4. pq \o k = p \o (q \o k)
    BY <2>2, Zenon DEF Regroups, pq
  <2>5. (pq \o one) \o rest = p \o (q \o k)
    BY <2>3, <2>4, Zenon
  <2> QED
    BY <2>5, Zenon DEF pq
<1>4. w \in Seq(Int) /\ Append(w, b) = v \o u
  BY Pushes
<1>5. u \in Seq(Int) /\ Len(u) = 2 /\ u[1] = a /\ u[2] = b
  OBVIOUS
<1> HIDE DEF one, u, k, w
<1>6. Evaluates(m, <<p \o (q \o k), v>>, <<q \o k, w>>)
  BY <1>2, Zenon DEF Valued, w
<1>7. Evaluates(m, <<q \o k, w>>, <<k, v \o u>>)
  BY <1>2, <1>4, Zenon DEF Valued
<1>8. OperandOf(v \o u, 1) = b /\ OperandOf(v \o u, 2) = a
  <2>1. /\ 1 \in 1..Len(u) /\ Len(u) + 1 - 1 = 2
        /\ 2 \in 1..Len(u) /\ Len(u) + 1 - 2 = 1
    BY <1>5
  <2> QED
    BY <1>5, <2>1, OperandsAre
<1>9. Evaluates(m, <<k, v \o u>>, <<rest, Append(v, r)>>)
  BY <1>5, <1>8, OperatorApplied DEF k, one
<1>10. Evaluates(m, <<p \o (q \o k), v>>, <<rest, Append(v, r)>>)
  BY <1>6, <1>7, <1>9, EvaluatesOn
<1> QED
  BY <1>3, <1>10 DEF one

LEMMA TernaryValued ==
  ASSUME NEW m, NEW p \in Seq(Token), NEW a \in Int, Valued(m, p, a),
         NEW q \in Seq(Token), NEW b \in Int, Valued(m, q, b),
         NEW s \in Seq(Token), NEW c \in Int, Valued(m, s, c),
         NEW op \in Operators, INFOS[op][3] = 3,
         ~(m = "float" /\ op \in OnIntegersOnly),
         NEW r, KeepsOf(m, r) = r, Apply(op, c, b, a) = r
  PROVE  Valued(m, ((p \o q) \o s) \o <<Symbol(op)>>, r)
<1> SUFFICES ASSUME NEW rest \in Seq(Token), NEW v \in Seq(Int)
             PROVE  Evaluates(m, <<(((p \o q) \o s) \o <<Symbol(op)>>) \o rest, v>>,
                              <<rest, Append(v, r)>>)
  BY DEF Valued
<1> DEFINE one == <<Symbol(op)>>
           k == one \o rest
           w == Append(v, a)
           x == Append(w, b)
           u == <<a, b, c>>
<1>1. one \in Seq(Token) /\ p \o q \in Seq(Token)
  BY SymbolType, OpensTypes, ConcatProperties
<1>2. /\ k \in Seq(Token) /\ s \o k \in Seq(Token) /\ q \o (s \o k) \in Seq(Token)
      /\ (p \o q) \o s \in Seq(Token)
  BY <1>1, ConcatProperties
<1>3. (((p \o q) \o s) \o one) \o rest = p \o (q \o (s \o k))
  <2> HIDE DEF one
  <2>1. Flattens(p, q, s, one, rest)
    BY <1>1, ConcatFive, Zenon
  <2> QED
    BY <2>1, Zenon DEF Flattens
<1>4. w \in Seq(Int) /\ x \in Seq(Int) /\ Append(x, c) = v \o u
  <2>1. w \in Seq(Int)
    BY Pushes, Zenon
  <2>2. Append(x, c) = v \o u
    BY Pushes, Zenon
  <2> HIDE DEF w
  <2>3. x \in Seq(Int)
    BY <2>1, Pushes, Zenon
  <2> QED
    BY <2>1, <2>2, <2>3
<1>5. u \in Seq(Int) /\ Len(u) = 3 /\ u[1] = a /\ u[2] = b /\ u[3] = c
  OBVIOUS
<1> HIDE DEF one, u, k, x
<1>6. Evaluates(m, <<p \o (q \o (s \o k)), v>>, <<q \o (s \o k), w>>)
  BY <1>2, Zenon DEF Valued, w
<1>7. Evaluates(m, <<q \o (s \o k), w>>, <<s \o k, x>>)
  BY <1>2, <1>4, Zenon DEF Valued, x
<1>8. Evaluates(m, <<s \o k, x>>, <<k, v \o u>>)
  BY <1>2, <1>4, Zenon DEF Valued
<1>9. /\ OperandOf(v \o u, 1) = c /\ OperandOf(v \o u, 2) = b
      /\ OperandOf(v \o u, 3) = a
  <2>1. /\ 1 \in 1..Len(u) /\ Len(u) + 1 - 1 = 3
        /\ 2 \in 1..Len(u) /\ Len(u) + 1 - 2 = 2
        /\ 3 \in 1..Len(u) /\ Len(u) + 1 - 3 = 1
    BY <1>5
  <2> QED
    BY <1>5, <2>1, OperandsAre
<1>10. Evaluates(m, <<k, v \o u>>, <<rest, Append(v, r)>>)
  BY <1>5, <1>9, OperatorApplied DEF k, one
<1>11. Evaluates(m, <<q \o (s \o k), w>>, <<rest, Append(v, r)>>)
  BY <1>7, <1>8, <1>10, EvaluatesOn
<1>12. Evaluates(m, <<p \o (q \o (s \o k)), v>>, <<rest, Append(v, r)>>)
  BY <1>6, <1>11, EvaluatesOn
<1> QED
  BY <1>3, <1>12 DEF one

\* On doubles, every step of the expression is a number they can hold.
Holds(m, e) ==
  m = "float" => Exact(e.values) /\ e.ops \cap OnIntegersOnly = {}

\* A value an evaluation holds goes through its type unchanged.
LEMMA MeaningKept ==
  ASSUME NEW m, NEW e, e.meaning \in Int, e.meaning \in e.values, Holds(m, e)
  PROVE  KeepsOf(m, e.meaning) = e.meaning
BY FloatIs DEF KeepsOf, Holds, Exact

\* What holds of an expression holds of its operands.
LEMMA HoldsBelow ==
  ASSUME NEW m, NEW op, NEW args, NEW level, NEW lexemes, NEW tokens, NEW meaning,
         Holds(m, Expression(op, args, level, lexemes, tokens, meaning))
  PROVE  /\ \A i \in DOMAIN args : Holds(m, args[i])
         /\ ~(m = "float" /\ op \in OnIntegersOnly)
         /\ meaning \in Int => KeepsOf(m, meaning) = meaning
<1> DEFINE e == Expression(op, args, level, lexemes, tokens, meaning)
<1>1. /\ e.meaning = meaning
      /\ e.ops = {op} \cup UNION {args[i].ops : i \in DOMAIN args}
      /\ e.values = {meaning} \cup UNION {args[i].values : i \in DOMAIN args}
  BY FieldsAre
<1>2. Holds(m, e)
  OBVIOUS
<1> HIDE DEF e
<1>3. /\ op \in e.ops /\ meaning \in e.values
      /\ \A i \in DOMAIN args :
           args[i].ops \subseteq e.ops /\ args[i].values \subseteq e.values
  BY <1>1
<1>4. ASSUME meaning \in Int
      PROVE  KeepsOf(m, meaning) = meaning
  BY <1>1, <1>2, <1>3, <1>4, MeaningKept
<1>5. \A i \in DOMAIN args : Holds(m, args[i])
  BY <1>2, <1>3 DEF Holds, Exact
<1>6. ~(m = "float" /\ op \in OnIntegersOnly)
  BY <1>2, <1>3 DEF Holds
<1> QED
  BY <1>4, <1>5, <1>6

\* The value of an expression is one of its values.
LEMMA ValuesHold ==
  /\ \A n : Number(n).meaning \in Number(n).values
  /\ \A n : Name(n).meaning \in Name(n).values
  /\ \A a : Complement(a).meaning \in Complement(a).values
  /\ \A op, a, b : Dyadic(op, a, b).meaning \in Dyadic(op, a, b).values
  /\ \A c, a, b : Choice(c, a, b).meaning \in Choice(c, a, b).values
<1>1. \A op, args, level, lexemes, tokens, meaning :
        Expression(op, args, level, lexemes, tokens, meaning).meaning
          \in Expression(op, args, level, lexemes, tokens, meaning).values
  BY FieldsAre
<1>2. \A n : Number(n).meaning \in Number(n).values
  BY <1>1 DEF Number
<1>3. \A n : Name(n).meaning \in Name(n).values
  BY <1>1 DEF Name
<1>4. \A a : Complement(a).meaning \in Complement(a).values
  BY <1>1 DEF Complement
<1>5. \A op, a, b : Dyadic(op, a, b).meaning \in Dyadic(op, a, b).values
  BY <1>1 DEF Dyadic
<1>6. \A c, a, b : Choice(c, a, b).meaning \in Choice(c, a, b).values
  BY <1>1 DEF Choice
<1> QED
  BY <1>2, <1>3, <1>4, <1>5, <1>6

\* The tokens of a tree push its value.
TreeValued(m, e) == Holds(m, e) => Valued(m, e.queue, e.meaning)

\* The constructors one by one.
LEMMA TreeNumberValued ==
  ASSUME NEW m, NEW n \in Int
  PROVE  TreeValued(m, Number(n))
<1> DEFINE e == Number(n)
           token == [type |-> "INT64", value |-> n]
<1> SUFFICES ASSUME Holds(m, e)
             PROVE  Valued(m, e.queue, e.meaning)
  BY DEF TreeValued
<1>1. e.queue = <<token>> /\ e.meaning = n
  BY FieldsAre DEF Number
<1>2. KeepsOf(m, n) = n
  BY HoldsBelow DEF Number
<1>3. token \in Token /\ IsNumber(token) /\ ValueOf(token) = n
  BY DEF Token, IsNumber, Numbers, ValueOf
<1> HIDE DEF e, token
<1>4. Valued(m, <<token>>, KeepsOf(m, ValueOf(token)))
  BY <1>3, NumberValued
<1> QED
  BY <1>1, <1>2, <1>3, <1>4

LEMMA TreeNameValued ==
  ASSUME NEW m, NEW n \in DOMAIN Variables, n \in Int, Variables[n] \in Int
  PROVE  TreeValued(m, Name(n))
<1> DEFINE e == Name(n)
           token == [type |-> "VARIABLE", value |-> n]
<1> SUFFICES ASSUME Holds(m, e)
             PROVE  Valued(m, e.queue, e.meaning)
  BY DEF TreeValued
<1>1. e.queue = <<token>> /\ e.meaning = Variables[n]
  BY FieldsAre DEF Name
<1>2. KeepsOf(m, Variables[n]) = Variables[n]
  BY HoldsBelow DEF Name
<1>3. token \in Token /\ IsNumber(token) /\ ValueOf(token) = Variables[n]
  BY DEF Token, IsNumber, Numbers, ValueOf
<1> HIDE DEF e, token
<1>4. Valued(m, <<token>>, KeepsOf(m, ValueOf(token)))
  BY <1>3, NumberValued
<1> QED
  BY <1>1, <1>2, <1>3, <1>4

LEMMA TreeComplementValued ==
  ASSUME NEW m, NEW a, a.queue \in Seq(Token), a.meaning \in Int,
         Complement(a).meaning \in Int, TreeValued(m, a)
  PROVE  TreeValued(m, Complement(a))
<1> DEFINE e == Complement(a)
<1> SUFFICES ASSUME Holds(m, e)
             PROVE  Valued(m, e.queue, e.meaning)
  BY DEF TreeValued
<1>1. /\ e.queue = a.queue \o <<Symbol("BITWISE_NOT")>>
      /\ e.meaning = Apply("BITWISE_NOT", a.meaning, 0, 0)
  BY DEF Complement, Expression
<1>2. /\ \A i \in DOMAIN <<a>> : Holds(m, <<a>>[i])
      /\ ~(m = "float" /\ "BITWISE_NOT" \in OnIntegersOnly)
      /\ Apply("BITWISE_NOT", a.meaning, 0, 0) \in Int =>
           KeepsOf(m, Apply("BITWISE_NOT", a.meaning, 0, 0))
             = Apply("BITWISE_NOT", a.meaning, 0, 0)
  BY HoldsBelow DEF Complement
<1>3. Holds(m, a)
  <2>1. 1 \in DOMAIN <<a>> /\ <<a>>[1] = a
    OBVIOUS
  <2> QED
    BY <1>2, <2>1
<1> HIDE DEF e
<1>4. KeepsOf(m, e.meaning) = e.meaning
  BY <1>1, <1>2 DEF e
<1>5. \A y, z : Apply("BITWISE_NOT", a.meaning, y, z) = e.meaning
  BY <1>1, ApplyIs
<1>6. "BITWISE_NOT" \in Operators /\ INFOS["BITWISE_NOT"][3] = 1
  BY InfosAre
<1>7. Valued(m, a.queue, a.meaning)
  BY <1>3 DEF TreeValued
<1> QED
  BY <1>1, <1>2, <1>4, <1>5, <1>6, <1>7, UnaryValued

LEMMA TreeDyadicValued ==
  ASSUME NEW m, NEW op \in Binary, NEW a, a.queue \in Seq(Token), a.meaning \in Int,
         NEW b, b.queue \in Seq(Token), b.meaning \in Int,
         Dyadic(op, a, b).meaning \in Int, TreeValued(m, a), TreeValued(m, b)
  PROVE  TreeValued(m, Dyadic(op, a, b))
<1> DEFINE e == Dyadic(op, a, b)
           r == Apply(op, b.meaning, a.meaning, 0)
           args == <<a, b>>
<1> SUFFICES ASSUME Holds(m, e)
             PROVE  Valued(m, e.queue, e.meaning)
  BY DEF TreeValued
<1>1. e.queue = (a.queue \o b.queue) \o <<Symbol(op)>> /\ e.meaning = r
  BY DEF Dyadic, Expression
<1>2. \E level, lexemes, tokens : e = Expression(op, args, level, lexemes, tokens, r)
  BY DEF Dyadic
<1>3. r \in Int
  BY <1>1
<1> HIDE DEF e, r
<1>4. /\ \A i \in DOMAIN args : Holds(m, args[i])
      /\ ~(m = "float" /\ op \in OnIntegersOnly)
      /\ KeepsOf(m, r) = r
  <2> HIDE DEF args
  <2> QED
    BY <1>2, <1>3, HoldsBelow
<1>5. Holds(m, a) /\ Holds(m, b)
  <2>1. 1 \in DOMAIN args /\ args[1] = a /\ 2 \in DOMAIN args /\ args[2] = b
    OBVIOUS
  <2> HIDE DEF args
  <2> QED
    BY <1>4, <2>1
<1>6. \A z : Apply(op, b.meaning, a.meaning, z) = r
  BY ApplyIs DEF r
<1>7. op \in Operators /\ INFOS[op][3] = 2
  <2>1. op \in Levels[LevelOf(op)] /\ LevelOf(op) \in 1..11
    BY BinaryIs
  <2> QED
    BY <2>1, InfosAre
<1>8. Valued(m, a.queue, a.meaning) /\ Valued(m, b.queue, b.meaning)
  BY <1>5 DEF TreeValued
<1>9. Valued(m, (a.queue \o b.queue) \o <<Symbol(op)>>, r)
  BY <1>4, <1>6, <1>7, <1>8, BinaryValued
<1> QED
  BY <1>1, <1>9, Zenon

LEMMA TreeChoiceValued ==
  ASSUME NEW m, NEW c, c.queue \in Seq(Token), c.meaning \in Int,
         NEW a, a.queue \in Seq(Token), a.meaning \in Int,
         NEW b, b.queue \in Seq(Token), b.meaning \in Int, b.meaning \in b.values,
         TreeValued(m, c), TreeValued(m, a), TreeValued(m, b)
  PROVE  TreeValued(m, Choice(c, a, b))
<1> DEFINE e == Choice(c, a, b)
           op == "TERNARY_QUESTION_MARK"
           r == IF c.meaning # 0 THEN a.meaning ELSE b.meaning
           args == <<c, a, b>>
           question == Symbol("TERNARY_QUESTION_MARK")
           colon == Symbol("TERNARY_COLON")
<1> SUFFICES ASSUME Holds(m, e)
             PROVE  Valued(m, e.queue, e.meaning)
  BY DEF TreeValued
<1>1. /\ e.queue = ((c.queue \o a.queue) \o b.queue) \o <<colon, question>>
      /\ e.meaning = r
  BY DEF Choice, Expression
<1>2. \E level, lexemes, tokens : e = Expression(op, args, level, lexemes, tokens, r)
  BY DEF Choice
<1>3. r \in Int
  OBVIOUS
<1>a. /\ \A x, y, z : Apply("TERNARY_COLON", x, y, z) = x
      /\ Apply("TERNARY_QUESTION_MARK", b.meaning, a.meaning, c.meaning) = r
  BY ApplyIs
<1> HIDE DEF e, r
<1>4. /\ \A i \in DOMAIN args : Holds(m, args[i])
      /\ KeepsOf(m, r) = r
  <2> HIDE DEF args
  <2> QED
    BY <1>2, <1>3, HoldsBelow
<1>5. Holds(m, a) /\ Holds(m, b) /\ Holds(m, c)
  <2>1. /\ 1 \in DOMAIN args /\ args[1] = c /\ 2 \in DOMAIN args /\ args[2] = a
        /\ 3 \in DOMAIN args /\ args[3] = b
    OBVIOUS
  <2> HIDE DEF args
  <2> QED
    BY <1>4, <2>1
<1>6. KeepsOf(m, b.meaning) = b.meaning
  BY <1>5, MeaningKept
<1>7. /\ Valued(m, a.queue, a.meaning) /\ Valued(m, b.queue, b.meaning)
      /\ Valued(m, c.queue, c.meaning)
  BY <1>5 DEF TreeValued
<1>8. /\ "TERNARY_QUESTION_MARK" \in Operators /\ INFOS["TERNARY_QUESTION_MARK"][3] = 3
      /\ "TERNARY_COLON" \in Operators /\ INFOS["TERNARY_COLON"][3] = 1
      /\ "TERNARY_QUESTION_MARK" \notin OnIntegersOnly
      /\ "TERNARY_COLON" \notin OnIntegersOnly
  BY InfosAre DEF OnIntegersOnly
<1>9. colon \in Token /\ question \in Token
  BY ChoiceSymbols
<1> DEFINE s == b.queue \o <<colon>>
<1>10. s \in Seq(Token)
  <2>1. <<colon>> \in Seq(Token)
    BY <1>9
  <2> QED
    BY <2>1, ConcatProperties
<1>11. Valued(m, s, b.meaning)
  BY <1>6, <1>7, <1>8, <1>a, UnaryValued
<1> HIDE DEF s
<1>12. Valued(m, ((c.queue \o a.queue) \o s) \o <<question>>, r)
  BY <1>3, <1>4, <1>7, <1>8, <1>10, <1>11, <1>a, TernaryValued
<1>13. ((c.queue \o a.queue) \o s) \o <<question>>
         = ((c.queue \o a.queue) \o b.queue) \o <<colon, question>>
  <2> DEFINE q == c.queue \o a.queue
             one == <<colon>>
             two == <<question>>
  <2>1. q \in Seq(Token)
    BY ConcatProperties
  <2>2. one \in Seq(Token) /\ two \in Seq(Token)
    BY <1>9
  <2>3. <<colon, question>> = one \o two
    BY <1>9, Pair
  <2> HIDE DEF q, one, two
  <2> DEFINE t == b.queue
             qt == q \o t
  <2>4. t \in Seq(Token)
    OBVIOUS
  <2> HIDE DEF t
  <2>5. qt \in Seq(Token)
    BY <2>1, <2>4, TokensJoin, Zenon
  <2> HIDE DEF qt
  <2>6. Regroups(q, t, one) /\ Regroups(qt, one, two)
    BY <2>1, <2>2, <2>4, <2>5, TokensRegroup, Zenon
  <2>7. qt \o one = q \o (t \o one)
    BY <2>6, Zenon DEF Regroups, qt
  <2>8. (qt \o one) \o two = qt \o (one \o two)
    BY <2>6, Zenon DEF Regroups
  <2>9. (q \o (t \o one)) \o two = qt \o (one \o two)
    BY <2>7, <2>8, Zenon
  <2> QED
    BY <2>3, <2>9, Zenon DEF q, qt, t, one, two, s
<1> QED
  BY <1>1, <1>12, <1>13, Zenon

\* The evaluation values every tree.
LEMMA AllValued == \A m : \A e \in Trees : TreeValued(m, e)
<1> SUFFICES ASSUME NEW m
             PROVE  \A e \in Trees : TreeValued(m, e)
  OBVIOUS
<1> DEFINE B == {e \in Trees : ~TreeValued(m, e)}
<1> SUFFICES ASSUME B # {}
             PROVE  FALSE
  OBVIOUS
<1>1. PICK e \in B : \A a \in B : ~Shorter(a, e)
  <2>1. B \subseteq Trees
    OBVIOUS
  <2> HIDE DEF B
  <2> QED
    BY <2>1, SmallestTree
<1>2. \A a \in Trees : Shorter(a, e) => TreeValued(m, a)
  BY <1>1
<1>3. e \in Trees /\ ~TreeValued(m, e)
  OBVIOUS
<1>4. Made(e) /\ e.meaning \in Int
  BY <1>3, TreesMade
<1>5. \A a \in Trees : a.queue \in Seq(Token) /\ a.meaning \in Int /\ a.meaning \in a.values
  <2> TAKE a \in Trees
  <2>1. a.queue \in Seq(Token) /\ a.meaning \in Int
    BY AllUnderstood, TreesMade DEF Understood
  <2>2. Made(a)
    BY TreesMade
  <2>3. a.meaning \in a.values
    BY <2>2, ValuesHold, Zenon DEF Made
  <2> QED
    BY <2>1, <2>3
<1>6. TreeValued(m, e)
  <2>1. CASE e.meaning \in Int /\ e = Number(e.meaning)
    BY <2>1, TreeNumberValued
  <2>2. CASE \E n \in DOMAIN Variables : n \in Int /\ Variables[n] \in Int /\ e = Name(n)
    BY <2>2, TreeNameValued
  <2>3. CASE \E a \in Trees : e = Complement(a) /\ Shorter(a, e)
    BY <1>2, <1>4, <1>5, <2>3, TreeComplementValued
  <2>4. CASE \E op \in Binary : \E a \in Trees : \E b \in Trees :
               e = Dyadic(op, a, b) /\ Shorter(a, e) /\ Shorter(b, e)
    BY <1>2, <1>4, <1>5, <2>4, TreeDyadicValued
  <2>5. CASE \E c \in Trees : \E a \in Trees : \E b \in Trees :
               e = Choice(c, a, b) /\ Shorter(c, e) /\ Shorter(a, e) /\ Shorter(b, e)
    BY <1>2, <1>5, <2>5, TreeChoiceValued
  <2> QED
    BY <1>4, <2>1, <2>2, <2>3, <2>4, <2>5 DEF Made
<1> QED
  BY <1>3, <1>6
-----------------------------------------------------------------------------
(* The evaluation of a tree *)

\* From where the evaluation stands, it ends with the value of the expression.
Outstanding ==
  Evaluates(mode, <<queue, values>>, <<<<>>, <<tree.meaning>>>>)

TreeEvaluated ==
  tree # NoTree =>
    /\ pc = "read" => values = <<>>
    /\ Holds(mode, tree) /\ pc = "evaluate" => Outstanding
    /\ Holds(mode, tree) /\ pc = "done" /\ Exact({tree.meaning}) => result = tree.meaning

EvaluationInv == ReadInv /\ TreeEvaluated

\* Where the evaluation of the tokens of a tree starts, its value is outstanding.
LEMMA OutstandingFirst ==
  ASSUME tree \in Trees, Holds(mode, tree)
  PROVE  Evaluates(mode, <<tree.queue, <<>>>>, <<<<>>, <<tree.meaning>>>>)
<1>1. TreeValued(mode, tree)
  BY AllValued
<1>2. Valued(mode, tree.queue, tree.meaning)
  BY <1>1 DEF TreeValued
<1>3. tree.queue \in Seq(Token) /\ tree.meaning \in Int
  BY AllUnderstood, TreesMade DEF Understood
<1> DEFINE t == <<>>
           v == <<>>
<1>4. t \in Seq(Token) /\ v \in Seq(Int)
  OBVIOUS
<1>5. tree.queue \o t = tree.queue
  BY <1>3, ConcatEmptySeq
<1>6. Append(v, tree.meaning) = <<tree.meaning>>
  OBVIOUS
<1>7. \A r \in Seq(Token), w \in Seq(Int) :
        Evaluates(mode, <<tree.queue \o r, w>>, <<r, Append(w, tree.meaning)>>)
  BY <1>2, Zenon DEF Valued
<1> HIDE DEF t, v
<1>8. Evaluates(mode, <<tree.queue \o t, v>>, <<t, Append(v, tree.meaning)>>)
  BY <1>4, <1>7, Zenon
<1>9. Evaluates(mode, <<tree.queue, v>>, <<t, <<tree.meaning>>>>)
  BY <1>5, <1>6, <1>8, Zenon
<1> QED
  BY <1>9 DEF t, v

\* The actions are the steps.
LEMMA EvaluatesStep ==
  ASSUME EvaluateNumber \/ EvaluateOperator
  PROVE  /\ EvaluationStep(mode, <<queue, values>>, <<queue', values'>>)
         /\ queue # <<>> /\ mode' = mode /\ pc' = pc /\ pc = "evaluate"
<1> DEFINE c == <<queue, values>>
           d == <<queue', values'>>
<1>1. c[1] = queue /\ c[2] = values
  OBVIOUS
<1>2. CASE EvaluateNumber
  <2>1. /\ queue # <<>> /\ IsNumber(Head(queue)) /\ mode' = mode /\ pc' = pc
        /\ pc = "evaluate"
        /\ values' = Append(values, KeepsOf(mode, ValueOf(Head(queue))))
        /\ queue' = Tail(queue)
    BY <1>2 DEF EvaluateNumber, Kind, KeepsOf
  <2>2. d = <<Tail(c[1]), Append(c[2], KeepsOf(mode, ValueOf(Head(c[1]))))>>
    BY <1>1, <2>1
  <2> HIDE DEF c, d
  <2>3. EvaluationStep(mode, c, d)
    BY <1>1, <2>1, <2>2 DEF EvaluationStep
  <2> QED
    BY <2>1, <2>3 DEF c, d
<1>3. CASE EvaluateOperator
  <2>1. /\ queue # <<>> /\ ~IsNumber(Head(queue)) /\ mode' = mode /\ pc' = pc
        /\ pc = "evaluate" /\ ~RefusedBy(mode, Head(queue), values)
        /\ queue' = Tail(queue)
    BY <1>3 DEF EvaluateOperator, Refused, RefusedBy
  <2>2. values' = Applied(mode, Head(queue), values)
    BY <1>3 DEF EvaluateOperator, Applied, Operand, OperandOf, Kind, KeepsOf
  <2>3. d = <<Tail(c[1]), Applied(mode, Head(c[1]), c[2])>>
    BY <1>1, <2>1, <2>2
  <2> HIDE DEF c, d
  <2>4. EvaluationStep(mode, c, d)
    BY <1>1, <2>1, <2>3 DEF EvaluationStep
  <2> QED
    BY <2>1, <2>4 DEF c, d
<1> QED
  BY <1>2, <1>3

\* A step leaves it outstanding.
LEMMA OutstandingNext ==
  ASSUME Outstanding, EvaluateNumber \/ EvaluateOperator, tree' = tree
  PROVE  Outstanding'
<1>1. /\ EvaluationStep(mode, <<queue, values>>, <<queue', values'>>)
      /\ queue # <<>> /\ mode' = mode
  BY EvaluatesStep
<1> DEFINE c == <<queue, values>>
           d == <<queue', values'>>
           f == <<<<>>, <<tree.meaning>>>>
<1>2. EvaluationStep(mode, c, d) /\ Evaluates(mode, c, f) /\ c # f
  BY <1>1 DEF Outstanding
<1> HIDE DEF c, d, f
<1>3. Evaluates(mode, d, f)
  BY <1>2, EvaluatesAfter
<1>4. Evaluates(mode', <<queue', values'>>, <<<<>>, <<tree'.meaning>>>>)
  BY <1>1, <1>3 DEF d, f
<1> QED
  BY <1>4 DEF Outstanding

\* Where no step is possible, the value is there.
LEMMA OutstandingStuck ==
  ASSUME Outstanding, \A d : ~EvaluationStep(mode, <<queue, values>>, d)
  PROVE  queue = <<>> /\ values = <<tree.meaning>>
<1> DEFINE c == <<queue, values>>
           f == <<<<>>, <<tree.meaning>>>>
<1>1. c = f
  <2> HIDE DEF c, f
  <2> QED
    BY EvaluatesStuck DEF Outstanding, c, f
<1> QED
  BY <1>1

\* An operator of a tree finds its operands.
LEMMA NothingBroken ==
  ASSUME Outstanding, Break
  PROVE  FALSE
<1> DEFINE c == <<queue, values>>
<1>1. c[1] = queue /\ c[2] = values
  OBVIOUS
<1>2. /\ queue # <<>> /\ ~IsNumber(Head(queue))
      /\ RefusedBy(mode, Head(queue), values)
  BY DEF Break, Refused, RefusedBy
<1> HIDE DEF c
<1>3. \A d : ~EvaluationStep(mode, c, d)
  BY <1>1, <1>2 DEF EvaluationStep
<1>4. queue = <<>>
  BY <1>3, OutstandingStuck DEF c
<1> QED
  BY <1>2, <1>4

\* What the evaluation ends with goes through a double.
LEMMA FinishYields ==
  ASSUME Outstanding, Finish, tree.meaning \in Int, Exact({tree.meaning})
  PROVE  result' = tree.meaning
<1> DEFINE c == <<queue, values>>
<1>1. c[1] = <<>>
  BY DEF Finish
<1> HIDE DEF c
<1>2. \A d : ~EvaluationStep(mode, c, d)
  BY <1>1 DEF EvaluationStep
<1>3. values = <<tree.meaning>>
  BY <1>2, OutstandingStuck DEF c
<1>4. result' = ToFloat(tree.meaning)
  BY <1>3 DEF Finish, Result
<1>5. Magnitude(tree.meaning) <= 2^Precision
  BY DEF Exact
<1> QED
  BY <1>4, <1>5, FloatIs

\* Every step of the model preserves the invariant.
LEMMA EvaluationInvNext ==
  EvaluationInv /\ [Next /\ UNCHANGED tree]_<<vars, tree>> => EvaluationInv'
<1> SUFFICES ASSUME EvaluationInv, [Next /\ UNCHANGED tree]_<<vars, tree>>
             PROVE  EvaluationInv'
  OBVIOUS
<1>1. ReadInv' /\ ReadInv /\ tree' = tree
  BY ReadInvNext DEF EvaluationInv
<1>2. ASSUME tree # NoTree
      PROVE  TreeEvaluated'
  <2>1. /\ tree \in Trees /\ tree.meaning \in Int
        /\ pc \in {"read", "evaluate", "done"}
        /\ pc = "read" => Ahead
        /\ ParserInv
    BY <1>1, <1>2, TreesMade DEF ReadInv, TreeRead
  <2>2. /\ pc = "read" => values = <<>>
        /\ Holds(mode, tree) /\ pc = "evaluate" => Outstanding
        /\ Holds(mode, tree) /\ pc = "done" /\ Exact({tree.meaning})
             => result = tree.meaning
    BY <1>2 DEF EvaluationInv, TreeEvaluated
  <2>3. CASE ReadNumber \/ ReadOperator \/ ReadLeft \/ ReadRight \/ ReadNothing
    <3>1. pc = "read" /\ pc' = "read"
      BY <1>1, <2>3, ReadsHandle DEF ReadInv
    <3>2. values' = values
      BY <2>3 DEF ReadNumber, ReadOperator, ReadLeft, ReadRight, ReadNothing, evaluation
    <3> QED
      BY <2>2, <3>1, <3>2 DEF TreeEvaluated
  <2>4. CASE ReadUnopened
    BY <2>1, <2>4, NothingUnopened DEF ReadUnopened, Reading
  <2>5. CASE ReadThrows
    BY <2>1, <2>5, NothingThrown DEF ReadThrows
  <2>6. CASE Flush
    <3>1. /\ pc = "read" /\ pc' = "evaluate" /\ queue' = output' /\ values' = values
          /\ mode' = mode
      BY <2>1, <2>6 DEF Flush
    <3>2. queue' = tree.queue /\ values' = <<>>
      BY <2>1, <2>2, <2>6, <3>1, FlushYields
    <3>3. Holds(mode, tree) => Outstanding'
      BY <1>1, <2>1, <3>1, <3>2, OutstandingFirst DEF Outstanding
    <3> QED
      BY <1>1, <3>1, <3>3 DEF TreeEvaluated
  <2>7. CASE EvaluateNumber \/ EvaluateOperator
    <3>1. mode' = mode /\ pc = "evaluate" /\ pc' = "evaluate"
      BY <2>7, EvaluatesStep
    <3>2. Holds(mode, tree) => Outstanding'
      BY <1>1, <2>2, <2>7, <3>1, OutstandingNext
    <3> QED
      BY <1>1, <3>1, <3>2 DEF TreeEvaluated
  <2>8. CASE Break
    <3>1. mode' = mode /\ pc = "evaluate" /\ pc' = "done"
      BY <2>8 DEF Break
    <3>2. ~Holds(mode, tree)
      BY <2>2, <2>8, <3>1, NothingBroken
    <3> QED
      BY <1>1, <3>1, <3>2 DEF TreeEvaluated
  <2>9. CASE Finish
    <3>1. mode' = mode /\ pc = "evaluate" /\ pc' = "done"
      BY <2>9 DEF Finish
    <3>2. Holds(mode, tree) /\ Exact({tree.meaning}) => result' = tree.meaning
      BY <2>1, <2>2, <2>9, <3>1, FinishYields
    <3> QED
      BY <1>1, <3>1, <3>2 DEF TreeEvaluated
  <2>10. CASE UNCHANGED vars
    <3>1. /\ pc' = pc /\ values' = values /\ queue' = queue /\ mode' = mode
          /\ result' = result
      BY <2>10 DEF vars, evaluation
    <3> QED
      BY <1>1, <2>2, <3>1 DEF TreeEvaluated, Outstanding
  <2> QED
    BY <2>3, <2>4, <2>5, <2>6, <2>7, <2>8, <2>9, <2>10 DEF Next
<1>3. ASSUME tree = NoTree
      PROVE  TreeEvaluated'
  BY <1>1, <1>3 DEF TreeEvaluated
<1> QED
  BY <1>1, <1>2, <1>3 DEF EvaluationInv

\* The invariant holds where the reading starts.
LEMMA EvaluationInvInit == ReferenceInit => EvaluationInv
<1> SUFFICES ASSUME ReferenceInit
             PROVE  EvaluationInv
  OBVIOUS
<1>1. pc = "read" /\ values = <<>>
  BY DEF ReferenceInit, Init
<1> QED
  BY <1>1, ReadInvInit DEF EvaluationInv, TreeEvaluated

\* Whatever expression the text stands for, and whatever parentheses it does
\* without, the constructor of formula.cpp leaves its tokens in postfix order.
THEOREM Understanding == ReferenceSpec => []QueueIsExpression
<1>1. ReadInv => QueueIsExpression
  BY DEF ReadInv, TreeRead, QueueIsExpression
<1> QED
  BY <1>1, ReadInvInit, ReadInvNext, PTL DEF ReferenceSpec

\* Whatever expression the text stands for, evaluateAsInteger and evaluateAsFloat
\* yield its value where it can be computed.
THEOREM Evaluation == ReferenceSpec => []ResultIsValue
<1>1. EvaluationInv => ResultIsValue
  <2> SUFFICES ASSUME EvaluationInv, tree # NoTree, pc = "done", Computable
               PROVE  result = tree.meaning
    BY DEF ResultIsValue
  <2>1. tree \in Trees
    BY DEF EvaluationInv, ReadInv, TreeRead
  <2>2. tree.meaning \in tree.values
    BY <2>1, TreesMade, ValuesHold DEF Made
  <2>3. Holds(mode, tree) /\ Exact({tree.meaning})
    BY <2>2 DEF Holds, Exact, Computable
  <2> QED
    BY <2>3 DEF EvaluationInv, TreeEvaluated
<1> QED
  BY <1>1, EvaluationInvInit, EvaluationInvNext, PTL DEF ReferenceSpec
=============================================================================
