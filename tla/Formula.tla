------------------------------- MODULE Formula -------------------------------
(***************************************************************************)
(* The formulas of a GenICam description (src/genicam/formula.cpp and      *)
(* token.cpp): the constructor turns the text into a queue of tokens in    *)
(* postfix order, with a stack for the operators that wait for their right *)
(* operand, and evaluateAsInteger or evaluateAsFloat run that queue on a   *)
(* stack of values.                                                        *)
(*                                                                         *)
(* The text is a sequence of lexemes: a number, a name, a blank, a minus   *)
(* sign, or any other operator, which has only one reading.  Doubles are   *)
(* the integers among them; logarithms and quotients that are not integers *)
(* are left out.                                                           *)
(***************************************************************************)
EXTENDS Integers, Sequences, FiniteSetsExt

CONSTANTS
  Variables,    \* what the names stand for, by their number
  Width,        \* the bits of an integer, 64
  Precision     \* the bits of a double's mantissa, 53

\* token.cpp: precedence, associativity and number of operands.
INFOS == [
  LEFT_BRACKET             |-> <<-1, "left", 0>>,
  RIGHT_BRACKET            |-> <<990, "left", 0>>,
  ADDITION                 |-> <<100, "left", 2>>,
  SUBSTRACTION             |-> <<100, "left", 2>>,
  MULTIPLICATION           |-> <<110, "left", 2>>,
  DIVISION                 |-> <<110, "left", 2>>,
  REMAINDER                |-> <<110, "left", 2>>,
  POWER                    |-> <<120, "right", 2>>,
  BITWISE_AND              |-> <<60, "left", 2>>,
  BITWISE_OR               |-> <<40, "left", 2>>,
  BITWISE_XOR              |-> <<50, "left", 2>>,
  BITWISE_NOT              |-> <<30, "left", 1>>,
  LOGICAL_NOT_EQUAL        |-> <<70, "left", 2>>,
  LOGICAL_EQUAL            |-> <<70, "left", 2>>,
  LOGICAL_GREATER          |-> <<80, "left", 2>>,
  LOGICAL_LESS             |-> <<80, "left", 2>>,
  LOGICAL_LESS_OR_EQUAL    |-> <<80, "left", 2>>,
  LOGICAL_GREATER_OR_EQUAL |-> <<80, "left", 2>>,
  LOGICAL_AND              |-> <<20, "left", 2>>,
  LOGICAL_OR               |-> <<10, "left", 2>>,
  SHIFT_LEFT               |-> <<90, "left", 2>>,
  SHIFT_RIGHT              |-> <<90, "left", 2>>,
  TERNARY_QUESTION_MARK    |-> <<5, "right", 3>>,
  TERNARY_COLON            |-> <<5, "right", 1>>,
  LG                       |-> <<200, "left", 1>>]

Operators == DOMAIN INFOS \ {"LEFT_BRACKET", "RIGHT_BRACKET"}
Numbers == {"INT64", "VARIABLE"}

Lexeme == [type : DOMAIN INFOS \cup {"number", "name", "blank", "minus"},
           value : Int]
Token == [type : DOMAIN INFOS \cup Numbers \cup {"UNKNOW"}, value : Int]

ASSUME FormulaAssumption ==
  /\ Variables \in Seq(Int)
  /\ Width \in Nat \ {0} /\ Precision \in Nat \ {0}

VARIABLES
  mode,        \* which of the two evaluations is asked for
  text,        \* _formula
  position,    \* the lexeme the constructor reads next
  output,      \* output: the tokens in postfix order
  stack,       \* the operators and parentheses that wait, the last one on top
  pc,          \* "read", "flush", "evaluate", "done", or "threw" an exception
  queue,       \* tmpoutput: the tokens still to be evaluated
  values,      \* the stack of the evaluation
  result

parser == <<text, position, output, stack>>
evaluation == <<queue, values, result>>
vars == <<mode, pc, parser, evaluation>>

Init ==
  /\ mode \in {"integer", "float"}
  /\ text \in Seq(Lexeme)
  /\ position = 1
  /\ output = <<>>
  /\ stack = <<>>
  /\ pc = "read"
  /\ queue = <<>>
  /\ values = <<>>
  /\ result = 0
-----------------------------------------------------------------------------
(* The tokens *)

Precedence(token) == INFOS[token.type][1]
LeftAssociative(token) == INFOS[token.type][2] = "left"
OperandsCount(token) == INFOS[token.type][3]
IsOperator(token) == token.type \in Operators
IsNumber(token) == token.type \in Numbers

NoToken == [type |-> "UNKNOW", value |-> 0]

\* The character after the current one is looked at, though there may be none.
LooksAhead ==
  {"minus", "MULTIPLICATION", "BITWISE_AND", "BITWISE_OR", "LOGICAL_LESS",
   "LOGICAL_GREATER"}

Follows(type) ==
  position < Len(text) /\ text[position + 1].type = type

\* A minus sign is a subtraction before a blank, the sign of a number before a
\* digit, and nothing otherwise.
NextToken ==
  LET lexeme == text[position]
  IN  CASE lexeme.type = "number" -> [lexeme EXCEPT !.type = "INT64"]
        [] lexeme.type = "name" -> [lexeme EXCEPT !.type = "VARIABLE"]
        [] lexeme.type = "blank" -> NoToken
        [] lexeme.type = "minus" ->
             IF Follows("blank") THEN [lexeme EXCEPT !.type = "SUBSTRACTION"]
             ELSE IF Follows("number")
             THEN [type |-> "INT64", value |-> -text[position + 1].value]
             ELSE NoToken
        [] OTHER -> lexeme

\* The lexemes the next token is made of.
TokenSize ==
  IF text[position].type = "minus" /\ Follows("number") THEN 2 ELSE 1
-----------------------------------------------------------------------------
(* The constructor *)

Reading ==
  /\ pc = "read"
  /\ position <= Len(text)
  /\ ~(text[position].type \in LooksAhead /\ position = Len(text))
  /\ position' = position + TokenSize

\* Everything above the first k elements of the stack, from the top down.
Above(k) == [i \in 1..(Len(stack) - k) |-> stack[Len(stack) + 1 - i]]

\* Mutant: an operator as tight as the token waits on the stack.
GivesWayWhenTighter(top, token) ==
  IsOperator(top) /\ Precedence(token) < Precedence(top)

\* The operator on top of the stack goes to the output before the token is
\* pushed.
GivesWay(top, token) ==
  /\ IsOperator(top)
  /\ \/ LeftAssociative(token) /\ Precedence(token) = Precedence(top)
     \/ Precedence(token) < Precedence(top)

\* How much of the stack stays below the token.
Kept(token) ==
  CHOOSE k \in 0..Len(stack) :
    /\ k = 0 \/ ~GivesWay(stack[k], token)
    /\ \A i \in (k + 1)..Len(stack) : GivesWay(stack[i], token)

\* Mutant: the lexeme is pushed before it has become a token.
ReadNumberUntyped ==
  /\ Reading
  /\ IsNumber(NextToken)
  /\ output' = Append(output, text[position])
  /\ UNCHANGED <<mode, pc, text, stack, evaluation>>

ReadNumber ==
  /\ Reading
  /\ IsNumber(NextToken)
  /\ output' = Append(output, NextToken)
  /\ UNCHANGED <<mode, pc, text, stack, evaluation>>

ReadOperator ==
  /\ Reading
  /\ IsOperator(NextToken)
  /\ LET k == Kept(NextToken)
     IN  /\ output' = output \o Above(k)
         /\ stack' = Append(SubSeq(stack, 1, k), NextToken)
  /\ UNCHANGED <<mode, pc, text, evaluation>>

ReadLeft ==
  /\ Reading
  /\ NextToken.type = "LEFT_BRACKET"
  /\ stack' = Append(stack, NextToken)
  /\ UNCHANGED <<mode, pc, text, output, evaluation>>

LeftBrackets == {i \in 1..Len(stack) : stack[i].type = "LEFT_BRACKET"}

\* The last parenthesis opened on the stack.
Opened == CHOOSE k \in LeftBrackets : \A i \in LeftBrackets : i <= k

\* Mutant: the parenthesis stays on the stack.
ReadRightKeepsLeft ==
  /\ Reading
  /\ NextToken.type = "RIGHT_BRACKET"
  /\ LeftBrackets # {}
  /\ output' = output \o Above(Opened)
  /\ stack' = SubSeq(stack, 1, Opened)
  /\ UNCHANGED <<mode, pc, text, evaluation>>

ReadRight ==
  /\ Reading
  /\ NextToken.type = "RIGHT_BRACKET"
  /\ LeftBrackets # {}
  /\ output' = output \o Above(Opened)
  /\ stack' = SubSeq(stack, 1, Opened - 1)
  /\ UNCHANGED <<mode, pc, text, evaluation>>

\* A parenthesis that closes nothing ends the reading.
ReadUnopened ==
  /\ Reading
  /\ NextToken.type = "RIGHT_BRACKET"
  /\ LeftBrackets = {}
  /\ output' = output \o Above(0)
  /\ stack' = <<>>
  /\ pc' = "flush"
  /\ UNCHANGED <<mode, text, evaluation>>

ReadNothing ==
  /\ Reading
  /\ NextToken.type = "UNKNOW"
  /\ UNCHANGED <<mode, pc, text, output, stack, evaluation>>

\* std::string::at past the end of the text.
ReadThrows ==
  /\ pc = "read"
  /\ position = Len(text)
  /\ text[position].type \in LooksAhead
  /\ pc' = "threw"
  /\ UNCHANGED <<mode, parser, evaluation>>

\* The operators left on the stack, down to a parenthesis nobody closed.
Flush ==
  /\ \/ pc = "read" /\ position > Len(text)
     \/ pc = "flush"
  /\ LET k == IF LeftBrackets = {} THEN 0 ELSE Opened
     IN  /\ output' = output \o Above(k)
         /\ stack' = SubSeq(stack, 1, k)
         /\ queue' = output'
  /\ pc' = "evaluate"
  /\ UNCHANGED <<mode, text, position, values, result>>
-----------------------------------------------------------------------------
(* The evaluation *)

\* The two's complement of an integer as the set of its bits.
Bits(n) == {i \in 0..(Width - 1) : (n \div 2^i) % 2 = 1}
Unsigned(bits) == MapThenSumSet(LAMBDA i : 2^i, bits)
Integer(bits) ==
  IF Width - 1 \in bits THEN Unsigned(bits) - 2^Width ELSE Unsigned(bits)

Truth(condition) == IF condition THEN 1 ELSE 0

Magnitude(n) == IF n < 0 THEN -n ELSE n
Sign(n) == IF n < 0 THEN -1 ELSE 1

\* C++ divides towards zero; a division by zero is left at 0.
Quotient(a, b) ==
  IF b = 0 THEN 0 ELSE Sign(a) * Sign(b) * (Magnitude(a) \div Magnitude(b))
Remainder(a, b) == IF b = 0 THEN 0 ELSE a - b * Quotient(a, b)

\* What a double keeps of an integer: Precision bits, rounded to the nearest.
ToFloat(n) ==
  LET step == 2^(CHOOSE k \in 0..Width :
                   /\ Magnitude(n) \div 2^k < 2^Precision
                   /\ k > 0 => Magnitude(n) \div 2^(k - 1) >= 2^Precision)
      floor == Magnitude(n) \div step
      twice == 2 * (Magnitude(n) - floor * step)
      up == twice > step \/ (twice = step /\ floor % 2 = 1)
  IN  Sign(n) * step * (IF up THEN floor + 1 ELSE floor)

ShiftLeft(n, count) ==
  Integer({i + count : i \in Bits(n)} \cap 0..(Width - 1))

\* pow: anything to the power 0 is 1; a negative exponent leaves a fraction, of
\* which an integer keeps nothing.
Power(a, b) ==
  IF b = 0 THEN 1
  ELSE IF b > 0 THEN a^b
  ELSE IF Magnitude(a) # 1 THEN 0
  ELSE IF b % 2 = 0 THEN 1 ELSE a

\* o1 is the last operand, the first one taken from the stack.  A type that is
\* not evaluated leaves the value of a new token, 0.  The processor shifts by the
\* count modulo the width.
Apply(type, o1, o2, o3) ==
  CASE type = "ADDITION" -> o2 + o1
    [] type = "SUBSTRACTION" -> o2 - o1
    [] type = "MULTIPLICATION" -> o2 * o1
    [] type = "DIVISION" -> Quotient(o2, o1)
    [] type = "REMAINDER" -> Remainder(o2, o1)
    [] type = "POWER" -> Power(o2, o1)
    [] type = "BITWISE_AND" -> Integer(Bits(o2) \cap Bits(o1))
    [] type = "BITWISE_OR" -> Integer(Bits(o2) \cup Bits(o1))
    [] type = "BITWISE_XOR" ->
         Integer((Bits(o2) \ Bits(o1)) \cup (Bits(o1) \ Bits(o2)))
    [] type = "BITWISE_NOT" -> -o1 - 1
    [] type = "LOGICAL_NOT_EQUAL" -> Truth(o2 # o1)
    [] type = "LOGICAL_EQUAL" -> Truth(o2 = o1)
    [] type = "LOGICAL_GREATER" -> Truth(o2 > o1)
    [] type = "LOGICAL_LESS" -> Truth(o2 < o1)
    [] type = "LOGICAL_LESS_OR_EQUAL" -> Truth(o2 <= o1)
    [] type = "LOGICAL_GREATER_OR_EQUAL" -> Truth(o2 >= o1)
    [] type = "LOGICAL_AND" -> Truth(o2 # 0 /\ o1 # 0)
    [] type = "LOGICAL_OR" -> Truth(o2 # 0 \/ o1 # 0)
    [] type = "SHIFT_LEFT" -> ShiftLeft(o2, o1 % Width)
    [] type = "SHIFT_RIGHT" -> o2 \div 2^(o1 % Width)
    [] type = "TERNARY_QUESTION_MARK" -> IF o3 # 0 THEN o2 ELSE o1
    [] type = "TERNARY_COLON" -> o1
    [] OTHER -> 0

\* What evaluateAsFloat refuses to do.
OnIntegersOnly ==
  {"REMAINDER", "BITWISE_AND", "BITWISE_OR", "BITWISE_XOR", "BITWISE_NOT",
   "SHIFT_LEFT", "SHIFT_RIGHT"}

\* Mutant: the first operand pushed is taken for the last one.
OperandFirst(n) == IF n <= Len(values) THEN values[n] ELSE 0

Operand(n) == IF n <= Len(values) THEN values[Len(values) + 1 - n] ELSE 0

\* What the stack of the evaluation asked for can hold.
Kind(n) == IF mode = "float" THEN ToFloat(n) ELSE n

\* A name nobody has given a value to counts as 0.
ValueOf(token) ==
  IF token.type = "INT64" THEN token.value
  ELSE IF token.value \in DOMAIN Variables THEN Variables[token.value] ELSE 0

EvaluateNumber ==
  /\ pc = "evaluate"
  /\ queue # <<>>
  /\ IsNumber(Head(queue))
  /\ values' = Append(values, Kind(ValueOf(Head(queue))))
  /\ queue' = Tail(queue)
  /\ UNCHANGED <<mode, pc, parser, result>>

Refused(token) ==
  \/ Len(values) < OperandsCount(token)
  \/ mode = "float" /\ token.type \in OnIntegersOnly

EvaluateOperator ==
  /\ pc = "evaluate"
  /\ queue # <<>>
  /\ ~IsNumber(Head(queue))
  /\ ~Refused(Head(queue))
  /\ LET token == Head(queue)
     IN  values' =
           Append(SubSeq(values, 1, Len(values) - OperandsCount(token)),
                  Kind(Apply(token.type, Operand(1), Operand(2), Operand(3))))
  /\ queue' = Tail(queue)
  /\ UNCHANGED <<mode, pc, parser, result>>

\* The one value left is the result, and goes through a double.
Result(left) == IF Len(left) = 1 THEN ToFloat(left[1]) ELSE 0

\* An operator that lacks operands, or that does not apply to doubles, ends the
\* evaluation; in the second case its operands are gone.
Break ==
  /\ pc = "evaluate"
  /\ queue # <<>>
  /\ ~IsNumber(Head(queue))
  /\ Refused(Head(queue))
  /\ LET count == OperandsCount(Head(queue))
     IN  values' = IF Len(values) < count THEN values
                   ELSE SubSeq(values, 1, Len(values) - count)
  /\ result' = Result(values')
  /\ pc' = "done"
  /\ UNCHANGED <<mode, parser, queue>>

Finish ==
  /\ pc = "evaluate"
  /\ queue = <<>>
  /\ result' = Result(values)
  /\ pc' = "done"
  /\ UNCHANGED <<mode, parser, queue, values>>

Next ==
  \/ ReadNumber \/ ReadOperator \/ ReadLeft \/ ReadRight \/ ReadUnopened
  \/ ReadNothing \/ ReadThrows \/ Flush
  \/ EvaluateNumber \/ EvaluateOperator \/ Break \/ Finish

Spec == Init /\ [][Next]_vars
-----------------------------------------------------------------------------
(* Properties *)

\* The variables have their types.
TypeOK ==
  /\ mode \in {"integer", "float"}
  /\ text \in Seq(Lexeme)
  /\ position \in Nat
  /\ output \in Seq(Token)
  /\ stack \in Seq(Token)
  /\ pc \in {"read", "flush", "evaluate", "done", "threw"}
  /\ queue \in Seq(Token)
  /\ values \in Seq(Int)
  /\ result \in Int

\* Whatever the text, well formed or not, of two operators on the stack with no
\* parenthesis between them the upper one binds tighter, or as tight and to the
\* right: the order in which the stack is emptied is the order of evaluation.
StackOrdered ==
  \A j \in 1..Len(stack) : \A i \in 1..(j - 1) :
    (\A k \in i..j : IsOperator(stack[k])) =>
      \/ Precedence(stack[i]) < Precedence(stack[j])
      \/ /\ Precedence(stack[i]) = Precedence(stack[j])
         /\ ~LeftAssociative(stack[j])

\* Whatever the text, parentheses never reach the queue of the evaluation, and
\* only operators and opening parentheses wait on the stack.
OutputClean ==
  /\ \A i \in 1..Len(output) : IsNumber(output[i]) \/ IsOperator(output[i])
  /\ \A i \in 1..Len(stack) :
       IsOperator(stack[i]) \/ stack[i].type = "LEFT_BRACKET"
=============================================================================
