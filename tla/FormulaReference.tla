-------------------------- MODULE FormulaReference --------------------------
(***************************************************************************)
(* What a formula means.  An expression is a tree that carries the text    *)
(* that stands for it, with no more parentheses than it needs, the tokens  *)
(* of that text in postfix order, and its value; each constructor computes *)
(* them from those of the operands.  Formula is run on the text of a tree  *)
(* and compared with the tree.                                             *)
(***************************************************************************)
EXTENDS Formula

CONSTANTS
  Trees,        \* the expressions whose texts are run
  Malformed     \* texts that stand for no expression

VARIABLE tree

\* The binary operators from the loosest to the tightest; the ternary operator,
\* of level 0, is looser still.
Levels == <<
  {"LOGICAL_OR"}, {"LOGICAL_AND"}, {"BITWISE_OR"}, {"BITWISE_XOR"},
  {"BITWISE_AND"}, {"LOGICAL_EQUAL", "LOGICAL_NOT_EQUAL"},
  {"LOGICAL_LESS", "LOGICAL_LESS_OR_EQUAL", "LOGICAL_GREATER",
   "LOGICAL_GREATER_OR_EQUAL"},
  {"SHIFT_LEFT", "SHIFT_RIGHT"}, {"ADDITION", "SUBSTRACTION"},
  {"MULTIPLICATION", "DIVISION", "REMAINDER"}, {"POWER"}>>

Binary == UNION {Levels[i] : i \in DOMAIN Levels}
LevelOf(op) == CHOOSE i \in DOMAIN Levels : op \in Levels[i]
Tightest == Len(Levels) + 1

Symbol(type) == [type |-> type, value |-> 0]

Sign1(op) ==
  IF op = "SUBSTRACTION" THEN <<Symbol("blank"), Symbol("minus"), Symbol("blank")>>
  ELSE <<Symbol(op)>>

Parenthesised(lexemes) ==
  <<Symbol("LEFT_BRACKET")>> \o lexemes \o <<Symbol("RIGHT_BRACKET")>>

\* An operand where nothing looser than the level may stand.
Within(e, level) == IF e.level < level THEN Parenthesised(e.text) ELSE e.text

\* The operators, the exponents and the values of an expression are those of all its
\* parts.
Expression(op, args, level, lexemes, tokens, meaning) ==
  [op |-> op, args |-> args, level |-> level, text |-> lexemes, queue |-> tokens,
   meaning |-> meaning,
   ops |-> {op} \cup UNION {args[i].ops : i \in DOMAIN args},
   exponents |-> (IF op = "POWER" THEN {args[2].meaning} ELSE {})
                   \cup UNION {args[i].exponents : i \in DOMAIN args},
   values |-> {meaning} \cup UNION {args[i].values : i \in DOMAIN args}]

Number(n) ==
  Expression("number", <<>>, Tightest,
    IF n < 0 THEN <<Symbol("minus"), [type |-> "number", value |-> -n]>>
    ELSE <<[type |-> "number", value |-> n]>>,
    <<[type |-> "INT64", value |-> n]>>, n)

Name(n) ==
  Expression("name", <<>>, Tightest, <<[type |-> "name", value |-> n]>>,
    <<[type |-> "VARIABLE", value |-> n]>>, Variables[n])

\* A complement is always in parentheses: its sign is looser than most operators.
Complement(a) ==
  Expression("BITWISE_NOT", <<a>>, Tightest,
    Parenthesised(<<Symbol("BITWISE_NOT")>> \o Within(a, Tightest)),
    a.queue \o <<Symbol("BITWISE_NOT")>>, Apply("BITWISE_NOT", a.meaning, 0, 0))

\* Of two operators of a level the left one comes first, of two powers the right
\* one.
Dyadic(op, a, b) ==
  LET level == LevelOf(op)
      left == IF op = "POWER" THEN level + 1 ELSE level
      right == IF op = "POWER" THEN level ELSE level + 1
  IN  Expression(op, <<a, b>>, level,
        Within(a, left) \o Sign1(op) \o Within(b, right),
        a.queue \o b.queue \o <<Symbol(op)>>, Apply(op, b.meaning, a.meaning, 0))

\* A choice takes the branch it is told to.
Choice(c, a, b) ==
  Expression("TERNARY_QUESTION_MARK", <<c, a, b>>, 0,
    Within(c, 1) \o <<Symbol("TERNARY_QUESTION_MARK")>> \o Within(a, 1)
      \o <<Symbol("TERNARY_COLON")>> \o b.text,
    c.queue \o a.queue \o b.queue
      \o <<Symbol("TERNARY_COLON"), Symbol("TERNARY_QUESTION_MARK")>>,
    IF c.meaning # 0 THEN a.meaning ELSE b.meaning)

NoTree == [Number(0) EXCEPT !.op = "none"]

\* A tree is made by a constructor, from operands that are trees.
IsTree(e) ==
  /\ e.text \in Seq(Lexeme)
  /\ e.meaning \in Int
  /\ \A i \in DOMAIN e.args : e.args[i] \in Trees
  /\ \/ e = Number(e.meaning)
     \/ \E n \in DOMAIN Variables : e = Name(n)
     \/ e.op = "BITWISE_NOT" /\ e = Complement(e.args[1])
     \/ e.op \in Binary /\ e = Dyadic(e.op, e.args[1], e.args[2])
     \/ e.op = "TERNARY_QUESTION_MARK" /\ e = Choice(e.args[1], e.args[2], e.args[3])

ASSUME ReferenceAssumption == \A e \in Trees : IsTree(e)

ReferenceInit ==
  /\ \/ tree \in Trees /\ text = tree.text
     \/ tree = NoTree /\ text \in Malformed
  /\ Init

ReferenceSpec == ReferenceInit /\ [][Next /\ UNCHANGED tree]_<<vars, tree>>

\* A double can hold every number of a set.
Exact(numbers) == \A n \in numbers : Magnitude(n) <= 2^Precision

\* The constructor understands a formula: the queue it leaves for the evaluation
\* is the expression, whatever parentheses the text does without.
QueueIsExpression ==
  tree # NoTree /\ pc \in {"evaluate", "done"} => output = tree.queue

\* What the two evaluations can compute.  On integers nothing overflows, and powers
\* and the result go through doubles; on doubles there are no operators on integers
\* and no fractions.
Computable ==
  /\ tree.exponents \subseteq Nat
  /\ IF mode = "integer"
     THEN /\ \A n \in tree.values : Magnitude(n) < 2^(Width - 1)
          /\ Exact({tree.meaning})
          /\ "POWER" \in tree.ops => Exact(tree.values)
     ELSE /\ Exact(tree.values)
          /\ tree.ops \cap (OnIntegersOnly \cup {"DIVISION"}) = {}

\* The evaluation yields the value of the expression, where it can be computed.
ResultIsValue ==
  tree # NoTree /\ pc = "done" /\ Computable => result = tree.meaning
=============================================================================
