----------------------------- MODULE MCFormula -----------------------------
EXTENDS FormulaReference

MCVariables == <<3>>

Leaves == {Number(2), Number(-1), Name(1)}

Flat(ops) == {Dyadic(op, Name(1), Number(2)) : op \in ops}

Small ==
  Leaves \cup Flat(Binary)
    \cup {Complement(Name(1)), Choice(Number(0), Number(2), Name(1))}

\* Operands of operands: one operator of each level.
Inner ==
  Small \ Flat(Binary \ {
    "LOGICAL_OR", "LOGICAL_AND", "BITWISE_OR", "BITWISE_XOR", "BITWISE_AND",
    "LOGICAL_NOT_EQUAL", "LOGICAL_LESS", "SHIFT_LEFT", "SUBSTRACTION",
    "MULTIPLICATION", "POWER"})

Few ==
  {e \in Inner : e.args = <<>> \/ e.op \in {"TERNARY_QUESTION_MARK", "LOGICAL_OR",
                                            "LOGICAL_LESS", "SUBSTRACTION"}}

\* Bound: shifts and powers stay small.
Operands(op) ==
  Inner \X IF op \in {"POWER", "SHIFT_LEFT", "SHIFT_RIGHT"}
           THEN {b \in Inner : b.meaning \in 0..4} ELSE Inner

Nested ==
  UNION {{Dyadic(op, pair[1], pair[2]) : pair \in Operands(op)} : op \in Binary}
    \cup {Complement(a) : a \in Inner}
    \cup {Choice(c, a, b) : c \in Few, a \in Few, b \in Few}

MCTrees == {Number(0)} \cup Small \cup Nested

Two == [type |-> "number", value |-> 2]

MCMalformed == {
  <<Symbol("LEFT_BRACKET"), Two, Symbol("ADDITION"), Two>>,
  <<Two, Symbol("RIGHT_BRACKET"), Symbol("ADDITION"), Two>>,
  <<Two, Symbol("ADDITION"), Symbol("BITWISE_NOT"), Two>>,
  <<Two, Symbol("minus")>>,
  <<Symbol("minus"), [type |-> "name", value |-> 2]>>}
=============================================================================
