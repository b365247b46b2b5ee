SPECIFICATION ReferenceSpec
CONSTANTS
  Trees <- MCTrees
  Malformed <- MCMalformed
  Variables <- MCVariables
  Width = 24
  Precision = 6
INVARIANTS
  TypeOK
  StackOrdered
  QueueIsExpression
  ResultIsValue
CHECK_DEADLOCK FALSE
