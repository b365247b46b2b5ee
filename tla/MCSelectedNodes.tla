---------------------------- MODULE MCSelectedNodes ----------------------------
(***************************************************************************)
(* A selector of two channels.  The gain of channel 1 is in halves of its  *)
(* register, that of channel 2 one below it; each channel has a register   *)
(* of its own, and so has what selects none of them, such as a read that   *)
(* fails.  The features are the selector, the gain, the raw gain, one of   *)
(* whose values is too wide, and the largest gain, a SwissKnife of two     *)
(* variables.                                                              *)
(***************************************************************************)
EXTENDS SelectedNodes, TLC

CONSTANTS t1, t2, selector, analog, digital, other

MCThreads == {t1, t2}
Symmetry == Permutations(MCThreads)
MCRegisters == {selector, analog, digital, other}
MCStrays == {2}
MCInitial == {selector :> 1 @@ analog :> 2 @@ digital :> 2 @@ other :> 0}

Channel == [p \in {<<w>> : w \in Words} |->
  CASE p[1] = 1 -> analog [] p[1] = 2 -> digital [] OTHER -> other]

Identity == [p \in {<<>>} |-> [w \in Words |-> w]]

MCNodes ==
  {[variables |-> <<>>, addressed |-> <<>>, hasValue |-> TRUE,
    register |-> (<<>> :> selector), choices |-> {1, 2},
    to |-> (<<>> :> [v \in {1, 2} |-> v]), from |-> Identity],
   [variables |-> <<selector>>, addressed |-> <<selector>>, hasValue |-> TRUE,
    register |-> Channel, choices |-> {1, 2},
    to |-> [p \in {<<w>> : w \in Words} |->
              [v \in {1, 2} |-> IF p[1] < 2 THEN (3 * v) \div 2 ELSE v - 1]],
    from |-> [p \in {<<w>> : w \in Words} |->
              [w \in Words |-> IF p[1] < 2 THEN (2 * w) \div 3 ELSE w + 1]]],
   [variables |-> <<>>, addressed |-> <<selector>>, hasValue |-> TRUE,
    register |-> Channel, choices |-> {4},
    to |-> (<<>> :> [v \in {4} |-> v]), from |-> Identity],
   [variables |-> <<selector, analog>>, addressed |-> <<>>, hasValue |-> FALSE,
    register |-> (<<>> :> other), choices |-> {},
    to |-> [p \in Words \X Words |-> <<>>],
    from |-> [p \in Words \X Words |->
              [w \in Words |-> IF p[1] < 2 THEN p[2] ELSE 3]]]}
=============================================================================
