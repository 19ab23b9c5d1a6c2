--------------------------- MODULE MCApprovalFlow ---------------------------
(* Instances of ApprovalFlow for TLC. *)
EXTENDS ApprovalFlow, TLC

Market(price, ask, stop, target) ==
    [price |-> price, ask |-> ask, stop |-> stop, target |-> target]

\* Around a plan made at 10000, with ticks and lots of 4: two markets a preview's
\* tolerance apart whose size the cap limits (9 and 8, and 8 may be floored to one
\* lot or two), and one on the other side of the plan, too far from the first,
\* whose size the risk limits, to one lot or to none.
MCMarkets ==
    {Market(10000, 10006, 9597, 10641), Market(10000, 10010, 9597, 10641),
     Market(9990, 9991, 8889, 11645)}

Symmetry == Permutations(Cookies) \cup Permutations(Conns) \cup Permutations(Tokens)
               \cup Permutations(Requests) \cup Permutations(Plans)
=============================================================================
