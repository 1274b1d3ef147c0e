------------------------------ MODULE MCSession ------------------------------
(* Bounded instances of a session for TLC.                                 *)
EXTENDS SessionSafety

CONSTANT InputLength  \* bars per run

MCBars == {[open |-> 4, high |-> 5, low |-> 3, close |-> 4],
           [open |-> 3, high |-> 3, low |-> 2, close |-> 2],
           [open |-> 5, high |-> 7, low |-> 5, close |-> 6]}

MCInputSequences == [1 .. InputLength -> MCBars]

(* A long with levels and no quantity, one above the maximum, a short and  *)
(* a close.                                                                *)
MCAnswers == {[action |-> "BUY",   quantity |-> 0, stop |-> 2, profit |-> 6],
              [action |-> "BUY",   quantity |-> 3, stop |-> 0, profit |-> 0],
              [action |-> "SELL",  quantity |-> 2, stop |-> 5, profit |-> 0],
              [action |-> "CLOSE", quantity |-> 0, stop |-> 0, profit |-> 0]}

(* No policy; a policy that forbids shorts and locks at 10%; one that      *)
(* allows them and locks at 25%; one without a lock.                       *)
MCPolicies ==
  {[aware |-> FALSE, default |-> 1, allowShort |-> TRUE,  maxQuantity |-> 1, maxDrawdown |-> 0],
   [aware |-> TRUE,  default |-> 1, allowShort |-> FALSE, maxQuantity |-> 3, maxDrawdown |-> 10],
   [aware |-> TRUE,  default |-> 2, allowShort |-> TRUE,  maxQuantity |-> 2, maxDrawdown |-> 25],
   [aware |-> TRUE,  default |-> 1, allowShort |-> TRUE,  maxQuantity |-> 2, maxDrawdown |-> 0]}

(* The strategy's answers, those without a quantity with a default too.    *)
MCIntents ==
  MCAnswers \cup
  {[i EXCEPT !.quantity = p.default] :
     i \in {a \in MCAnswers : a.action # "CLOSE" /\ a.quantity = 0}, p \in MCPolicies}
=============================================================================
