------------------------------ MODULE MCBroker ------------------------------
(* Bounded instances of the broker for TLC.                                *)
EXTENDS BrokerSafety

(* A calm candle, a gap down, and a wide one that spans the levels of both *)
(* sides.                                                                  *)
MCBars == {[open |-> 5, high |-> 5, low |-> 4, close |-> 4],
           [open |-> 2, high |-> 2, low |-> 1, close |-> 2],
           [open |-> 6, high |-> 8, low |-> 3, close |-> 7]}

(* A long whose levels the wide candle touches both; a long without target *)
(* whose stop is an open, and whose mark at the wide close is a new peak   *)
(* that liquidation costs undo; a short that a gap carries beyond its      *)
(* target; a close.                                                        *)
MCIntents == {[action |-> "BUY",   quantity |-> 1, stop |-> 3, profit |-> 7],
              [action |-> "BUY",   quantity |-> 2, stop |-> 2, profit |-> 0],
              [action |-> "SELL",  quantity |-> 2, stop |-> 6, profit |-> 3],
              [action |-> "CLOSE", quantity |-> 0, stop |-> 0, profit |-> 0]}
=============================================================================
