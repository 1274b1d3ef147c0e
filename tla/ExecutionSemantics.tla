-------------------------- MODULE ExecutionSemantics --------------------------
(***************************************************************************)
(* What USER_GUIDE.md, "Execution semantics", tells the user of a broker,  *)
(* without the broker's records, identifiers and money: at most one        *)
(* decision waits for the next open, at most one position is held, and     *)
(* every candle decides what is filled and at which price.  Levels are     *)
(* stated as touched or not, and a touched one is left at the worse of     *)
(* stop and open or at the better of target and open.                      *)
(*                                                                         *)
(* One thing the guide does not say is in it because the broker does it: a *)
(* position whose stop is its entry price cannot be left.                  *)
(***************************************************************************)
EXTENDS Integers, Sequences

CONSTANTS Intents, Bars, Times

VARIABLES
  waiting,  \* the decision for the next open, if any: its intent and its time
  held,     \* the position, if any
  tape,     \* every fill so far
  last,     \* the latest candle, if any
  over      \* whether the session was finalized

semanticsVars == <<waiting, held, tape, last, over>>

Enters(intent) == intent.action # "CLOSE"
Side(quantity) == IF quantity > 0 THEN "BUY" ELSE "SELL"
Size(quantity) == IF quantity > 0 THEN quantity ELSE -quantity
Bought(quantity, price) == [action |-> Side(quantity), quantity |-> Size(quantity), price |-> price]

PositionOf(intent, price) ==
  [quantity |-> IF intent.action = "BUY" THEN intent.quantity ELSE -intent.quantity,
   price |-> price, stop |-> intent.stop, profit |-> intent.profit]

Unclosable(p) == p.stop # 0 /\ p.stop = p.price

Lower(m, n) == IF m < n THEN m ELSE n
Higher(m, n) == IF m < n THEN n ELSE m

StopTouched(p, b) == p.stop # 0 /\ IF p.quantity > 0 THEN b.low <= p.stop ELSE b.high >= p.stop
TargetTouched(p, b) == p.profit # 0 /\ IF p.quantity > 0 THEN b.high >= p.profit ELSE b.low <= p.profit
StopPrice(p, b) == IF p.quantity > 0 THEN Lower(p.stop, b.open) ELSE Higher(p.stop, b.open)
TargetPrice(p, b) == IF p.quantity > 0 THEN Higher(p.profit, b.open) ELSE Lower(p.profit, b.open)

SemanticsInit ==
  waiting = {} /\ held = {} /\ tape = <<>> /\ last = {} /\ over = FALSE

(* A decision is accepted: an entry when nothing is held, a CLOSE when     *)
(* something is, and nothing while another one waits.                      *)
Decide(intent, t) ==
  /\ ~over /\ waiting = {}
  /\ IF Enters(intent) THEN held = {} /\ intent.quantity > 0 ELSE held # {}
  /\ waiting' = {[intent |-> intent, since |-> t]}
  /\ UNCHANGED <<held, tape, last, over>>

Leave(p, price, before) ==
  /\ ~Unclosable(p)
  /\ held' = {}
  /\ tape' = Append(before, Bought(-p.quantity, price))

Keep(p, before) == held' = {p} /\ tape' = before

(* Position p, be it just entered, meets the levels that candle b touches. *)
Meet(p, b, before) ==
  \/ StopTouched(p, b) /\ Leave(p, StopPrice(p, b), before)
  \/ ~StopTouched(p, b) /\ TargetTouched(p, b) /\ Leave(p, TargetPrice(p, b), before)
  \/ (StopTouched(p, b) \/ TargetTouched(p, b) => Unclosable(p)) /\ Keep(p, before)

Trade(b) ==
  \/ waiting = {} /\ held = {} /\ UNCHANGED <<held, tape>>
  \/ waiting = {} /\ \E p \in held : Meet(p, b, tape)
  \/ \E d \in waiting :
       /\ Enters(d.intent)
       /\ LET p == PositionOf(d.intent, b.open)
          IN Meet(p, b, Append(tape, Bought(p.quantity, b.open)))
  \/ \E d \in waiting, p \in held :
       /\ ~Enters(d.intent)
       /\ Leave(p, b.open, tape) \/ (Unclosable(p) /\ Keep(p, tape))

(* A candle: not older than the one before nor than the decision it fills. *)
Candle(b, t) ==
  /\ ~over
  /\ \A c \in last : c.time <= t
  /\ \A d \in waiting : d.since <= t
  /\ Trade(b)
  /\ waiting' = {}
  /\ last' = {[time |-> t, candle |-> b]}
  /\ UNCHANGED over

(* The end of the data cancels what waits and liquidates what is held.     *)
EndOfData ==
  /\ ~over /\ last # {}
  /\ waiting' = {}
  /\ \/ held = {} /\ UNCHANGED <<held, tape>> /\ over' = TRUE
     \/ \E p \in held, c \in last : Leave(p, c.candle.close, tape) /\ over' = TRUE
     \/ \E p \in held : Unclosable(p) /\ Keep(p, tape) /\ UNCHANGED over
  /\ UNCHANGED last

SemanticsNext ==
  \/ \E intent \in Intents, t \in Times : Decide(intent, t)
  \/ \E b \in Bars, t \in Times : Candle(b, t)
  \/ EndOfData

SemanticsSpec == SemanticsInit /\ [][SemanticsNext]_semanticsVars
=============================================================================
