---------------------------- MODULE PaperBroker ----------------------------
(* PaperBroker (engine/paper_broker.cpp) for one symbol and limit orders:      *)
(* orders fill whole when the market reaches their price.  orders_mutex_ makes *)
(* each operation atomic.  cash_ and commissions are left out: what they do    *)
(* follows from the fills and nothing reads them.                              *)
EXTENDS Integers, Sequences, SequencesExt

VARIABLES
  openOrders,   \* open_orders_, an unordered map: the sequence is placement order
  heldVolume,   \* positions_[symbol]
  conjured      \* history: volume sold that the account did not hold

brokerVars == <<openOrders, heldVolume, conjured>>

BrokerInit == openOrders = <<>> /\ heldVolume = 0 /\ conjured = 0

Buy(price, volume) == [long |-> TRUE, price |-> price, volume |-> volume]
Sell(price, volume) == [long |-> FALSE, price |-> price, volume |-> volume]

\* send_order, once per element
Place(sent) == openOrders' = openOrders \o sent /\ UNCHANGED <<heldVolume, conjured>>

ShouldFill(o, bid, ask) == IF o.long THEN ask <= o.price ELSE bid >= o.price

\* Mutant: a sell that exceeds the position is left unfilled and dropped.
ExecuteFillDropped(account, o) ==
  IF o.long \/ o.volume <= account.heldVolume
  THEN [account EXCEPT !.heldVolume = @ + (IF o.long THEN o.volume ELSE -o.volume)]
  ELSE account

\* execute_fill: a sell that exceeds the position fills in full, and the
\* position is cut off at zero.
ExecuteFill(account, o) ==
  LET left == account.heldVolume + (IF o.long THEN o.volume ELSE -o.volume) IN
    IF left >= 0 THEN [account EXCEPT !.heldVolume = left]
    ELSE [heldVolume |-> 0, conjured |-> account.conjured - left]

\* The orders at some places only.
OrdersAt(places) ==
  LET order == CHOOSE p \in SetToSeqs(places) : \A i, j \in DOMAIN p : i < j => p[i] < p[j]
  IN [i \in DOMAIN order |-> openOrders[order[i]]]

\* try_fill_orders: the map is walked in no particular order.
TryFillOrders(bid, ask) ==
  LET filled == {i \in DOMAIN openOrders : ShouldFill(openOrders[i], bid, ask)} IN
    /\ openOrders' = OrdersAt(DOMAIN openOrders \ filled)
    /\ \E walk \in SetToSeqs(filled) :
         LET account == FoldLeft(LAMBDA a, i : ExecuteFill(a, openOrders[i]),
                                 [heldVolume |-> heldVolume, conjured |-> conjured], walk)
         IN heldVolume' = account.heldVolume /\ conjured' = account.conjured

\* Volume bought less volume sold by the orders of a sequence.
NetVolume(os) ==
  FoldLeft(LAMBDA v, o : v + (IF o.long THEN o.volume ELSE -o.volume), 0, os)
============================================================================
