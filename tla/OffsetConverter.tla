-------------------------- MODULE OffsetConverter --------------------------
(* PositionHolding and OffsetConverter (exchange/offset_converter.cpp): how an *)
(* order request is split into closes of today's and yesterday's position and  *)
(* opens, from a copy of the account that trades and order updates keep up to  *)
(* date.  One symbol that requires conversion.  The exchange and the queue of  *)
(* its events, each trade before its order update, are the environment.        *)
EXTENDS Integers, Sequences, FiniteSetsExt

CONSTANTS
  RequestVolumes,    \* volumes of the requests
  HeldTd, HeldYd,    \* the long position of the account at the start
  MaxOffsetOrders    \* bound: orders sent
ASSUME OffsetAssumption ==
  RequestVolumes \subseteq Nat \ {0} /\ HeldTd \in Nat /\ HeldYd \in Nat /\ MaxOffsetOrders \in Nat

VARIABLES
  splitsToday,    \* the contract's exchange is SHFE or INE
  holding,        \* per side: td, yd and what is frozen of each
  holdingOrders,  \* active_orders_ of the holding
  toSend,         \* converted requests the caller has still to send
  unregistered,   \* the id sent last until update_order_request() was called
  account,        \* per side, the exchange's td and yd
  placed,         \* the exchange's orders by id
  events          \* what is on its way to the holding

converterVars == <<splitsToday, holding, holdingOrders>>
callerVars == <<toSend, unregistered>>
exchangeVars == <<account, placed, events>>
offsetVars == <<converterVars, callerVars, exchangeVars>>

Sides == {"LONG", "SHORT"}
\* The position an order in a direction closes.
Closes(direction) == IF direction = "LONG" THEN "SHORT" ELSE "LONG"
Lesser(a, b) == IF a < b THEN a ELSE b
Remaining(o) == IF o.live THEN o.volume - o.traded ELSE 0
\* What the orders of a book have still to close of a side, with an offset.
Closing(book, side, offset) ==
  LET ids == {i \in DOMAIN book : Closes(book[i].direction) = side /\ book[i].offset = offset} IN
  MapThenSumSet(LAMBDA i : Remaining(book[i]), ids)

NoHolding == [td |-> 0, yd |-> 0, tdFrozen |-> 0, ydFrozen |-> 0]

OffsetInit ==
  /\ splitsToday \in BOOLEAN
  /\ holding = [s \in Sides |-> NoHolding] /\ holdingOrders = <<>>
  /\ toSend = <<>> /\ unregistered = 0
  /\ account = [s \in Sides |-> IF s = "LONG" THEN [td |-> HeldTd, yd |-> HeldYd] ELSE [td |-> 0, yd |-> 0]]
  /\ placed = <<>>
  /\ events = <<[kind |-> "position", side |-> "LONG", td |-> HeldTd, yd |-> HeldYd]>>

-----------------------------------------------------------------------------
(* PositionHolding.                                                            *)
Capped(h) == [h EXCEPT !.tdFrozen = Lesser(@, h.td), !.ydFrozen = Lesser(@, h.yd)]

\* A CLOSE freezes today's position first and yesterday's with what exceeds it.
CalculateFrozen(book, hs) ==
  [s \in Sides |->
     LET either == Closing(book, s, "CLOSE")
         today == Closing(book, s, "CLOSETODAY") + either
         over == IF either > 0 /\ today > hs[s].td THEN today - hs[s].td ELSE 0 IN
     Capped([hs[s] EXCEPT !.tdFrozen = today - over,
                          !.ydFrozen = Closing(book, s, "CLOSEYESTERDAY") + over])]

UpdatePosition(e) == holding' = [holding EXCEPT ![e.side].td = e.td, ![e.side].yd = e.yd]

\* How a trade moves a side's today and yesterday volumes; used for the account
\* as well, as exchanges close today's position first where the code says so.
Closed(h, offset, v) ==
  CASE offset = "CLOSETODAY" -> [h EXCEPT !.td = @ - v]
    [] offset = "CLOSEYESTERDAY" \/ (offset = "CLOSE" /\ splitsToday) -> [h EXCEPT !.yd = @ - v]
    [] OTHER -> IF h.td >= v THEN [h EXCEPT !.td = @ - v] ELSE [h EXCEPT !.td = 0, !.yd = @ - (v - h.td)]
Traded(hs, o, v) ==
  IF o.offset = "OPEN" THEN [hs EXCEPT ![o.direction].td = @ + v]
  ELSE [hs EXCEPT ![Closes(o.direction)] = Closed(@, o.offset, v)]

UpdateTrade(e) ==
  LET after == Traded(holding, e.order, e.volume) IN holding' = [s \in Sides |-> Capped(after[s])]

UpdateOrder(id, o, isActive) ==
  /\ holdingOrders' = [i \in IF isActive THEN DOMAIN holdingOrders \cup {id} ELSE DOMAIN holdingOrders \ {id} |->
                         IF i = id THEN o ELSE holdingOrders[i]]
  /\ holding' = CalculateFrozen(holdingOrders', holding)

Req(offset, volume) == IF volume > 0 THEN <<[offset |-> offset, volume |-> volume]>> ELSE <<>>
TdAvailable(h) == h.td - h.tdFrozen
YdAvailable(h) == h.yd - h.ydFrozen
PosAvailable(h) == TdAvailable(h) + YdAvailable(h)

\* Mutant: today's frozen volume is not taken off.
ConvertShfeFrozen(h, v) ==
  LET td == Lesser(v, h.td) IN
  IF v > PosAvailable(h) THEN <<>> ELSE Req("CLOSETODAY", td) \o Req("CLOSEYESTERDAY", v - td)

\* convert_order_request_shfe, for a closing request.
ConvertShfe(h, v) ==
  LET td == Lesser(v, TdAvailable(h)) IN
  IF v > PosAvailable(h) THEN <<>> ELSE Req("CLOSETODAY", td) \o Req("CLOSEYESTERDAY", v - td)

ConvertLock(h, v) ==
  LET yd == Lesser(v, YdAvailable(h)) IN
  IF h.td > 0 THEN Req("OPEN", v)
  ELSE Req(IF splitsToday THEN "CLOSEYESTERDAY" ELSE "CLOSE", yd) \o Req("OPEN", v - yd)

ConvertNet(h, v) ==
  LET td == Lesser(v, TdAvailable(h))
      yd == Lesser(v - td, YdAvailable(h))
      pos == Lesser(v, PosAvailable(h)) IN
  IF splitsToday
  THEN Req("CLOSETODAY", td) \o Req("CLOSEYESTERDAY", yd) \o Req("OPEN", v - td - yd)
  ELSE Req("CLOSE", pos) \o Req("OPEN", v - pos)

-----------------------------------------------------------------------------
(* The caller: converts, sends what it got and registers each order in turn.   *)
ConvertOrderRequest(direction, v, mode) ==
  /\ toSend = <<>> /\ unregistered = 0
  /\ LET h == holding[Closes(direction)]
         reqs == CASE mode = "lock" -> ConvertLock(h, v)
                   [] mode = "net" -> ConvertNet(h, v)
                   [] OTHER -> ConvertShfe(h, v) IN
       /\ mode = "split" => splitsToday
       /\ Len(placed) + Len(reqs) <= MaxOffsetOrders
       /\ toSend' = [i \in 1..Len(reqs) |-> [direction |-> direction, offset |-> reqs[i].offset,
                                             volume |-> reqs[i].volume, traded |-> 0, live |-> TRUE]]
  /\ UNCHANGED <<converterVars, unregistered, exchangeVars>>

SendConverted ==
  /\ toSend # <<>> /\ unregistered = 0
  /\ placed' = Append(placed, Head(toSend)) /\ unregistered' = Len(placed')
  /\ toSend' = Tail(toSend) /\ UNCHANGED <<converterVars, account, events>>

\* update_order_request: the order counts as active, whatever became of it since.
UpdateOrderRequest ==
  /\ unregistered # 0 /\ unregistered' = 0
  /\ UpdateOrder(unregistered, [placed[unregistered] EXCEPT !.traded = 0, !.live = TRUE], TRUE)
  /\ UNCHANGED <<splitsToday, toSend, exchangeVars>>

-----------------------------------------------------------------------------
(* The exchange fills orders unit by unit or cancels them; the events arrive.  *)
OrderEventOf(id, o, isActive) == [kind |-> "order", id |-> id, order |-> o, active |-> isActive]

ExchangeFills(id) ==
  /\ Remaining(placed[id]) > 0
  /\ LET o == [placed[id] EXCEPT !.traded = @ + 1] IN
       /\ placed' = [placed EXCEPT ![id] = o]
       /\ account' = Traded(account, o, 1)
       /\ events' = events \o <<[kind |-> "trade", id |-> id, order |-> o, volume |-> 1],
                                OrderEventOf(id, o, Remaining(o) > 0)>>
  /\ UNCHANGED <<converterVars, callerVars>>

ExchangeCancels(id) ==
  /\ Remaining(placed[id]) > 0
  /\ LET o == [placed[id] EXCEPT !.live = FALSE] IN
       placed' = [placed EXCEPT ![id] = o] /\ events' = Append(events, OrderEventOf(id, o, FALSE))
  /\ UNCHANGED <<converterVars, callerVars, account>>

Deliver ==
  /\ events # <<>> /\ events' = Tail(events)
  /\ LET e == Head(events) IN
       \/ e.kind = "position" /\ UpdatePosition(e) /\ UNCHANGED holdingOrders
       \/ e.kind = "trade" /\ UpdateTrade(e) /\ UNCHANGED holdingOrders
       \/ e.kind = "order" /\ UpdateOrder(e.id, e.order, e.active)
  /\ UNCHANGED <<splitsToday, callerVars, account, placed>>

OffsetNext ==
  \/ \E direction \in Sides, v \in RequestVolumes, mode \in {"split", "lock", "net"} :
       ConvertOrderRequest(direction, v, mode)
  \/ SendConverted \/ UpdateOrderRequest \/ Deliver
  \/ \E id \in DOMAIN placed : ExchangeFills(id) \/ ExchangeCancels(id)

OffsetSpec == OffsetInit /\ [][OffsetNext]_offsetVars
-----------------------------------------------------------------------------
\* No close is ever sent for a position the account does not have, in whatever
\* order fills, cancels, registrations and new requests meet: the orders open at
\* the exchange never ask for more of today's or yesterday's volume than is there.
\* And once nothing is on its way the holding is the account.
ClosesCovered ==
  /\ \A s \in Sides :
       LET td == Closing(placed, s, "CLOSETODAY")  yd == Closing(placed, s, "CLOSEYESTERDAY") IN
       /\ td <= account[s].td /\ yd <= account[s].yd
       /\ td + yd + Closing(placed, s, "CLOSE") <= account[s].td + account[s].yd
  /\ events = <<>> =>
       \A s \in Sides : [td |-> holding[s].td, yd |-> holding[s].yd] = account[s]
============================================================================
