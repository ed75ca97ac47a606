-------------------------- MODULE MainEngineProofs --------------------------
(* Safety of MainEngine, for any number of orders, any volume, any flow limit  *)
(* and any number of stops, restarts and reconnections.                        *)
EXTENDS MainEngine, SpotGatewayProofs

(* Of the gateway, closed and reconnected at any time, only the types matter,  *)
(* which the events it produces rest on, and that an entry of its cache shows  *)
(* no more volume than was reported for it and stored without a report.        *)
GatewayTypes ==
  /\ orders \in [Keys -> OrderData \cup {NoOrder}]
  /\ stream \in Seq(Reports)
  /\ exch \in [Ids -> [status : ExchStatus, traded : 0..MaxVolume]]
  /\ toLoad \subseteq [id : Ids, status : Open, traded : 0..MaxVolume]
  /\ base \in [Keys -> Nat] /\ emitted \in [Keys -> Nat]
CacheExplained == \A k \in Keys : orders[k].traded <= base[k] + emitted[k]
GatewayInv == GatewayTypes /\ CacheExplained
CacheTold == \A k \in Keys : orders[k] # NoOrder => told[k] = orders[k]

(* The worker runs between start() and the join in stop(), and holds an event  *)
(* exactly while it is busy.                                                   *)
Threads ==
  /\ owner = "free" => worker \in (IF active THEN {"loop", "busy"} ELSE {"off"})
  /\ owner = "joining" => ~active
  /\ worker = "busy" <=> current # NoEvent

ActiveIsFilter ==
  \A k \in Keys : omsActive[k] = (IF IsActive(omsOrders[k]) THEN omsOrders[k] ELSE NoOrder)

(* Counted along the line of events, the trades of an order end at what the    *)
(* gateway emitted, and an order event never shows more volume than the trades *)
(* up to its place explain.  seen[i] is the volume traded up to place i.       *)
VolumeOf(e, k) ==
  IF e \notin {NoEvent, TimerEvent} /\ e.type = "eTrade" /\ e.key = k THEN e.data ELSE 0
Explains(seen, k) ==
  /\ seen \in [0..Len(queue) -> Nat]
  /\ seen[0] = tradesSeen[k] + VolumeOf(current, k)
  /\ \A i \in 1..Len(queue) : seen[i] = seen[i - 1] + VolumeOf(queue[i], k)
  /\ seen[Len(queue)] = emitted[k]
  /\ \A i \in 0..Len(queue) :
       IsOrderOf(At(i), k) => At(i).data.traded <= base[k] + seen[i]
LineOf(k) ==
  /\ Latest(k, told[k])
  /\ \E seen : Explains(seen, k)
  /\ omsOrders[k].traded <= base[k] + tradesSeen[k]
LineInv == \A k \in Keys : LineOf(k)

MainInv ==
  /\ GatewayInv
  /\ CacheTold
  /\ MainTypeOK
  /\ Threads
  /\ ActiveIsFilter
  /\ LineInv

---------------------------------------------------------------------------
(* Events *)

\* An event has the shape of its type, and neither the timer's nor none.
LEMMA EventFacts ==
  /\ \A e \in Event : /\ e \notin {NoEvent, TimerEvent} /\ e.key \in Keys
                      /\ e.type = "eTrade" => e.data \in 1..MaxVolume
                      /\ e.type = "eOrder" => e.data \in OrderData
                      /\ e.type \in {"eTrade", "eOrder"}
  /\ \A k \in Keys, v \in 1..MaxVolume : TradeEvent(k, v) \in Event
  /\ \A k \in Keys, o \in OrderData : OrderEvent(k, o) \in Event
  BY EventAssumption DEF Event, TradeEvent, OrderEvent

\* The volume of an event is a number.
LEMMA VolumeType ==
  ASSUME NEW e \in Event \cup {TimerEvent, NoEvent}, NEW k
  PROVE  VolumeOf(e, k) \in Nat
  BY EventFacts, MaxVolumeAssumption DEF VolumeOf

\* What the gateway has cached is bounded by what an order can hold.
LEMMA OrderVolume ==
  /\ MaxVolume \in Nat
  /\ \A o \in OrderData \cup {NoOrder} : o.traded \in 0..MaxVolume
  BY MaxVolumeAssumption DEF OrderData, NoOrder

\* A cached order that is not there has no volume and is not active.
LEMMA NoOrderFacts == NoOrder.traded = 0 /\ ~IsActive(NoOrder) /\ NoOrder \notin OrderData
  BY DEF NoOrder, IsActive, ActiveStatus, OrderData, Status

---------------------------------------------------------------------------
(* The line of events, one order at a time *)

LineTypes ==
  /\ queue \in Seq(Event \cup {TimerEvent})
  /\ current \in Event \cup {TimerEvent, NoEvent}

\* What is put behind the line explains itself when its first event is the trade
\* it counts, and its order event, if any, the last and what is now cached.
LEMMA LineGrows ==
  ASSUME LineTypes, NEW k \in Keys, NEW es \in Seq(Event \cup {TimerEvent}),
         queue' = queue \o es, UNCHANGED <<current, omsOrders, tradesSeen>>,
         {base[k], base'[k], emitted[k], emitted'[k]} \subseteq Nat, base'[k] >= base[k],
         es = <<>> => emitted'[k] = emitted[k],
         \A i \in 1..Len(es) :
           emitted'[k] = VolumeOf(es[i], k) + (IF i = 1 THEN emitted[k] ELSE emitted'[k]),
         \A i \in 1..Len(es) : IsOrderOf(es[i], k) =>
           es[i].data.traded <= base'[k] + emitted'[k],
         \/ told'[k] = told[k] /\ \A i \in 1..Len(es) : ~IsOrderOf(es[i], k)
         \/ /\ es # <<>> /\ IsOrderOf(es[Len(es)], k)
            /\ es[Len(es)].data = told'[k]
  PROVE  /\ (\E seen : Explains(seen, k)) => (\E seen : Explains(seen, k)')
         /\ Latest(k, told[k]) => Latest(k, told[k])'
<1> DEFINE n == Len(queue)
           m == Len(es)
<1>1. /\ n \in Nat /\ m \in Nat /\ Len(queue') = n + m
      /\ \A i \in 1..n : queue'[i] = queue[i]
      /\ \A i \in n + 1 .. n + m : i - n \in 1..m /\ queue'[i] = es[i - n]
  BY DEF LineTypes
<1>2. /\ \A i \in 0..n : At(i)' = At(i)
      /\ \A i \in n + 1 .. n + m : At(i)' = es[i - n]
  BY <1>1 DEF At
<1>3. ASSUME NEW i \in 1..m
      PROVE  VolumeOf(es[i], k) \in Nat
  <2>1. es[i] \in Event \cup {TimerEvent}
    OBVIOUS
  <2> QED BY <2>1, VolumeType
<1>4. ASSUME NEW seen, Explains(seen, k)
      PROVE  \E s : Explains(s, k)'
  <2> DEFINE s == [i \in 0..Len(queue') |-> IF i <= n THEN seen[i] ELSE emitted'[k]]
  <2>1. s \in [0..Len(queue') -> Nat]
    BY <1>1, <1>4 DEF Explains
  <2>2. s[0] = seen[0] /\ s[0] = tradesSeen'[k] + VolumeOf(current', k)
    BY <1>1, <1>4 DEF Explains
  <2>3. ASSUME NEW i \in 1..Len(queue')
        PROVE  s[i] = s[i - 1] + VolumeOf(queue'[i], k)
    <3>1. CASE i <= n
      <4>1. i \in 1..n /\ i - 1 \in 0..n /\ i - 1 <= n
        BY <1>1, <3>1
      <4>2. s[i] = seen[i] /\ s[i - 1] = seen[i - 1]
        BY <1>1, <3>1, <4>1
      <4>3. seen[i] = seen[i - 1] + VolumeOf(queue[i], k)
        BY <1>4, <4>1 DEF Explains
      <4> QED BY <1>1, <4>1, <4>2, <4>3
    <3>2. CASE i = n + 1
      <4>1. s[i] = emitted'[k] /\ s[i - 1] = seen[n] /\ 1 \in 1..m /\ queue'[i] = es[1]
        BY <1>1, <3>2
      <4>2. emitted'[k] = VolumeOf(es[1], k) + emitted[k] /\ VolumeOf(es[1], k) \in Nat
        BY <1>3, <4>1
      <4> QED BY <1>4, <4>1, <4>2 DEF Explains
    <3>3. CASE i > n + 1
      <4>1. i \in 0..Len(queue') /\ i - 1 \in 0..Len(queue') /\ ~(i <= n) /\ ~(i - 1 <= n)
            /\ i - n # 1 /\ i \in n + 1 .. n + m
        BY <1>1, <3>3, SMTT(60)
      <4>a. s[i] = emitted'[k] /\ s[i - 1] = emitted'[k]
            /\ i - n \in 1..m /\ queue'[i] = es[i - n]
        BY <1>1, <4>1
      <4>2. emitted'[k] = VolumeOf(es[i - n], k) + emitted'[k] /\ VolumeOf(es[i - n], k) \in Nat
        BY <1>3, <4>1, <4>a
      <4> QED BY <4>a, <4>2
    <3> QED BY <1>1, <3>1, <3>2, <3>3
  <2>4. s[Len(queue')] = emitted'[k]
    <3>1. CASE m = 0
      BY <1>1, <1>4, <3>1 DEF Explains
    <3>2. CASE m # 0
      BY <1>1, <3>2
    <3> QED BY <3>1, <3>2
  <2>5. ASSUME NEW i \in 0..Len(queue'), IsOrderOf(At(i), k)'
        PROVE  At(i)'.data.traded <= base'[k] + s[i]
    <3>1. CASE i <= n
      <4>1. i \in 0..n /\ At(i)' = At(i) /\ s[i] = seen[i] /\ seen[i] \in Nat
        BY <1>1, <1>2, <1>4, <3>1 DEF Explains
      <4>2. IsOrderOf(At(i), k) BY <2>5, <4>1 DEF IsOrderOf
      <4>3. At(i).data.traded <= base[k] + seen[i]
        BY <1>4, <4>1, <4>2 DEF Explains
      <4>4. At(i) \in Event
        BY <4>1, <4>2, <1>1 DEF LineTypes, At, IsOrderOf
      <4>5. At(i).data.traded \in Nat
        BY <4>2, <4>4, EventFacts, OrderVolume DEF IsOrderOf
      <4> QED BY <4>1, <4>3, <4>5
    <3>2. CASE ~(i <= n)
      <4>1. i - n \in 1..m /\ At(i)' = es[i - n] /\ s[i] = emitted'[k]
        BY <1>1, <1>2, <3>2
      <4>2. IsOrderOf(es[i - n], k) BY <2>5, <4>1 DEF IsOrderOf
      <4> QED BY <4>1, <4>2
    <3> QED BY <3>1, <3>2
  <2> HIDE DEF s
  <2> QED BY <2>1, <2>2, <2>3, <2>4, <2>5 DEF Explains
<1>5. ASSUME Latest(k, told[k])
      PROVE  Latest(k, told[k])'
  <2>1. CASE told'[k] = told[k] /\ \A i \in 1..m : ~IsOrderOf(es[i], k)
    <3>1. Pending(k)' = Pending(k)
      <4>1. \A i \in 0..n : IsOrderOf(At(i), k)' <=> IsOrderOf(At(i), k)
        BY <1>2 DEF IsOrderOf
      <4>2. \A i \in n + 1 .. n + m : ~IsOrderOf(At(i), k)'
        BY <1>1, <1>2, <2>1 DEF IsOrderOf
      <4> QED BY <1>1, <4>1, <4>2 DEF Pending
    <3>2. Pending(k) \subseteq 0..n BY DEF Pending
    <3> QED BY <1>2, <1>5, <2>1, <3>1, <3>2 DEF Latest
  <2>2. CASE es # <<>> /\ IsOrderOf(es[Len(es)], k) /\ es[Len(es)].data = told'[k]
    <3>1. PICK p \in n + 1 .. n + m : p = n + m
      BY <1>1, <2>2
    <3>2. At(p)' = es[m]
      BY <1>1, <1>2, <3>1
    <3>3. p \in Pending(k)'
      BY <1>1, <2>2, <3>1, <3>2 DEF Pending, IsOrderOf
    <3>4. \A j \in Pending(k)' : j <= p
      BY <1>1, <3>1 DEF Pending
    <3> QED BY <2>2, <3>2, <3>3, <3>4 DEF Latest
  <2> QED BY <2>1, <2>2
<1> QED BY <1>4, <1>5

\* Taking the first event off the queue moves the whole line up by one place.
LEMMA LineTaken ==
  ASSUME LineTypes, NEW k \in Keys,
         current = NoEvent, queue # <<>>, current' = Head(queue), queue' = Tail(queue),
         tradesSeen[k] \in Nat,
         UNCHANGED <<omsOrders, tradesSeen, base, emitted, told>>
  PROVE  /\ (\E seen : Explains(seen, k)) => (\E seen : Explains(seen, k)')
         /\ Latest(k, told[k]) => Latest(k, told[k])'
<1> DEFINE n == Len(queue)
<1>1. /\ n \in Nat /\ n >= 1 /\ Len(queue') = n - 1 /\ current' = queue[1]
      /\ \A i \in 1..n - 1 : queue'[i] = queue[i + 1]
  BY DEF LineTypes
<1>2. \A i \in 0..n - 1 : At(i)' = At(i + 1)
  <2> SUFFICES ASSUME NEW i \in 0..n - 1 PROVE At(i)' = At(i + 1)
    OBVIOUS
  <2>1. CASE i = 0
    BY <1>1, <2>1 DEF At
  <2>2. CASE i # 0
    <3>1. i \in 1..n - 1 /\ i + 1 # 0 BY <1>1, <2>2
    <3> QED BY <1>1, <2>2, <3>1 DEF At
  <2> QED BY <2>1, <2>2
<1>3. ASSUME NEW seen, Explains(seen, k)
      PROVE  \E s : Explains(s, k)'
  <2> DEFINE s == [i \in 0..Len(queue') |-> seen[i + 1]]
  <2>1. s \in [0..Len(queue') -> Nat]
    BY <1>1, <1>3 DEF Explains
  <2>2. s[0] = tradesSeen'[k] + VolumeOf(current', k)
    <3>1. VolumeOf(current, k) = 0 BY DEF VolumeOf
    <3>2. seen[1] = seen[0] + VolumeOf(queue[1], k) /\ seen[0] = tradesSeen[k] + 0
      BY <1>1, <1>3, <3>1 DEF Explains
    <3>3. seen[0] \in Nat /\ seen[1] \in Nat /\ VolumeOf(queue[1], k) \in Nat
      BY <1>1, <1>3, VolumeType DEF Explains, LineTypes
    <3> QED BY <1>1, <3>2, <3>3
  <2>3. ASSUME NEW i \in 1..Len(queue')
        PROVE  s[i] = s[i - 1] + VolumeOf(queue'[i], k)
    <3>1. i + 1 \in 1..n /\ i \in 0..Len(queue') /\ i - 1 \in 0..Len(queue')
          /\ (i - 1) + 1 = i /\ (i + 1) - 1 = i /\ queue'[i] = queue[i + 1]
      BY <1>1
    <3>2. seen[i + 1] = seen[(i + 1) - 1] + VolumeOf(queue[i + 1], k)
      BY <1>3, <3>1 DEF Explains
    <3> QED BY <3>1, <3>2
  <2>4. s[Len(queue')] = emitted'[k]
    <3>1. Len(queue') \in 0..Len(queue') /\ Len(queue') + 1 = n
      BY <1>1
    <3> QED BY <1>3, <3>1 DEF Explains
  <2>5. ASSUME NEW i \in 0..Len(queue'), IsOrderOf(At(i), k)'
        PROVE  At(i)'.data.traded <= base'[k] + s[i]
    <3>1. i + 1 \in 0..n /\ At(i)' = At(i + 1) /\ s[i] = seen[i + 1]
      BY <1>1, <1>2
    <3>2. IsOrderOf(At(i + 1), k) BY <2>5, <3>1 DEF IsOrderOf
    <3> QED BY <1>3, <3>1, <3>2 DEF Explains
  <2> HIDE DEF s
  <2> QED BY <2>1, <2>2, <2>3, <2>4, <2>5 DEF Explains
<1>4. ASSUME Latest(k, told[k])
      PROVE  Latest(k, told[k])'
  <2>1. \A i \in 0..n - 1 : i \in Pending(k)' <=> i + 1 \in Pending(k)
    BY <1>1, <1>2 DEF Pending, IsOrderOf
  <2>2. 0 \notin Pending(k) /\ Pending(k) \subseteq 0..n /\ Pending(k)' \subseteq 0..n - 1
    BY <1>1 DEF Pending, At, IsOrderOf
  <2>3. CASE Pending(k) = {}
    BY <1>4, <2>1, <2>2, <2>3 DEF Latest
  <2>4. CASE Pending(k) # {}
    <3>1. PICK i \in Pending(k) : told[k] = At(i).data /\ \A j \in Pending(k) : j <= i
      BY <1>4, <2>4 DEF Latest
    <3>2. i \in 1..n /\ i - 1 \in 0..n - 1 /\ (i - 1) + 1 = i
      BY <1>1, <2>2, <3>1
    <3>3. i - 1 \in Pending(k)' /\ At(i - 1)' = At(i)
      BY <1>2, <2>1, <3>1, <3>2
    <3>4. ASSUME NEW j \in Pending(k)' PROVE j <= i - 1
      <4>1. j \in 0..n - 1 /\ j + 1 \in Pending(k) BY <2>1, <2>2
      <4>2. j + 1 <= i BY <3>1, <4>1
      <4> QED BY <1>1, <3>2, <4>1, <4>2
    <3> QED BY <3>1, <3>3, <3>4 DEF Latest
  <2> QED BY <2>3, <2>4
<1> QED BY <1>3, <1>4

\* Applying the event the worker holds to the OMS counts its trade as seen, and
\* shows no more volume than the trades seen explain.
LEMMA LineHandled ==
  ASSUME LineTypes, NEW k \in Keys,
         current # NoEvent, current' = NoEvent, queue' = queue,
         omsOrders'[k] = (IF IsOrderOf(current, k) THEN current.data ELSE omsOrders[k]),
         tradesSeen[k] \in Nat, base[k] \in Nat,
         tradesSeen'[k] = tradesSeen[k] + VolumeOf(current, k),
         UNCHANGED <<base, emitted, told>>
  PROVE  /\ \A seen : Explains(seen, k) => Explains(seen, k)'
         /\ Latest(k, told[k]) => Latest(k, told[k])'
         /\ (\E seen : Explains(seen, k)) /\ omsOrders[k].traded <= base[k] + tradesSeen[k]
            /\ omsOrders[k].traded \in Nat
              => omsOrders'[k].traded <= base[k] + tradesSeen'[k]
<1>1. \A i \in 1..Len(queue) : At(i)' = At(i) /\ i # 0
  BY DEF At, LineTypes
<1>2. VolumeOf(current, k) \in Nat /\ VolumeOf(current', k) = 0 /\ Len(queue) \in Nat
  BY VolumeType DEF LineTypes, VolumeOf
<1>3. ~IsOrderOf(At(0), k)' /\ At(0) = current
  BY DEF At, IsOrderOf
<1>4. ASSUME NEW seen, Explains(seen, k)
      PROVE  Explains(seen, k)'
  <2>1. seen[0] = tradesSeen'[k] + VolumeOf(current', k)
    BY <1>2, <1>4 DEF Explains
  <2>2. \A i \in 0..Len(queue) : IsOrderOf(At(i), k)' =>
          IsOrderOf(At(i), k) /\ At(i)' = At(i)
    BY <1>1, <1>3 DEF IsOrderOf
  <2> QED BY <1>4, <2>1, <2>2 DEF Explains
<1>5. ASSUME Latest(k, told[k])
      PROVE  Latest(k, told[k])'
  <2>1. Pending(k)' = Pending(k) \ {0}
    BY <1>1, <1>2, <1>3 DEF Pending, IsOrderOf
  <2>2. 0 \in Pending(k) <=> IsOrderOf(current, k)
    BY <1>2, <1>3 DEF Pending
  <2>3. Pending(k) \subseteq 0..Len(queue) BY DEF Pending
  <2>4. CASE Pending(k) = {}
    BY <1>5, <2>1, <2>2, <2>4 DEF Latest
  <2>5. CASE Pending(k) # {}
    <3>1. PICK i \in Pending(k) : told[k] = At(i).data /\ \A j \in Pending(k) : j <= i
      BY <1>5, <2>5 DEF Latest
    <3>2. CASE i = 0
      <4>1. Pending(k) = {0} BY <1>2, <2>3, <3>1, <3>2
      <4> QED BY <1>3, <2>1, <2>2, <3>1, <3>2, <4>1 DEF Latest
    <3>3. CASE i # 0
      <4>1. i \in Pending(k)' /\ At(i)' = At(i)
        BY <1>1, <1>2, <2>1, <2>3, <3>1, <3>3
      <4> QED BY <2>1, <3>1, <4>1 DEF Latest
    <3> QED BY <3>2, <3>3
  <2> QED BY <2>4, <2>5
<1>6. ASSUME NEW seen, Explains(seen, k), omsOrders[k].traded <= base[k] + tradesSeen[k],
             omsOrders[k].traded \in Nat
      PROVE  omsOrders'[k].traded <= base[k] + tradesSeen'[k]
  <2>1. CASE IsOrderOf(current, k)
    <3>1. 0 \in 0..Len(queue) BY <1>2
    <3>2. current.data.traded <= base[k] + seen[0]
      BY <1>3, <1>6, <2>1, <3>1 DEF Explains
    <3> QED BY <1>6, <2>1, <3>2 DEF Explains
  <2>2. CASE ~IsOrderOf(current, k)
    BY <1>2, <1>6, <2>2
  <2> QED BY <2>1, <2>2
<1> QED BY <1>4, <1>5, <1>6

---------------------------------------------------------------------------
(* The callbacks of one update *)

\* The callbacks of one update: the trade, if any, is the first event and counts
\* the volume emitted; the order, if it was accepted, is the last.
LEMMA EventsOfFacts ==
  ASSUME orders \in [Keys -> OrderData \cup {NoOrder}], NEW k \in Keys, NEW o \in OrderData
  PROVE  /\ TradeVolume(k, o) \in Nat
         /\ EventsOf(k, o) \in Seq(Event)
         /\ \A i \in 1..Len(EventsOf(k, o)) :
              /\ EventsOf(k, o)[i].key = k
              /\ VolumeOf(EventsOf(k, o)[i], k) = (IF i = 1 THEN TradeVolume(k, o) ELSE 0)
              /\ IsOrderOf(EventsOf(k, o)[i], k) => EventsOf(k, o)[i].data = o
              /\ ~Accepts(k, o) => ~IsOrderOf(EventsOf(k, o)[i], k)
         /\ EventsOf(k, o) = <<>> => TradeVolume(k, o) = 0
         /\ Accepts(k, o) => /\ EventsOf(k, o) # <<>>
                             /\ IsOrderOf(EventsOf(k, o)[Len(EventsOf(k, o))], k)
                             /\ EventsOf(k, o)[Len(EventsOf(k, o))].data = o
<1> DEFINE v == TradeVolume(k, o)
           t == TradeEvent(k, v)
           d == OrderEvent(k, o)
           es == EventsOf(k, o)
<1>1. v \in 0..MaxVolume
  BY OrderVolume DEF TradeVolume
<1>2. /\ d \in Event /\ d.key = k /\ d.data = o /\ IsOrderOf(d, k) /\ VolumeOf(d, k) = 0
      /\ v > 0 => t \in Event /\ t.key = k /\ ~IsOrderOf(t, k) /\ VolumeOf(t, k) = v
  <2>1. d \in Event /\ (v > 0 => t \in Event)
    BY <1>1, EventFacts, OrderVolume
  <2> QED BY <2>1, EventFacts DEF IsOrderOf, VolumeOf, TradeEvent, OrderEvent
<1>3. es = (IF v > 0 THEN <<t>> ELSE <<>>) \o (IF Accepts(k, o) THEN <<d>> ELSE <<>>)
  BY DEF EventsOf
<1> DEFINE Good(s) ==
      /\ s \in Seq(Event)
      /\ \A i \in 1..Len(s) : /\ s[i].key = k
                              /\ VolumeOf(s[i], k) = (IF i = 1 THEN v ELSE 0)
                              /\ IsOrderOf(s[i], k) => s[i].data = o
                              /\ ~Accepts(k, o) => ~IsOrderOf(s[i], k)
      /\ s = <<>> => v = 0
      /\ Accepts(k, o) => s # <<>> /\ IsOrderOf(s[Len(s)], k) /\ s[Len(s)].data = o
<1> HIDE DEF v, t, d, es
<1>4. Good(es)
  <2>1. CASE v > 0 /\ Accepts(k, o)
    <3>1. es = <<t>> \o <<d>> /\ <<t>> \in Seq(Event) /\ <<d>> \in Seq(Event)
      BY <1>2, <1>3, <2>1
    <3>2. es \in Seq(Event) /\ Len(es) = 2 /\ es[1] = t /\ es[2] = d
      BY <3>1
    <3>3. \A i \in 1..Len(es) : \/ i = 1 /\ es[i] = t
                                \/ i = 2 /\ i # 1 /\ es[i] = d
      BY <3>2
    <3>4. es # <<>>
      <4>1. Len(<<>>) = 0 OBVIOUS
      <4> QED BY <3>2, <4>1, SMTT(60)
    <3> QED BY <1>2, <2>1, <3>2, <3>3, <3>4
  <2>2. CASE v > 0 /\ ~Accepts(k, o)
    <3>1. es = <<t>> BY <1>2, <1>3, <2>2
    <3>2. es \in Seq(Event) /\ Len(es) = 1 /\ es[1] = t
      BY <1>2, <2>2, <3>1
    <3>3. \A i \in 1..Len(es) : i = 1 /\ es[i] = t BY <3>2
    <3> QED BY <1>2, <2>2, <3>1, <3>2, <3>3
  <2>3. CASE ~(v > 0) /\ Accepts(k, o)
    <3>1. es = <<d>> BY <1>2, <1>3, <2>3
    <3>2. es \in Seq(Event) /\ Len(es) = 1 /\ es[1] = d
      BY <1>2, <2>3, <3>1
    <3>3. v = 0 BY <1>1, <2>3, OrderVolume
    <3>4. \A i \in 1..Len(es) : i = 1 /\ es[i] = d BY <3>2
    <3> QED BY <1>2, <2>3, <3>1, <3>2, <3>3, <3>4
  <2>4. CASE ~(v > 0) /\ ~Accepts(k, o)
    <3>1. es = <<>> BY <1>3, <2>4
    <3>2. v = 0 BY <1>1, <2>4, OrderVolume
    <3> QED BY <2>4, <3>1, <3>2
  <2> QED BY <2>1, <2>2, <2>3, <2>4
<1> QED BY <1>1, <1>4, OrderVolume DEF es, v

---------------------------------------------------------------------------
(* The gateway under MainEngine *)

\* A step that leaves the cache and the channels alone keeps the gateway typed.
LEMMA GatewayFrame ==
  ASSUME GatewayInv, UNCHANGED <<orders, stream, exch, toLoad, base, emitted>>
  PROVE  GatewayInv'
BY DEF GatewayInv, GatewayTypes, CacheExplained

\* So does a step that changes the channels only, into what they can hold.
LEMMA GatewayChannels ==
  ASSUME GatewayInv, UNCHANGED <<orders, base, emitted>>,
         stream' \in Seq(Reports),
         exch' \in [Ids -> [status : ExchStatus, traded : 0..MaxVolume]],
         toLoad' \subseteq [id : Ids, status : Open, traded : 0..MaxVolume]
  PROVE  GatewayInv'
BY DEF GatewayInv, GatewayTypes, CacheExplained

\* The exchange moves an order and reports it, or not.
LEMMA ExchangeMoved ==
  ASSUME GatewayInv, NEW r \in Ids, NEW o \in [status : Open \cup Closed, traded : 0..MaxVolume],
         ExchangeMoves(r, o)
  PROVE  GatewayInv'
<1>1. Report(r, o) \in Reports
  BY DEF Report, Reports
<1>2. stream' \in Seq(Reports)
  <2>1. stream' = stream \/ stream' = Append(stream, Report(r, o))
    BY DEF ExchangeMoves
  <2>2. stream \in Seq(Reports) BY DEF GatewayInv, GatewayTypes
  <2> QED BY <1>1, <2>1, <2>2
<1>3. exch' \in [Ids -> [status : ExchStatus, traded : 0..MaxVolume]]
  BY DEF ExchangeMoves, GatewayInv, GatewayTypes, ExchStatus
<1>4. /\ UNCHANGED <<orders, base, emitted, toLoad>>
      /\ toLoad' \subseteq [id : Ids, status : Open, traded : 0..MaxVolume]
  BY DEF ExchangeMoves, GatewayInv, GatewayTypes, cacheVars
<1> QED BY <1>2, <1>3, <1>4, GatewayChannels

LEMMA ExchangeTyped ==
  ASSUME GatewayInv, NEW r \in Ids, ExchangeNext(r) \/ CancelOrder(r)
  PROVE  GatewayInv'
<1>1. /\ MaxVolume \in Nat
      /\ exch[r].status \in ExchStatus /\ exch[r].traded \in 0..MaxVolume
      /\ exch[r] = [status |-> exch[r].status, traded |-> exch[r].traded]
  BY MaxVolumeAssumption DEF GatewayInv, GatewayTypes
<1>2. CASE ExchangeAccept(r)
  <2>1. [status |-> "NEW", traded |-> 0] \in [status : Open \cup Closed, traded : 0..MaxVolume]
    BY <1>1 DEF Open
  <2> QED BY <1>2, <2>1, ExchangeMoved DEF ExchangeAccept
<1>3. CASE ExchangeRefuse(r)
  <2>1. exch' \in [Ids -> [status : ExchStatus, traded : 0..MaxVolume]]
    BY <1>1, <1>3 DEF ExchangeRefuse, GatewayInv, GatewayTypes, ExchStatus
  <2>2. UNCHANGED <<orders, base, emitted, toLoad, stream>>
    BY <1>3 DEF ExchangeRefuse, cacheVars
  <2>3. /\ stream' \in Seq(Reports)
        /\ toLoad' \subseteq [id : Ids, status : Open, traded : 0..MaxVolume]
    BY <2>2 DEF GatewayInv, GatewayTypes
  <2> QED BY <2>1, <2>2, <2>3, GatewayChannels
<1>4. CASE ExchangeFill(r)
  <2>1. PICK t \in exch[r].traded + 1 .. MaxVolume :
          ExchangeMoves(r, [status |-> IF t = MaxVolume THEN "FILLED" ELSE "PARTIALLY_FILLED",
                            traded |-> t])
    BY <1>4 DEF ExchangeFill
  <2>2. [status |-> IF t = MaxVolume THEN "FILLED" ELSE "PARTIALLY_FILLED", traded |-> t]
          \in [status : Open \cup Closed, traded : 0..MaxVolume]
    BY <1>1 DEF Open, Closed
  <2> QED BY <2>1, <2>2, ExchangeMoved
<1>5. CASE ExchangeExpire(r) \/ CancelOrder(r)
  <2>1. /\ [exch[r] EXCEPT !.status = "EXPIRED"]
             \in [status : Open \cup Closed, traded : 0..MaxVolume]
        /\ [exch[r] EXCEPT !.status = "CANCELED"]
             \in [status : Open \cup Closed, traded : 0..MaxVolume]
    BY <1>1 DEF Closed
  <2> QED BY <1>5, <2>1, ExchangeMoved DEF ExchangeExpire, CancelOrder
<1> QED BY <1>2, <1>3, <1>4, <1>5 DEF ExchangeNext

\* The steps of connect() other than a load, and a request that is sent.
LEMMA CallsTyped ==
  ASSUME GatewayInv, QueryOpenOrders \/ StartUserStream \/ \E r \in Ids : SendOrder(r)
  PROVE  GatewayInv'
<1>1. CASE QueryOpenOrders
  <2>1. /\ UNCHANGED <<orders, base, emitted, stream, exch>>
        /\ \/ toLoad' = {}
           \/ toLoad' = {Report(r, exch[r]) : r \in {r \in Ids : exch[r].status \in Open}}
    BY <1>1 DEF QueryOpenOrders, cacheVars
  <2>2. toLoad' \subseteq [id : Ids, status : Open, traded : 0..MaxVolume]
    BY <2>1 DEF GatewayInv, GatewayTypes, Report
  <2>3. stream' \in Seq(Reports) /\ exch' \in [Ids -> [status : ExchStatus, traded : 0..MaxVolume]]
    BY <2>1 DEF GatewayInv, GatewayTypes
  <2> QED BY <2>1, <2>2, <2>3, GatewayChannels
<1>2. CASE StartUserStream
  <2>1. /\ UNCHANGED <<orders, base, emitted, toLoad, exch>>
        /\ stream' = <<>> \/ stream' = stream
    BY <1>2 DEF StartUserStream, InFlightIsLost, cacheVars
  <2>2. /\ exch' \in [Ids -> [status : ExchStatus, traded : 0..MaxVolume]]
        /\ toLoad' \subseteq [id : Ids, status : Open, traded : 0..MaxVolume]
    BY <2>1 DEF GatewayInv, GatewayTypes
  <2>3. stream' \in Seq(Reports)
    <3>1. stream \in Seq(Reports) /\ <<>> \in Seq(Reports)
      BY DEF GatewayInv, GatewayTypes
    <3> QED BY <2>1, <3>1
  <2> QED BY <2>1, <2>2, <2>3, GatewayChannels
<1>3. CASE \E r \in Ids : SendOrder(r)
  <2>1. PICK r \in Ids : SendOrder(r)
    BY <1>3
  <2>2. UNCHANGED <<orders, base, emitted, toLoad, stream>>
    BY <2>1 DEF SendOrder, cacheVars
  <2>3. /\ exch' \in [Ids -> [status : ExchStatus, traded : 0..MaxVolume]]
        /\ stream' \in Seq(Reports)
        /\ toLoad' \subseteq [id : Ids, status : Open, traded : 0..MaxVolume]
    BY <2>1, <2>2, SMTT(60) DEF SendOrder, GatewayInv, GatewayTypes, ExchStatus
  <2> QED BY <2>2, <2>3, GatewayChannels
<1> QED BY <1>1, <1>2, <1>3

\* What one entry and its history become when it is stored without a trade.
LEMMA UnexplainedFacts ==
  ASSUME NEW k, NEW o, o.traded \in Nat, base[k] \in Nat, emitted[k] \in Nat
  PROVE  /\ Unexplained(k, o) \in Nat /\ Unexplained(k, o) >= base[k]
         /\ o.traded <= Unexplained(k, o) + emitted[k]
BY DEF Unexplained

\* process_order_update keeps the entry explained by what was reported for it.
LEMMA UpdateExplained ==
  ASSUME GatewayInv, NEW k \in Keys, NEW o \in OrderData, ProcessOrderUpdate(k, o)
  PROVE  /\ orders' \in [Keys -> OrderData \cup {NoOrder}]
         /\ base' \in [Keys -> Nat] /\ emitted' \in [Keys -> Nat]
         /\ \A q \in Keys \ {k} : /\ orders'[q] = orders[q]
                                  /\ base'[q] = base[q] /\ emitted'[q] = emitted[q]
         /\ base'[k] >= base[k] /\ emitted'[k] = emitted[k] + TradeVolume(k, o)
         /\ Accepts(k, o) => orders'[k] = o
         /\ ~Accepts(k, o) => orders'[k] = orders[k] /\ orders[k] # NoOrder
         /\ CacheExplained'
<1>1. /\ orders \in [Keys -> OrderData \cup {NoOrder}]
      /\ base \in [Keys -> Nat] /\ emitted \in [Keys -> Nat]
      /\ o.traded \in Nat /\ TradeVolume(k, o) \in Nat
  BY EventsOfFacts, OrderVolume DEF GatewayInv, GatewayTypes
<1>2. /\ Accepts(k, o) => orders' = [orders EXCEPT ![k] = o]
      /\ ~Accepts(k, o) => orders' = orders /\ ~IsNew(k)
  BY <1>1, UpdateOutcome
<1>3. emitted' = [emitted EXCEPT ![k] = emitted[k] + TradeVolume(k, o)]
  BY DEF ProcessOrderUpdate
<1>4. emitted' \in [Keys -> Nat] /\ emitted'[k] = emitted[k] + TradeVolume(k, o)
      /\ \A q \in Keys \ {k} : emitted'[q] = emitted[q]
  BY <1>1, <1>3
<1>5. /\ Unexplained(k, o) \in Nat /\ Unexplained(k, o) >= base[k]
      /\ o.traded <= Unexplained(k, o) + emitted[k]
  BY <1>1, UnexplainedFacts
<1>6. /\ base' \in [Keys -> Nat] /\ base'[k] >= base[k]
      /\ \A q \in Keys \ {k} : base'[q] = base[q]
      /\ (IsNew(k) => base'[k] = Unexplained(k, o)) /\ (~IsNew(k) => base'[k] = base[k])
  BY <1>1, <1>5 DEF ProcessOrderUpdate
<1>7. orders' \in [Keys -> OrderData \cup {NoOrder}] /\ \A q \in Keys \ {k} : orders'[q] = orders[q]
  BY <1>1, <1>2
<1>8. orders[k].traded \in Nat /\ orders[k].traded <= base[k] + emitted[k]
  BY <1>1, OrderVolume DEF GatewayInv, CacheExplained
<1>9. orders'[k].traded <= base'[k] + emitted'[k]
  <2>1. CASE ~Accepts(k, o)
    BY <1>1, <1>2, <1>4, <1>6, <1>8, <2>1
  <2>2. CASE Accepts(k, o) /\ IsNew(k)
    <3>1. orders'[k] = o /\ TradeVolume(k, o) = 0
      BY <1>1, <1>2, <2>2 DEF TradeVolume
    <3>2. emitted'[k] = emitted[k] + 0 /\ emitted[k] \in Nat
      BY <1>1, <1>4, <3>1
    <3>3. emitted'[k] = emitted[k]
      BY <3>2
    <3>4. base'[k] = Unexplained(k, o)
      BY <1>6, <2>2
    <3> QED BY <1>5, <3>1, <3>3, <3>4
  <2>3. CASE Accepts(k, o) /\ ~IsNew(k)
    <3>1. orders'[k] = o
      BY <1>1, <1>2, <2>3
    <3>2. o.traded <= orders[k].traded + TradeVolume(k, o)
      BY <1>1, <1>8, <2>3 DEF TradeVolume
    <3> QED BY <1>1, <1>4, <1>6, <1>8, <2>3, <3>1, <3>2
  <2> QED BY <2>1, <2>2, <2>3
<1>10. CacheExplained'
  <2>1. \A q \in Keys \ {k} : orders'[q].traded <= base'[q] + emitted'[q]
    BY <1>4, <1>6, <1>7 DEF GatewayInv, CacheExplained
  <2> QED BY <1>9, <2>1 DEF CacheExplained
<1> QED
  <2>1. Accepts(k, o) => orders'[k] = o
    BY <1>1, <1>2
  <2>2. ~Accepts(k, o) => orders'[k] = orders[k] /\ orders[k] # NoOrder
    BY <1>2 DEF IsNew
  <2> QED BY <1>4, <1>6, <1>7, <1>10, <2>1, <2>2

---------------------------------------------------------------------------
(* The invariant is inductive *)

\* Nothing is cached, queued or applied, and no thread runs.
LEMMA InitMain ==
  ASSUME MainInit
  PROVE  MainInv
<1>1. /\ orders = [k \in Keys |-> NoOrder] /\ stream = <<>> /\ toLoad = {} /\ phase = "down"
      /\ base = [k \in Keys |-> 0] /\ emitted = [k \in Keys |-> 0]
      /\ told = [k \in Keys |-> NoOrder] /\ tradesSeen = [k \in Keys |-> 0]
      /\ omsOrders = [k \in Keys |-> NoOrder] /\ omsActive = [k \in Keys |-> NoOrder]
      /\ queue = <<>> /\ current = NoEvent
  BY DEF MainInit, Init, OmsInit, EngineInit
<1>2. GatewayInv /\ CacheTold
  <2>1. exch \in [Ids -> [status : ExchStatus, traded : 0..MaxVolume]]
    BY MaxVolumeAssumption DEF MainInit, Init, ExchStatus, Open
  <2>2. stream \in Seq(Reports)
    BY <1>1
  <2> QED BY <1>1, <2>1, <2>2, NoOrderFacts DEF GatewayInv, GatewayTypes, CacheExplained, CacheTold
<1>3. MainTypeOK
  <2>1. <<>> \in Seq(Event \cup {TimerEvent})
    OBVIOUS
  <2>2. EngineTypeOK(Event)
    BY <1>1, <2>1 DEF MainInit, EngineInit, EngineTypeOK
  <2> QED BY <1>1, <2>2, FlowAssumption DEF MainInit, MainTypeOK
<1>4. Threads
  BY DEF MainInit, EngineInit, Threads
<1>5. ActiveIsFilter
  BY <1>1, NoOrderFacts DEF ActiveIsFilter
<1>6. ASSUME NEW k \in Keys PROVE LineOf(k)
  <2>1. /\ queue = <<>> /\ current = NoEvent /\ tradesSeen[k] = 0 /\ base[k] = 0
        /\ emitted[k] = 0 /\ told[k] = NoOrder /\ omsOrders[k] = NoOrder
    BY <1>1
  <2>2. Len(queue) = 0 /\ 0..Len(queue) = {0} /\ 1..Len(queue) = {} /\ ~IsOrderOf(At(0), k)
    BY <2>1 DEF At, IsOrderOf
  <2>3. VolumeOf(current, k) = 0 BY <2>1 DEF VolumeOf
  <2>4. Explains([i \in {0} |-> 0], k)
    BY <2>1, <2>2, <2>3 DEF Explains
  <2>5. Latest(k, told[k])
    BY <2>1, <2>2 DEF Latest, Pending
  <2> QED BY <2>1, <2>4, <2>5, NoOrderFacts DEF LineOf
<1> QED BY <1>2, <1>3, <1>4, <1>5, <1>6 DEF MainInv, LineInv

\* What the steps do to the counters, and to the phase of connect() and close().
Counted ==
  /\ phase' \in {"down", "loading", "up", "closed"}
  /\ flowCount' \in 0..OrderFlowLimit /\ blocked' \subseteq Requests
  /\ starts' \in 0..MaxStarts /\ connects' \in 0..MaxConnects
Uncounted == UNCHANGED <<phase, flowCount, blocked, starts, connects>>

LEMMA UncountedIsCounted ==
  ASSUME MainInv, Uncounted
  PROVE  Counted
BY DEF Uncounted, Counted, MainInv, MainTypeOK

\* A step that touches neither the line nor the OMS, and of the cache at most
\* forgets it.
LEMMA AsideStep ==
  ASSUME MainInv, GatewayInv', CacheTold', Threads', Counted,
         UNCHANGED <<base, emitted, told, queue, current, omsOrders, omsActive, tradesSeen>>,
         active' \in BOOLEAN, worker' \in {"off", "loop", "busy", "done"},
         timer' \in {"off", "sleep", "done"}, owner' \in {"free", "joining"}
  PROVE  MainInv'
<1>1. MainTypeOK'
  BY DEF MainInv, MainTypeOK, EngineTypeOK, Counted, GatewayInv, GatewayTypes
<1>2. ActiveIsFilter'
  BY DEF MainInv, ActiveIsFilter
<1>3. ASSUME NEW k \in Keys PROVE LineOf(k)'
  <2>1. LineOf(k) BY DEF MainInv, LineInv
  <2> QED BY <2>1, SMTT(60) DEF LineOf, Latest, Pending, Explains, At
<1> QED BY <1>1, <1>2, <1>3 DEF MainInv, LineInv

\* What a step of the gateway hands to the event engine is typed and no more
\* than the line is touched.
LEMMA ForwardStep ==
  ASSUME MainInv, GatewayInv', CacheTold', Uncounted, UNCHANGED tradesSeen,
         NEW es \in Seq(Event), Forward(es),
         told' \in [Keys -> OrderData \cup {NoOrder}], LineInv'
  PROVE  MainInv'
<1>1. /\ queue' = queue \o es
      /\ UNCHANGED <<active, worker, current, timer, owner, omsOrders, omsActive>>
  BY DEF Forward, Put, omsState
<1>2. queue' \in Seq(Event \cup {TimerEvent})
  BY <1>1 DEF MainInv, MainTypeOK, EngineTypeOK
<1>3. MainTypeOK'
  BY <1>1, <1>2 DEF MainInv, MainTypeOK, EngineTypeOK, Uncounted, GatewayInv, GatewayTypes
<1>4. Threads'
  BY <1>1 DEF MainInv, Threads
<1>5. ActiveIsFilter'
  BY <1>1 DEF MainInv, ActiveIsFilter
<1> QED BY <1>3, <1>4, <1>5 DEF MainInv

\* An order whose events are not among those put stays explained.
LEMMA OtherLine ==
  ASSUME MainInv, NEW q \in Keys, NEW es \in Seq(Event \cup {TimerEvent}),
         queue' = queue \o es, UNCHANGED <<current, omsOrders, tradesSeen>>,
         \A i \in 1..Len(es) : es[i] = TimerEvent \/ es[i].key # q,
         told'[q] = told[q], base'[q] = base[q], emitted'[q] = emitted[q]
  PROVE  LineOf(q)'
<1>1. \A i \in 1..Len(es) : VolumeOf(es[i], q) = 0 /\ ~IsOrderOf(es[i], q)
  BY DEF VolumeOf, IsOrderOf
<1>2. LineTypes BY DEF LineTypes, MainInv, MainTypeOK, EngineTypeOK
<1>3. base[q] \in Nat /\ emitted[q] \in Nat
  BY DEF MainInv, GatewayInv, GatewayTypes
<1>4. LineOf(q) BY DEF MainInv, LineInv
<1>5. /\ (\E seen : Explains(seen, q)) => (\E seen : Explains(seen, q)')
      /\ Latest(q, told[q]) => Latest(q, told[q])'
  <2>1. \A i \in 1..Len(es) :
          emitted'[q] = VolumeOf(es[i], q) + (IF i = 1 THEN emitted[q] ELSE emitted'[q])
    BY <1>1, <1>3
  <2>2. {base[q], base'[q], emitted[q], emitted'[q]} \subseteq Nat /\ base'[q] >= base[q]
    BY <1>3
  <2>3. \A i \in 1..Len(es) : IsOrderOf(es[i], q) =>
          es[i].data.traded <= base'[q] + emitted'[q]
    BY <1>1
  <2>4. told'[q] = told[q] /\ \A i \in 1..Len(es) : ~IsOrderOf(es[i], q)
    BY <1>1
  <2> QED BY <1>2, <2>1, <2>2, <2>3, <2>4, LineGrows
<1>6. (omsOrders[q].traded <= base[q] + tradesSeen[q])'
  BY <1>4 DEF LineOf
<1> QED BY <1>4, <1>5, <1>6 DEF LineOf

\* The line of the order an update is about.
LEMMA UpdatedLine ==
  ASSUME MainInv, NEW k \in Keys, NEW o \in OrderData,
         ProcessOrderUpdate(k, o), ForwardUpdate(k, o), tradesSeen' = tradesSeen
  PROVE  LineOf(k)'
<1> DEFINE es == EventsOf(k, o)
           v == TradeVolume(k, o)
<1>1. /\ orders \in [Keys -> OrderData \cup {NoOrder}] /\ LineTypes
      /\ tradesSeen[k] \in Nat /\ omsOrders[k].traded \in Nat
      /\ told \in [Keys -> OrderData \cup {NoOrder}] /\ o.traded \in Nat
      /\ base[k] \in Nat /\ emitted[k] \in Nat
  BY OrderVolume DEF MainInv, GatewayInv, GatewayTypes, MainTypeOK, EngineTypeOK, LineTypes
<1>2. /\ es \in Seq(Event) /\ v \in Nat
      /\ es = <<>> => v = 0
      /\ \A i \in 1..Len(es) : /\ VolumeOf(es[i], k) = (IF i = 1 THEN v ELSE 0)
                               /\ IsOrderOf(es[i], k) => es[i].data = o
                               /\ ~Accepts(k, o) => ~IsOrderOf(es[i], k)
      /\ Accepts(k, o) => es # <<>> /\ IsOrderOf(es[Len(es)], k) /\ es[Len(es)].data = o
  BY <1>1, EventsOfFacts
<1>3. queue' = queue \o es /\ UNCHANGED <<current, omsOrders, tradesSeen>>
  BY DEF ForwardUpdate, Forward, Put, omsState
<1>4. /\ base' \in [Keys -> Nat] /\ emitted' \in [Keys -> Nat]
      /\ base'[k] >= base[k] /\ emitted'[k] = emitted[k] + v
      /\ Accepts(k, o) => orders'[k] = o
      /\ CacheExplained'
  BY UpdateExplained DEF MainInv
<1>5. {base[k], base'[k], emitted[k], emitted'[k]} \subseteq Nat
  BY <1>1, <1>4
<1>6. /\ Accepts(k, o) => told'[k] = o
      /\ ~Accepts(k, o) => told'[k] = told[k]
  BY <1>1 DEF ForwardUpdate, Tell
<1>7. Accepts(k, o) => o.traded <= base'[k] + emitted'[k]
  BY <1>4 DEF CacheExplained
<1> HIDE DEF es, v
<1>8. es \in Seq(Event \cup {TimerEvent})
  BY <1>2
<1>9. \A i \in 1..Len(es) :
        emitted'[k] = VolumeOf(es[i], k) + (IF i = 1 THEN emitted[k] ELSE emitted'[k])
  <2>1. emitted[k] \in Nat /\ emitted'[k] \in Nat /\ v \in Nat
    BY <1>5, <1>2
  <2>2. v + emitted[k] = emitted'[k] /\ 0 + emitted'[k] = emitted'[k]
    BY <2>1, <1>4
  <2>3. \A i \in 1..Len(es) : VolumeOf(es[i], k) = (IF i = 1 THEN v ELSE 0)
    BY <1>2
  <2> QED BY <2>2, <2>3
<1>10. \A i \in 1..Len(es) : IsOrderOf(es[i], k) =>
         es[i].data.traded <= base'[k] + emitted'[k]
  BY <1>2, <1>7
<1>11. es = <<>> => emitted'[k] = emitted[k]
  BY <1>1, <1>2, <1>4
<1>12. \/ told'[k] = told[k] /\ \A i \in 1..Len(es) : ~IsOrderOf(es[i], k)
       \/ es # <<>> /\ IsOrderOf(es[Len(es)], k) /\ es[Len(es)].data = told'[k]
  BY <1>2, <1>6
<1>13. /\ (\E seen : Explains(seen, k)) => (\E seen : Explains(seen, k)')
       /\ Latest(k, told[k]) => Latest(k, told[k])'
  BY <1>1, <1>3, <1>4, <1>5, <1>8, <1>9, <1>10, <1>11, <1>12, LineGrows
<1>14. LineOf(k) BY DEF MainInv, LineInv
<1>15. (omsOrders[k].traded <= base[k] + tradesSeen[k])'
  BY <1>1, <1>3, <1>4, <1>5, <1>14 DEF LineOf
<1> QED BY <1>13, <1>14, <1>15 DEF LineOf

\* process_order_update and its callbacks, at any time: while connect() loads,
\* while stop() waits, and after close().
LEMMA UpdateForwarded ==
  ASSUME MainInv, Uncounted, UNCHANGED <<exch, toLoad, tradesSeen>>, stream' \in Seq(Reports),
         NEW k \in Keys, NEW o \in OrderData,
         ProcessOrderUpdate(k, o), ForwardUpdate(k, o)
  PROVE  MainInv'
<1>1. /\ orders \in [Keys -> OrderData \cup {NoOrder}]
      /\ told \in [Keys -> OrderData \cup {NoOrder}]
  BY DEF MainInv, MainTypeOK
<1>2. EventsOf(k, o) \in Seq(Event)
      /\ \A i \in 1..Len(EventsOf(k, o)) : EventsOf(k, o)[i].key = k
  BY <1>1, EventsOfFacts
<1>3. Forward(EventsOf(k, o))
      /\ queue' = queue \o EventsOf(k, o) /\ UNCHANGED <<current, omsOrders>>
  BY DEF ForwardUpdate, Forward, Put, omsState
<1>4. /\ orders' \in [Keys -> OrderData \cup {NoOrder}]
      /\ base' \in [Keys -> Nat] /\ emitted' \in [Keys -> Nat]
      /\ \A q \in Keys \ {k} : /\ orders'[q] = orders[q]
                               /\ base'[q] = base[q] /\ emitted'[q] = emitted[q]
      /\ Accepts(k, o) => orders'[k] = o
      /\ ~Accepts(k, o) => orders'[k] = orders[k] /\ orders[k] # NoOrder
      /\ CacheExplained'
  BY UpdateExplained DEF MainInv
<1>5. /\ told' \in [Keys -> OrderData \cup {NoOrder}]
      /\ Accepts(k, o) => told'[k] = o
      /\ ~Accepts(k, o) => told' = told
      /\ \A q \in Keys \ {k} : told'[q] = told[q]
  BY <1>1 DEF ForwardUpdate, Tell
<1>6. GatewayInv'
  BY <1>4 DEF MainInv, GatewayInv, GatewayTypes
<1>7. CacheTold'
  <2>1. orders'[k] # NoOrder => told'[k] = orders'[k]
    BY <1>4, <1>5 DEF MainInv, CacheTold
  <2>2. \A q \in Keys \ {k} : orders'[q] # NoOrder => told'[q] = orders'[q]
    BY <1>4, <1>5 DEF MainInv, CacheTold
  <2> QED BY <2>1, <2>2 DEF CacheTold
<1>8. ASSUME NEW q \in Keys PROVE LineOf(q)'
  <2>1. CASE q = k
    BY <2>1, UpdatedLine
  <2>2. CASE q # k
    <3>1. EventsOf(k, o) \in Seq(Event \cup {TimerEvent})
      BY <1>2
    <3>2. \A i \in 1..Len(EventsOf(k, o)) :
            EventsOf(k, o)[i] = TimerEvent \/ EventsOf(k, o)[i].key # q
      BY <1>2, <2>2
    <3>3. told'[q] = told[q] /\ base'[q] = base[q] /\ emitted'[q] = emitted[q]
      BY <1>4, <1>5, <2>2
    <3> QED BY <1>3, <3>1, <3>2, <3>3, OtherLine
  <2> QED BY <2>1, <2>2
<1>9. LineInv' BY <1>8 DEF LineInv
<1> QED BY <1>2, <1>3, <1>5, <1>6, <1>7, <1>9, ForwardStep

\* connect() caches an order it loads and hands it on as an order event, whatever
\* is still queued of that order from an earlier connection.
LEMMA ConnectLoads ==
  ASSUME MainInv, NEW o \in toLoad, ConnectLoad(o)
  PROVE  MainInv'
<1>1. PICK k, u, es : k = ExchangeId(o.id) /\ u = Update(o) /\ es = <<OrderEvent(k, u)>>
  OBVIOUS
<1>2. /\ orders' = [orders EXCEPT ![k] = u] /\ base' = [base EXCEPT ![k] = Unexplained(k, o)]
      /\ told' = [told EXCEPT ![k] = u] /\ Forward(es)
      /\ UNCHANGED <<phase, emitted, stream, exch, flowCount, blocked, starts, connects, tradesSeen>>
      /\ toLoad' \subseteq toLoad
  BY <1>1 DEF ConnectLoad, LoadOpenOrder, Store, Tell, envVars, counters
<1>3. /\ o.id \in Ids /\ o.traded \in 0..MaxVolume /\ k \in Keys
      /\ u \in OrderData /\ u.traded = o.traded /\ o.traded \in Nat
  BY <1>1, KeyFacts, UpdateType, OrderVolume DEF MainInv, GatewayInv, GatewayTypes
<1>4. /\ orders \in [Keys -> OrderData \cup {NoOrder}] /\ told \in [Keys -> OrderData \cup {NoOrder}]
      /\ base \in [Keys -> Nat] /\ emitted \in [Keys -> Nat]
      /\ base[k] \in Nat /\ emitted[k] \in Nat
  BY <1>3 DEF MainInv, MainTypeOK, GatewayInv, GatewayTypes
<1>5. /\ Unexplained(k, o) \in Nat /\ Unexplained(k, o) >= base[k]
      /\ o.traded <= Unexplained(k, o) + emitted[k]
  BY <1>3, <1>4, UnexplainedFacts
<1>6. /\ orders' \in [Keys -> OrderData \cup {NoOrder}] /\ orders'[k] = u
      /\ told' \in [Keys -> OrderData \cup {NoOrder}] /\ told'[k] = u
      /\ base' \in [Keys -> Nat] /\ base'[k] = Unexplained(k, o)
      /\ \A q \in Keys \ {k} : orders'[q] = orders[q] /\ told'[q] = told[q] /\ base'[q] = base[q]
  BY <1>2, <1>3, <1>4, <1>5
<1>7. CacheExplained' /\ CacheTold'
  <2>1. ASSUME NEW q \in Keys
        PROVE  /\ orders'[q].traded <= base'[q] + emitted'[q]
               /\ orders'[q] # NoOrder => told'[q] = orders'[q]
    <3>1. CASE q = k
      BY <1>2, <1>3, <1>5, <1>6, <3>1
    <3>2. CASE q # k
      BY <1>2, <1>6, <3>2 DEF MainInv, GatewayInv, CacheExplained, CacheTold
    <3> QED BY <3>1, <3>2
  <2> QED BY <2>1 DEF CacheExplained, CacheTold
<1>8. GatewayInv'
  BY <1>2, <1>4, <1>6, <1>7 DEF MainInv, GatewayInv, GatewayTypes
<1>9. queue' = queue \o es /\ UNCHANGED <<current, omsOrders, tradesSeen>>
  BY <1>2 DEF Forward, Put, omsState
<1>10. /\ OrderEvent(k, u) \in Event /\ OrderEvent(k, u).key = k /\ OrderEvent(k, u).data = u
       /\ IsOrderOf(OrderEvent(k, u), k) /\ VolumeOf(OrderEvent(k, u), k) = 0
  <2>1. OrderEvent(k, u) \in Event BY <1>3, EventFacts
  <2> QED BY <2>1, EventFacts DEF IsOrderOf, VolumeOf, OrderEvent
<1>11. es \in Seq(Event) /\ es \in Seq(Event \cup {TimerEvent}) /\ Len(es) = 1
       /\ es[1] = OrderEvent(k, u) /\ es # <<>>
  BY <1>1, <1>10
<1>12. \A i \in 1..Len(es) : i = 1 /\ es[i] = OrderEvent(k, u)
  BY <1>11
<1>13. ASSUME NEW q \in Keys PROVE LineOf(q)'
  <2>1. LineOf(q) BY DEF MainInv, LineInv
  <2>2. CASE q = k
    <3>1. LineTypes BY DEF LineTypes, MainInv, MainTypeOK, EngineTypeOK
    <3>2. /\ {base[q], base'[q], emitted[q], emitted'[q]} \subseteq Nat /\ base'[q] >= base[q]
          /\ emitted'[q] = emitted[q] /\ u.traded <= base'[q] + emitted'[q]
      BY <1>2, <1>3, <1>4, <1>5, <1>6, <2>2
    <3>3. \A i \in 1..Len(es) :
            /\ emitted'[q] = VolumeOf(es[i], q) + (IF i = 1 THEN emitted[q] ELSE emitted'[q])
            /\ IsOrderOf(es[i], q) => es[i].data.traded <= base'[q] + emitted'[q]
      BY <1>10, <1>12, <2>2, <3>2
    <3>4. es # <<>> /\ IsOrderOf(es[Len(es)], q) /\ es[Len(es)].data = told'[q]
      BY <1>6, <1>10, <1>11, <2>2
    <3>5. /\ (\E seen : Explains(seen, q)) => (\E seen : Explains(seen, q)')
          /\ Latest(q, told[q]) => Latest(q, told[q])'
      BY <1>9, <1>11, <3>1, <3>2, <3>3, <3>4, LineGrows
    <3>6. (omsOrders[q].traded <= base[q] + tradesSeen[q])'
      <4>1. tradesSeen[q] \in Nat /\ omsOrders[q].traded \in Nat
        BY OrderVolume DEF MainInv, MainTypeOK
      <4> QED BY <1>9, <2>1, <3>2, <4>1 DEF LineOf
    <3> QED BY <2>1, <3>5, <3>6 DEF LineOf
  <2>3. CASE q # k
    <3>1. told'[q] = told[q] /\ base'[q] = base[q] /\ emitted'[q] = emitted[q]
      BY <1>2, <1>6, <2>3
    <3>2. \A i \in 1..Len(es) : es[i] = TimerEvent \/ es[i].key # q
      BY <1>10, <1>12, <2>3
    <3> QED BY <1>9, <1>11, <3>1, <3>2, OtherLine
  <2> QED BY <2>2, <2>3
<1>14. LineInv' BY <1>13 DEF LineInv
<1>15. Uncounted BY <1>2 DEF Uncounted
<1> QED BY <1>2, <1>6, <1>7, <1>8, <1>11, <1>14, <1>15, ForwardStep

\* The worker applies the event it holds to the OMS.
LEMMA HandledStep ==
  ASSUME MainInv, HandleCurrent
  PROVE  MainInv'
<1>1. /\ worker = "busy" /\ worker' = "loop" /\ current' = NoEvent
      /\ UNCHANGED <<active, queue, timer, owner, flowCount, blocked, starts, connects, told>>
      /\ UNCHANGED vars
  BY DEF HandleCurrent, Handled
<1>2. UNCHANGED <<phase, toLoad, call, orders, userStream, stream, exch, missed, base, emitted>>
  BY <1>1 DEF vars
<1>3. current \in Event \cup {TimerEvent} /\ current # NoEvent /\ LineTypes
  BY <1>1 DEF MainInv, Threads, MainTypeOK, EngineTypeOK, LineTypes
<1>4. \/ /\ current = TimerEvent /\ UNCHANGED <<omsOrders, omsActive, tradesSeen>>
      \/ /\ current \in Event /\ current.type = "eOrder"
         /\ omsOrders' = [omsOrders EXCEPT ![current.key] = current.data]
         /\ omsActive' = [omsActive EXCEPT ![current.key] =
                            IF IsActive(current.data) THEN current.data ELSE NoOrder]
         /\ tradesSeen' = tradesSeen
      \/ /\ current \in Event /\ current.type = "eTrade"
         /\ UNCHANGED <<omsOrders, omsActive>>
         /\ tradesSeen' = [tradesSeen EXCEPT ![current.key] = @ + current.data]
  BY <1>3 DEF HandleCurrent, ProcessOrderEvent, ProcessTradeEvent, omsState
<1>5. GatewayInv' /\ CacheTold'
  BY <1>1, <1>2, GatewayFrame DEF MainInv, CacheTold
<1>6. /\ current \in Event => current.key \in Keys
      /\ current \in Event /\ current.type = "eOrder" =>
           current.data \in OrderData /\ current.data.status \in Status
           /\ current.data.traded \in 0..MaxVolume
      /\ current \in Event /\ current.type = "eTrade" => current.data \in Nat
  BY EventFacts, OrderVolume DEF OrderData
<1>7. MainTypeOK'
  <2>1. omsOrders' \in [Keys -> OrderData \cup {NoOrder}]
    BY <1>4, <1>6 DEF MainInv, MainTypeOK
  <2>2. omsActive' \in [Keys -> [status : ActiveStatus, traded : 0..MaxVolume] \cup {NoOrder}]
    <3>1. \A d \in OrderData : IsActive(d) => d \in [status : ActiveStatus, traded : 0..MaxVolume]
      BY DEF OrderData, IsActive
    <3> QED BY <1>4, <1>6, <3>1 DEF MainInv, MainTypeOK
  <2>3. tradesSeen' \in [Keys -> Nat]
    BY <1>4, <1>6 DEF MainInv, MainTypeOK
  <2> QED BY <1>1, <1>2, <2>1, <2>2, <2>3 DEF MainInv, MainTypeOK, EngineTypeOK
<1>8. Threads'
  BY <1>1, <1>2 DEF MainInv, Threads
<1>9. ActiveIsFilter'
  BY <1>4, <1>6 DEF MainInv, MainTypeOK, ActiveIsFilter
<1>10. ASSUME NEW k \in Keys PROVE LineOf(k)'
  <2>1. LineOf(k)
    BY DEF MainInv, LineInv
  <2>2. /\ base[k] \in Nat /\ tradesSeen[k] \in Nat /\ omsOrders[k].traded \in Nat
    BY OrderVolume DEF MainInv, GatewayInv, GatewayTypes, MainTypeOK
  <2>3. /\ omsOrders'[k] = (IF IsOrderOf(current, k) THEN current.data ELSE omsOrders[k])
        /\ tradesSeen'[k] = tradesSeen[k] + VolumeOf(current, k)
    <3>1. CASE current = TimerEvent
      BY <1>4, <2>2, <3>1, EventFacts DEF IsOrderOf, VolumeOf
    <3>2. CASE current \in Event /\ current.type = "eOrder"
      BY <1>4, <1>6, <2>2, <3>2, EventFacts DEF IsOrderOf, VolumeOf, MainInv, MainTypeOK
    <3>3. CASE current \in Event /\ current.type = "eTrade"
      BY <1>4, <1>6, <2>2, <3>3, EventFacts DEF IsOrderOf, VolumeOf, MainInv, MainTypeOK
    <3> QED BY <1>4, <3>1, <3>2, <3>3
  <2>4. /\ \A seen : Explains(seen, k) => Explains(seen, k)'
        /\ Latest(k, told[k]) => Latest(k, told[k])'
        /\ omsOrders'[k].traded <= base[k] + tradesSeen'[k]
    BY <1>1, <1>2, <1>3, <2>1, <2>2, <2>3, LineHandled DEF LineOf
  <2> QED BY <1>1, <1>2, <2>1, <2>4 DEF LineOf
<1>11. LineInv' BY <1>10 DEF LineInv
<1> QED BY <1>5, <1>7, <1>8, <1>9, <1>11 DEF MainInv

\* The timer puts its event behind the line, and the worker takes the first.
LEMMA EngineStep ==
  ASSUME MainInv, EngineThreads
  PROVE  MainInv'
<1>1. /\ UNCHANGED <<omsOrders, omsActive, flowCount, blocked, starts, connects, tradesSeen, told>>
      /\ UNCHANGED <<phase, toLoad, call, orders, userStream, stream, exch, missed, base, emitted>>
  BY DEF EngineThreads, omsState, mainVars, counters, vars
<1>2. GatewayInv' /\ CacheTold'
  BY <1>1, GatewayFrame DEF MainInv, CacheTold
<1>3. CASE Take
  <2>1. /\ worker = "loop" /\ active /\ queue # <<>> /\ worker' = "busy"
        /\ current' = Head(queue) /\ queue' = Tail(queue)
        /\ UNCHANGED <<active, timer, owner>>
    BY <1>3 DEF Take
  <2>2. LineTypes /\ current = NoEvent
    BY <2>1 DEF MainInv, MainTypeOK, EngineTypeOK, LineTypes, Threads
  <2>3. current' \in Event \cup {TimerEvent} /\ queue' \in Seq(Event \cup {TimerEvent})
    BY <2>1, <2>2 DEF LineTypes
  <2>4. current' # NoEvent
    BY <2>3, EventFacts, EventAssumption
  <2>5. MainTypeOK'
    BY <1>1, <2>1, <2>3 DEF MainInv, MainTypeOK, EngineTypeOK
  <2>6. Threads' /\ ActiveIsFilter'
    BY <1>1, <2>1, <2>4 DEF MainInv, Threads, ActiveIsFilter
  <2>7. ASSUME NEW k \in Keys PROVE LineOf(k)'
    <3>1. LineOf(k) /\ tradesSeen[k] \in Nat
      BY DEF MainInv, LineInv, MainTypeOK
    <3>2. /\ (\E seen : Explains(seen, k)) => (\E seen : Explains(seen, k)')
          /\ Latest(k, told[k]) => Latest(k, told[k])'
      BY <1>1, <2>1, <2>2, <3>1, LineTaken
    <3> QED BY <1>1, <3>1, <3>2 DEF LineOf
  <2> QED BY <1>2, <2>5, <2>6, <2>7 DEF MainInv, LineInv
<1>4. CASE TimerTick
  <2> DEFINE es == <<TimerEvent>>
  <2>1. queue' = queue \o <<TimerEvent>>
    BY <1>4, Zenon DEF TimerTick, Put
  <2>a. UNCHANGED <<active, worker, current, timer, owner>>
    BY <1>4, Zenon DEF TimerTick
  <2>2. es \in Seq(Event \cup {TimerEvent}) /\ \A i \in 1..Len(es) : es[i] = TimerEvent
    OBVIOUS
  <2>3. queue' \in Seq(Event \cup {TimerEvent})
    BY <2>1 DEF MainInv, MainTypeOK, EngineTypeOK
  <2>4. MainTypeOK'
    BY <1>1, <2>a, <2>3 DEF MainInv, MainTypeOK, EngineTypeOK
  <2>5. Threads' /\ ActiveIsFilter'
    BY <1>1, <2>a DEF MainInv, Threads, ActiveIsFilter
  <2>6. ASSUME NEW k \in Keys PROVE LineOf(k)'
    BY <1>1, <2>1, <2>a, <2>2, OtherLine
  <2> QED BY <1>2, <2>4, <2>5, <2>6 DEF MainInv, LineInv
<1>5. CASE WorkerExit \/ TimerExit
  <2>1. /\ UNCHANGED <<active, queue, current, owner>>
        /\ worker' \in {"off", "loop", "busy", "done"} /\ timer' \in {"off", "sleep", "done"}
        /\ worker' = worker \/ (worker = "loop" /\ worker' = "done" /\ ~active)
    BY <1>5 DEF WorkerExit, TimerExit, MainInv, MainTypeOK, EngineTypeOK
  <2>2. owner = "free" => worker' = worker
    BY <2>1 DEF MainInv, Threads
  <2>3. Threads'
    BY <2>1, <2>2 DEF MainInv, Threads
  <2>4. Counted
    BY <1>1, UncountedIsCounted DEF Uncounted
  <2> QED
    BY <1>1, <1>2, <2>1, <2>3, <2>4, AsideStep DEF MainInv, MainTypeOK, EngineTypeOK
<1> QED BY <1>3, <1>4, <1>5 DEF EngineThreads

\* The steps of the gateway and the application that call nobody back.
LEMMA GatewayAside ==
  ASSUME MainInv, GatewayInv', CacheTold', Counted,
         UNCHANGED <<base, emitted, told, tradesSeen, engineVars, omsState>>
  PROVE  MainInv'
<1>1. UNCHANGED <<active, queue, worker, current, timer, owner, omsOrders, omsActive>>
  BY DEF engineVars, omsState
<1>2. Threads'
  BY <1>1 DEF MainInv, Threads
<1> QED BY <1>1, <1>2, AsideStep DEF MainInv, MainTypeOK, EngineTypeOK

\* close() makes the gateway forget its orders and tells nobody.
LEMMA CloseFacts ==
  ASSUME MainInv, CloseGateway, told' = told
  PROVE  GatewayInv' /\ CacheTold' /\ phase' = "closed" /\ UNCHANGED <<base, emitted>>
<1>1. /\ orders' = [k \in Keys |-> NoOrder] /\ phase' = "closed"
      /\ UNCHANGED <<toLoad, stream, exch, base, emitted>>
  BY DEF CloseGateway
<1>2. CacheExplained'
  BY <1>1, NoOrderFacts DEF MainInv, GatewayInv, GatewayTypes, CacheExplained
<1>3. GatewayTypes'
  BY <1>1 DEF MainInv, GatewayInv, GatewayTypes
<1>4. CacheTold'
  BY <1>1 DEF CacheTold
<1> QED BY <1>1, <1>2, <1>3, <1>4 DEF GatewayInv

\* start(), stop() and disconnect().
LEMMA StartStop ==
  ASSUME MainInv, MainStart \/ MainStopBegin \/ MainStopEnd \/ MainDisconnect
  PROVE  MainInv'
<1>1. CASE MainStart \/ MainStopBegin
  <2>1. /\ UNCHANGED <<phase, toLoad, orders, stream, exch, base, emitted, told>>
        /\ UNCHANGED <<queue, current, omsOrders, omsActive, flowCount, blocked, connects, tradesSeen>>
        /\ owner = "free"
    BY <1>1 DEF MainStart, MainStopBegin, vars, omsState, mainVars, counters, Start, StopBegin, Idle
  <2>2. GatewayInv' /\ CacheTold'
    BY <2>1, GatewayFrame DEF MainInv, CacheTold
  <2>3. CASE MainStart
    <3>1. /\ ~active /\ active' = TRUE /\ worker' = "loop" /\ timer' = "sleep"
          /\ owner' = owner /\ starts' = starts + 1 /\ starts < MaxStarts
      BY <2>3 DEF MainStart, Start
    <3>2. Threads' BY <2>1, <3>1 DEF MainInv, Threads
    <3>3. starts' \in 0..MaxStarts
      BY <3>1, FlowAssumption DEF MainInv, MainTypeOK
    <3>4. Counted BY <2>1, <3>3 DEF Counted, MainInv, MainTypeOK
    <3> QED BY <2>1, <2>2, <3>1, <3>2, <3>4, AsideStep
  <2>4. CASE MainStopBegin
    <3>1. /\ active' = FALSE /\ owner' = "joining" /\ UNCHANGED <<worker, timer, starts>>
      BY <2>4 DEF MainStopBegin, StopBegin, mainVars, counters
    <3>2. Threads' BY <2>1, <3>1 DEF MainInv, Threads
    <3>3. Counted BY <2>1, <3>1 DEF Counted, MainInv, MainTypeOK
    <3> QED BY <2>1, <2>2, <3>1, <3>2, <3>3, AsideStep DEF MainInv, MainTypeOK, EngineTypeOK
  <2> QED BY <1>1, <2>3, <2>4
<1>2. CASE MainStopEnd
  <2>1. /\ owner = "joining" /\ worker = "done" /\ owner' = "free"
        /\ worker' = "off" /\ timer' = "off"
        /\ UNCHANGED <<active, queue, current, omsOrders, omsActive, told, tradesSeen>>
        /\ UNCHANGED <<flowCount, blocked, starts, connects>>
    BY <1>2 DEF MainStopEnd, StopEnd, omsState, mainVars, counters
  <2>2. Threads'
    BY <2>1 DEF MainInv, Threads
  <2>3. /\ GatewayInv' /\ CacheTold' /\ UNCHANGED <<base, emitted>>
        /\ phase' \in {"down", "loading", "up", "closed"}
    <3>1. CASE CloseGateway
      BY <2>1, <3>1, CloseFacts
    <3>2. CASE UNCHANGED vars
      <4>1. UNCHANGED <<phase, toLoad, call, orders, userStream, stream, exch, missed, base, emitted>>
        BY <3>2 DEF vars
      <4> QED BY <2>1, <4>1, GatewayFrame DEF MainInv, CacheTold, MainTypeOK
    <3> QED BY <1>2, <3>1, <3>2 DEF MainStopEnd
  <2>4. Counted BY <2>1, <2>3 DEF Counted, MainInv, MainTypeOK
  <2> QED BY <2>1, <2>2, <2>3, <2>4, AsideStep DEF MainInv, MainTypeOK, EngineTypeOK
<1>3. CASE MainDisconnect
  <2>1. /\ CloseGateway /\ told' = told
        /\ UNCHANGED <<engineVars, omsState, tradesSeen, flowCount, blocked, starts, connects>>
    BY <1>3 DEF MainDisconnect, mainVars, counters
  <2>2. GatewayInv' /\ CacheTold' /\ phase' = "closed" /\ UNCHANGED <<base, emitted>>
    BY <2>1, CloseFacts
  <2>3. Counted BY <2>1, <2>2 DEF Counted, MainInv, MainTypeOK
  <2> QED BY <2>1, <2>2, <2>3, GatewayAside
<1> QED BY <1>1, <1>2, <1>3

\* Every step of the engine keeps the invariant.
LEMMA NextMain ==
  ASSUME MainInv, [MainNext]_allVars
  PROVE  MainInv'
<1>0. /\ flowCount \in 0..OrderFlowLimit /\ blocked \subseteq Requests /\ GatewayInv
      /\ starts \in 0..MaxStarts /\ connects \in 0..MaxConnects
      /\ phase \in {"down", "loading", "up", "closed"}
  BY DEF MainInv, MainTypeOK
<1>a. ASSUME GatewayInv', UNCHANGED <<orders, told, base, emitted>>, Counted,
             UNCHANGED <<tradesSeen, engineVars, omsState>>
      PROVE  MainInv'
  <2>1. CacheTold' BY <1>a DEF MainInv, CacheTold
  <2> QED BY <1>a, <2>1, GatewayAside
<1>1. ASSUME ExchangeStep \/ \E r \in Ids : MainCancelOrder(r)
      PROVE  MainInv'
  <2>1. PICK r \in Ids : ExchangeNext(r) \/ CancelOrder(r)
    BY <1>1 DEF ExchangeStep, MainCancelOrder
  <2>2. UNCHANGED <<phase, cacheVars>>
    BY <2>1 DEF ExchangeNext, ExchangeAccept, ExchangeRefuse, ExchangeFill,
                ExchangeExpire, ExchangeMoves, CancelOrder
  <2>3. UNCHANGED <<engineVars, omsState, mainVars>>
    BY <1>1 DEF ExchangeStep, MainCancelOrder
  <2>4. GatewayInv'
    BY <1>0, <2>1, ExchangeTyped
  <2>5. Counted BY <1>0, <2>2, <2>3 DEF Counted, mainVars, counters
  <2>6. UNCHANGED <<orders, told, base, emitted, tradesSeen>>
    BY <2>2, <2>3 DEF cacheVars, mainVars, counters
  <2> QED BY <1>a, <2>3, <2>4, <2>5, <2>6
<1>2. ASSUME Connect \/ ConnectDone
      PROVE  MainInv'
  <2>1. QueryOpenOrders \/ StartUserStream
    BY <1>2 DEF Connect, ConnectDone
  <2>2. /\ UNCHANGED <<orders, base, emitted>> /\ phase' \in {"loading", "up"}
    BY <2>1 DEF QueryOpenOrders, StartUserStream, cacheVars
  <2>3. /\ UNCHANGED <<flowCount, blocked, starts, tradesSeen, told, engineVars, omsState>>
        /\ connects' = connects \/ (connects < MaxConnects /\ connects' = connects + 1)
    BY <1>2 DEF Connect, ConnectDone, mainVars, counters
  <2>4. Counted BY <1>0, <2>2, <2>3, FlowAssumption DEF Counted
  <2>5. GatewayInv' BY <1>0, <2>1, CallsTyped
  <2> QED BY <1>a, <2>2, <2>3, <2>4, <2>5
<1>3. ASSUME NEW r \in Requests, MainSendOrder(r)
      PROVE  MainInv'
  <2>1. /\ SendOrder(r) /\ r \in Ids
        /\ UNCHANGED <<engineVars, omsState, blocked, starts, connects, tradesSeen, told>>
        /\ flowCount' = flowCount + 1 /\ flowCount < OrderFlowLimit
    BY <1>3 DEF MainSendOrder, CheckRisk, Ids
  <2>2. UNCHANGED <<phase, orders, base, emitted>>
    BY <2>1 DEF SendOrder, cacheVars
  <2>3. GatewayInv' BY <1>0, <2>1, CallsTyped
  <2>4. Counted BY <1>0, <2>1, <2>2, FlowAssumption DEF Counted
  <2> QED BY <1>a, <2>1, <2>2, <2>3, <2>4
<1>4. ASSUME NEW r \in Requests, MainSendUnconnected(r) \/ MainOrderBlocked(r)
      PROVE  MainInv'
  <2>1. /\ UNCHANGED <<engineVars, omsState, starts, connects, tradesSeen, told>>
        /\ UNCHANGED vars
        /\ flowCount' = flowCount \/ (flowCount' = flowCount + 1 /\ flowCount < OrderFlowLimit)
        /\ blocked' = blocked \/ blocked' = blocked \cup {r}
    BY <1>4 DEF MainSendUnconnected, MainOrderBlocked, CheckRisk
  <2>2. UNCHANGED <<phase, toLoad, call, orders, userStream, stream, exch, missed, base, emitted>>
    BY <2>1 DEF vars
  <2>3. GatewayInv'
    BY <1>0, <2>2, GatewayFrame
  <2>4. Counted
    BY <1>0, <2>1, <2>2, FlowAssumption DEF Counted
  <2> QED BY <1>a, <2>1, <2>2, <2>3, <2>4
<1>5. ASSUME NEW r \in Requests, SendReturns(r)
      PROVE  MainInv'
  <2> DEFINE Sent(k, o) ==
        /\ k \in Keys /\ o \in OrderData
        /\ ProcessOrderUpdate(k, o) /\ ForwardUpdate(k, o)
  <2>1. /\ UNCHANGED <<phase, toLoad, exch, stream, counters>> /\ r \in Ids
    BY <1>5 DEF SendReturns, HandleReply, HandleFailure, envVars, Ids
  <2>2. PICK k, o : Sent(k, o)
    <3>1. /\ [status |-> "NOTTRADED", traded |-> 0] \in OrderData
          /\ [status |-> "REJECTED", traded |-> 0] \in OrderData
      BY OrderVolume DEF OrderData, Status
    <3>2. CASE HandleReply(r) /\ ForwardUpdate(ExchangeId(r), [status |-> "NOTTRADED", traded |-> 0])
      BY <2>1, <3>1, <3>2, KeyFacts DEF HandleReply
    <3>3. CASE HandleFailure(r) /\ ForwardUpdate(LocalId(r), [status |-> "REJECTED", traded |-> 0])
      BY <2>1, <3>1, <3>3, KeyFacts DEF HandleFailure
    <3> QED BY <1>5, <3>2, <3>3 DEF SendReturns
  <2>3. /\ Uncounted /\ UNCHANGED <<exch, toLoad, tradesSeen>>
        /\ stream' \in Seq(Reports)
    BY <1>0, <2>1 DEF Uncounted, counters, GatewayInv, GatewayTypes
  <2> QED BY <2>2, <2>3, UpdateForwarded
<1>6. ASSUME Receive
      PROVE  MainInv'
  <2>1. PICK h, k : h = Head(stream) /\ k = ExchangeId(h.id)
    OBVIOUS
  <2>2. /\ ProcessOrderUpdate(k, Update(h)) /\ ForwardUpdate(k, Update(h))
        /\ stream # <<>> /\ stream' = Tail(stream)
        /\ UNCHANGED <<phase, exch, toLoad, counters>>
    BY <1>6, <2>1 DEF Receive, ReceiveReport
  <2>3. stream \in Seq(Reports)
    BY <1>0 DEF GatewayInv, GatewayTypes
  <2>4. h \in Reports /\ stream' \in Seq(Reports) BY <2>1, <2>2, <2>3
  <2>5. k \in Keys /\ Update(h) \in OrderData
    BY <2>1, <2>4, KeyFacts, UpdateType DEF Reports
  <2>6. Uncounted /\ UNCHANGED <<exch, toLoad, tradesSeen>>
    BY <2>2 DEF Uncounted, counters
  <2> QED BY <2>2, <2>4, <2>5, <2>6, UpdateForwarded
<1>7. CASE UNCHANGED allVars
  <2>1. /\ UNCHANGED <<phase, toLoad, call, orders, userStream, stream, exch, missed, base, emitted>>
        /\ UNCHANGED <<engineVars, omsState, flowCount, blocked, starts, connects, tradesSeen, told>>
    BY <1>7 DEF allVars, vars, mainVars, counters
  <2>2. GatewayInv'
    BY <1>0, <2>1, GatewayFrame
  <2>3. Counted BY <1>0, <2>1 DEF Counted
  <2> QED BY <1>a, <2>1, <2>2, <2>3
<1> QED
  BY <1>1, <1>2, <1>3, <1>4, <1>5, <1>6, <1>7, ConnectLoads, HandledStep, EngineStep, StartStop
     DEF MainNext, AppStep

---------------------------------------------------------------------------
(* The theorems *)

\* The inductive invariant holds in every state the engine reaches.
LEMMA MainInvariance == MainSpec => []MainInv
<1>1. MainInit => MainInv
  BY InitMain
<1>2. MainInv /\ [MainNext]_allVars => MainInv'
  BY NextMain
<1> QED BY <1>1, <1>2, PTL DEF MainSpec

\* The state of the engine has its type, over any stops, starts and connections.
THEOREM MainTypeCorrect == MainSpec => []MainTypeOK
<1>1. MainInv => MainTypeOK
  BY DEF MainInv
<1> QED BY <1>1, MainInvariance, PTL

\* What is queued, applied in order, makes the OMS agree with what the gateway
\* last said of each order, after any stops, starts and reconnections.
THEOREM OmsFollows == MainSpec => []OmsFollowsGateway
<1>1. MainInv => OmsFollowsGateway
  BY DEF MainInv, LineInv, LineOf, CacheTold, OmsFollowsGateway
<1> QED BY <1>1, MainInvariance, PTL

\* With nothing of an order queued, the OMS lists it as active exactly when it is
\* active as the gateway has it, or had it last before close() made it forget.
THEOREM ActiveAgree == MainSpec => []ActiveOrdersAgree
<1>1. ASSUME MainInv
      PROVE  ActiveOrdersAgree
  <2> SUFFICES ASSUME NEW k \in Keys, Pending(k) = {}
               PROVE  omsActive[k] = (IF IsActive(Known(k)) THEN Known(k) ELSE NoOrder)
    BY DEF ActiveOrdersAgree
  <2>1. omsOrders[k] = told[k]
    BY <1>1 DEF MainInv, LineInv, LineOf, Latest
  <2>2. Known(k) = told[k]
    BY <1>1 DEF MainInv, CacheTold, Known
  <2> QED BY <1>1, <2>1, <2>2 DEF MainInv, ActiveIsFilter
<1> QED BY <1>1, MainInvariance, PTL

\* Whoever reads a fill from the OMS has been handed the trades behind it.
THEOREM TradesFirst == MainSpec => []TradesBeforeOrders
<1>1. MainInv => TradesBeforeOrders
  BY DEF MainInv, LineInv, LineOf, TradesBeforeOrders
<1> QED BY <1>1, MainInvariance, PTL

\* No handler runs between the return of stop() and the next start().
THEOREM QuietOnceStopped == MainSpec => QuietAfterStop
<1>1. ASSUME MainInv, [MainNext]_allVars
      PROVE  [owner = "free" /\ ~active => UNCHANGED omsState]_allVars
  <2> SUFFICES ASSUME owner = "free", ~active, MainNext
               PROVE  UNCHANGED omsState
    BY <1>1
  <2>1. worker = "off" BY <1>1 DEF MainInv, Threads
  <2>2. ~HandleCurrent BY <2>1 DEF HandleCurrent, Handled
  <2> QED
    BY <2>2 DEF MainNext, ExchangeStep, Receive, EngineThreads, AppStep, Connect, ConnectDone,
                ConnectLoad, MainSendOrder, MainSendUnconnected, MainOrderBlocked, SendReturns,
                MainCancelOrder, MainStart, MainStopBegin, MainStopEnd, MainDisconnect,
                ForwardUpdate, Forward
<1> QED BY <1>1, MainInvariance, PTL DEF MainSpec, QuietAfterStop
=============================================================================
