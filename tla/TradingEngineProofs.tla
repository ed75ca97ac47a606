------------------------ MODULE TradingEngineProofs ------------------------
(* The active order book covers every order that rests at the exchange, for    *)
(* any number of orders, any volume, any prices and any limits, on top of the  *)
(* gateway's own invariant.                                                    *)
EXTENDS TradingEngine, SpotGatewayProofs, FiniteSetTheorems, WellFoundedInduction

(* What the gateway's invariant lacks: only an order the exchange accepted is   *)
(* loaded, reported or cached under the exchange's id; what is reported or     *)
(* cached as finished is finished; an acknowledged order is cached.            *)
LoadPlaced == \A o \in toLoad : Placed(o.id)
ReportsPlaced == \A i \in 1..Len(stream) : Placed(stream[i].id)
CachePlaced == \A r \in Ids : ~IsNew(ExchangeId(r)) => Placed(r)
ReportsFinished ==
  \A i \in 1..Len(stream) : stream[i].status \in Closed => exch[stream[i].id].status \notin Open
CacheFinished ==
  \A r \in Ids : ~IsNew(ExchangeId(r)) /\ ~IsActive(orders[ExchangeId(r)]) => exch[r].status \notin Open
OkIsCached == \A r \in Ids : call[r] = "ok" => ~IsNew(ExchangeId(r))

TruthInv ==
  /\ LoadPlaced /\ ReportsPlaced /\ CachePlaced
  /\ ReportsFinished /\ CacheFinished
  /\ OkIsCached

(* And of the risk manager.  Nothing is sent before the callbacks are set.  The *)
(* two sides of the book hold finitely many orders that were sent, each on its *)
(* side and at its price, and an order cached as active is among them.  What   *)
(* rests, and what is on its way, is within the limit.                         *)
Registration ==
  /\ registered => phase = "up"
  /\ ~registered => \A r \in Requests : call[r] = "idle"
PriceSent == price \in [Ids -> Nat] /\ \A r \in Ids : call[r] # "idle" => price[r] # 0
BidsTrue ==
  \A v \in DOMAIN bids : v[2] \in Keys /\ Long[v[2][2]] /\ bids[v] = price[v[2][2]] /\ bids[v] # 0
AsksTrue ==
  \A v \in DOMAIN asks : v[2] \in Keys /\ ~Long[v[2][2]] /\ asks[v] = price[v[2][2]] /\ asks[v] # 0
BidsBounded == \E n \in Nat : \A v \in DOMAIN bids : bids[v] <= n
BooksFinite == IsFiniteSet(DOMAIN bids) /\ IsFiniteSet(DOMAIN asks)
BooksInv == BidsTrue /\ AsksTrue /\ BidsBounded /\ BooksFinite
ActiveIsBooked ==
  \A r \in Requests :
    ~IsNew(ExchangeId(r)) /\ IsActive(orders[ExchangeId(r)]) => BooksOf(r) # {}
Committed == {r \in Requests : call[r] = "inflight"} \cup AcknowledgedOpen
CommittedBounded == IsFiniteSet(Committed) /\ Cardinality(Committed) <= ActiveOrderLimit
FlowBounded == flowCount \in 0..OrderFlowLimit /\ flowTimer \in 0..OrderFlowClear

TradingInv ==
  /\ IInv /\ TruthInv
  /\ Registration /\ PriceSent
  /\ BooksInv /\ ActiveIsBooked
  /\ CommittedBounded /\ FlowBounded

---------------------------------------------------------------------------
(* The gateway *)

\* What the exchange reports as open is active once mapped, and the rest is not.
LEMMA UpdateActive ==
  ASSUME NEW o, o.status \in Open \cup Closed
  PROVE  IsActive(Update(o)) <=> o.status \in Open
  BY DEF Update, IsActive, StatusFromBinance, ActiveStatus, Open, Closed

\* The exchange moves an order it holds open, or one on its way to it.
LEMMA MoveTruth ==
  ASSUME IInv, TruthInv, NEW r \in Ids,
         NEW o \in [status : Open \cup Closed, traded : 0..MaxVolume],
         exch[r].status \in Open \cup {"ENROUTE"},
         ExchangeMoves(r, o)
  PROVE  TruthInv'
<1>1. /\ exch' = [exch EXCEPT ![r] = o] /\ exch'[r] = o
      /\ \A q \in Ids \ {r} : exch'[q] = exch[q]
      /\ UNCHANGED <<phase, toLoad, call, orders>>
  BY DEF ExchangeMoves, cacheVars, IInv, TypeOK
<1>2. Placed(r)' /\ \A q \in Ids : Placed(q) => Placed(q)'
  BY <1>1 DEF Placed
<1>3. Placed(r) => exch[r].status \in Open
  BY DEF Placed, Closed
<1>4. /\ stream \in Seq(Reports)
      /\ \A i \in 1..Len(stream) : stream[i].id \in Ids
      /\ \A p \in toLoad : p.id \in Ids
  <2>1. \A i \in 1..Len(stream) : stream[i] \in Reports
    BY DEF IInv, TypeOK
  <2> QED BY <2>1 DEF IInv, TypeOK, Reports
<1>5. /\ Len(stream') \in Nat
      /\ \A i \in 1..Len(stream') :
           \/ i \in 1..Len(stream) /\ stream'[i] = stream[i]
           \/ stream'[i].id = r /\ stream'[i].status = o.status
  <2>1. CASE userStream = "up"
    <3>1. stream' = Append(stream, Report(r, o))
      BY <2>1 DEF ExchangeMoves
    <3>2. Report(r, o) \in Reports /\ Report(r, o).id = r /\ Report(r, o).status = o.status
      BY DEF Report, Reports
    <3>3. /\ Len(stream') = Len(stream) + 1 /\ stream'[Len(stream) + 1] = Report(r, o)
          /\ \A i \in 1..Len(stream) : stream'[i] = stream[i]
      BY <1>4, <3>1, <3>2
    <3> QED BY <1>4, <3>2, <3>3
  <2>2. CASE userStream # "up"
    BY <1>4, <2>2 DEF ExchangeMoves
  <2> QED BY <2>1, <2>2
<1>6. LoadPlaced' /\ ReportsPlaced'
  BY <1>1, <1>2, <1>4, <1>5 DEF TruthInv, LoadPlaced, ReportsPlaced
<1>7. CachePlaced' /\ OkIsCached'
  BY <1>1, <1>2 DEF TruthInv, CachePlaced, OkIsCached, IsNew
<1>8. ReportsFinished'
  <2> SUFFICES ASSUME NEW i \in 1..Len(stream'), stream'[i].status \in Closed
               PROVE  exch'[stream'[i].id].status \notin Open
    BY DEF ReportsFinished
  <2>1. CASE stream'[i].id = r /\ stream'[i].status = o.status
    BY <1>1, <2>1 DEF Open, Closed
  <2>2. CASE i \in 1..Len(stream) /\ stream'[i] = stream[i]
    <3>1. exch[stream[i].id].status \notin Open /\ Placed(stream[i].id)
      BY <2>2 DEF TruthInv, ReportsFinished, ReportsPlaced
    <3>2. stream[i].id # r
      BY <1>3, <3>1
    <3> QED BY <1>1, <1>4, <2>2, <3>1, <3>2
  <2> QED BY <1>5, <2>1, <2>2
<1>9. CacheFinished'
  <2> SUFFICES ASSUME NEW q \in Ids, ~IsNew(ExchangeId(q)), ~IsActive(orders[ExchangeId(q)])
               PROVE  exch'[q].status \notin Open
    BY <1>1 DEF CacheFinished, IsNew, IsActive
  <2>1. exch[q].status \notin Open /\ Placed(q)
    BY DEF TruthInv, CacheFinished, CachePlaced
  <2>2. q # r
    BY <1>3, <2>1
  <2> QED BY <1>1, <2>1, <2>2
<1> QED BY <1>6, <1>7, <1>8, <1>9 DEF TruthInv

\* A step that changes no order the exchange has accepted, and caches nothing.
LEMMA StillTruth ==
  ASSUME IInv, TruthInv,
         UNCHANGED orders,
         \A q \in Ids : Placed(q) => exch'[q] = exch[q],
         \A q \in Ids : exch'[q].status \in Open => exch'[q] = exch[q],
         \A o \in toLoad' : Placed(o.id)',
         \/ stream' = stream
         \/ stream' = <<>>,
         \A q \in Ids : call'[q] = "ok" => call[q] = "ok"
  PROVE  TruthInv'
<1>1. \A i \in 1..Len(stream) : stream[i] \in Reports
  BY DEF IInv, TypeOK
<1>2. \A q \in Ids : Placed(q) => Placed(q)'
  BY DEF Placed
<1>3. ReportsPlaced' /\ ReportsFinished'
  <2>1. CASE stream' = <<>>
    BY <2>1 DEF ReportsPlaced, ReportsFinished
  <2>2. CASE stream' = stream
    BY <1>1, <1>2, <2>2 DEF TruthInv, ReportsPlaced, ReportsFinished, Reports
  <2> QED BY <2>1, <2>2
<1>4. LoadPlaced'
  BY DEF LoadPlaced
<1>5. CachePlaced' /\ OkIsCached' /\ CacheFinished'
  BY <1>2 DEF TruthInv, CachePlaced, OkIsCached, CacheFinished, IsNew
<1> QED BY <1>3, <1>4, <1>5 DEF TruthInv

\* process_order_update, from a reply, a failure or a report: what comes under
\* the exchange's id was accepted there and, if finished, is finished there.
LEMMA UpdateTruth ==
  ASSUME IInv, TruthInv, NEW r \in Ids, NEW k \in {ExchangeId(r), LocalId(r)},
         NEW o \in OrderData, ProcessOrderUpdate(k, o),
         k = ExchangeId(r) => Placed(r),
         k = ExchangeId(r) /\ ~IsActive(o) => exch[r].status \notin Open,
         UNCHANGED <<toLoad, exch>>,
         ReportsPlaced', ReportsFinished',
         \A q \in Ids : call'[q] = "ok" => call[q] = "ok" \/ (q = r /\ k = ExchangeId(r))
  PROVE  TruthInv'
<1>1. k \in Keys
  BY KeyFacts
<1>2. /\ \/ orders'[k] = o
         \/ orders' = orders /\ ~IsNew(k)
      /\ \A j \in Keys \ {k} : orders'[j] = orders[j]
      /\ ~IsNew(k)'
  BY <1>1, UpdateOutcome DEF IInv, TypeOK
<1>3. LoadPlaced'
  BY DEF TruthInv, LoadPlaced, Placed
<1>4. \A q \in Ids : /\ k = ExchangeId(q) => q = r
                     /\ k # ExchangeId(q) => orders'[ExchangeId(q)] = orders[ExchangeId(q)]
  BY <1>2, KeyFacts
<1>5. CachePlaced'
  BY <1>4 DEF TruthInv, CachePlaced, IsNew, Placed
<1>6. OkIsCached'
  <2> SUFFICES ASSUME NEW q \in Ids, call'[q] = "ok" PROVE ~IsNew(ExchangeId(q))'
    BY DEF OkIsCached
  <2>1. CASE k = ExchangeId(q)
    BY <1>2, <2>1
  <2>2. CASE k # ExchangeId(q)
    BY <1>4, <2>2 DEF TruthInv, OkIsCached, IsNew
  <2> QED BY <2>1, <2>2
<1>7. CacheFinished'
  <2> SUFFICES ASSUME NEW q \in Ids, ~IsNew(ExchangeId(q))', ~IsActive(orders'[ExchangeId(q)])
               PROVE  exch[q].status \notin Open
    BY DEF CacheFinished, IsActive
  <2>1. CASE k = ExchangeId(q) /\ orders'[k] = o
    BY <1>4, <2>1
  <2>2. CASE k # ExchangeId(q) \/ orders' = orders
    BY <1>4, <2>2 DEF TruthInv, CacheFinished, IsNew
  <2> QED BY <1>2, <2>1, <2>2
<1> QED BY <1>3, <1>5, <1>6, <1>7 DEF TruthInv

\* Before connect() nothing is loaded, reported, cached or acknowledged.
LEMMA InitTruth ==
  ASSUME Init
  PROVE  TruthInv
  BY KeyFacts DEF Init, TruthInv, LoadPlaced, ReportsPlaced, CachePlaced, ReportsFinished,
                  CacheFinished, OkIsCached, IsNew

\* Every step of the gateway and of the exchange keeps it.
LEMMA NextTruth ==
  ASSUME MaxVolumeAssumption, IInv, TruthInv, [Next]_vars
  PROVE  TruthInv'
<1>1. ASSUME NEW r \in Ids, ExchangeNext(r) \/ CancelOrder(r)
      PROVE  TruthInv'
  <2>1. /\ MaxVolume \in Nat
        /\ exch[r].status \in ExchStatus /\ exch[r].traded \in 0..MaxVolume
        /\ exch[r] = [status |-> exch[r].status, traded |-> exch[r].traded]
    BY DEF IInv, TypeOK, MaxVolumeAssumption
  <2>2. CASE ExchangeRefuse(r)
    <3>1. /\ exch[r].status = "ENROUTE"
          /\ exch'[r].status = "REFUSED"
          /\ \A q \in Ids \ {r} : exch'[q] = exch[q]
          /\ UNCHANGED <<toLoad, call, stream, orders>>
      BY <2>1, <2>2 DEF ExchangeRefuse, cacheVars, IInv, TypeOK
    <3>2. \A q \in Ids : Placed(q) => exch'[q] = exch[q]
      BY <3>1 DEF Placed, Open, Closed
    <3>3. \A q \in Ids : exch'[q].status \in Open => exch'[q] = exch[q]
      BY <3>1 DEF Open
    <3>4. \A o \in toLoad' : Placed(o.id)'
      BY <3>1, <3>2 DEF TruthInv, LoadPlaced, IInv, TypeOK, Placed
    <3> QED BY <3>1, <3>2, <3>3, <3>4, StillTruth
  <2>3. CASE ~ExchangeRefuse(r)
    <3>1. PICK s \in Open \cup Closed, t \in 0..MaxVolume :
            /\ ExchangeMoves(r, [status |-> s, traded |-> t])
            /\ exch[r].status \in Open \cup {"ENROUTE"}
      <4>1. CASE ExchangeAccept(r)
        BY <2>1, <4>1 DEF ExchangeAccept, Open
      <4>2. CASE ExchangeFill(r)
        BY <2>1, <4>2 DEF ExchangeFill, Open, Closed
      <4>3. CASE ExchangeExpire(r) \/ CancelOrder(r)
        <5>1. PICK s \in Closed : ExchangeMoves(r, [exch[r] EXCEPT !.status = s])
                                  /\ exch[r].status \in Open
          BY <4>3 DEF ExchangeExpire, CancelOrder, Closed
        <5>2. [exch[r] EXCEPT !.status = s] = [status |-> s, traded |-> exch[r].traded]
          BY <2>1
        <5> QED BY <2>1, <5>1, <5>2
      <4> QED BY <1>1, <2>3, <4>1, <4>2, <4>3 DEF ExchangeNext
    <3> DEFINE o == [status |-> s, traded |-> t]
    <3>2. o \in [status : Open \cup Closed, traded : 0..MaxVolume]
      OBVIOUS
    <3> QED BY <3>1, <3>2, MoveTruth
  <2> QED BY <2>2, <2>3
<1>2. ASSUME NEW r \in Ids, SendOrder(r)
      PROVE  TruthInv'
  <2>1. exch[r].status = "NONE"
    BY <1>2 DEF SendOrder, IInv, IdleIsUnsent
  <2>2. /\ exch'[r].status = "ENROUTE"
        /\ \A q \in Ids \ {r} : exch'[q] = exch[q]
        /\ UNCHANGED <<toLoad, stream, orders>>
        /\ \A q \in Ids : call'[q] = "ok" => call[q] = "ok"
    BY <1>2 DEF SendOrder, cacheVars, IInv, TypeOK
  <2>3. /\ \A q \in Ids : Placed(q) => exch'[q] = exch[q]
        /\ \A q \in Ids : exch'[q].status \in Open => exch'[q] = exch[q]
    BY <2>1, <2>2 DEF Placed, Open, Closed
  <2>4. \A o \in toLoad' : Placed(o.id)'
    BY <2>2, <2>3 DEF TruthInv, LoadPlaced, IInv, TypeOK, Placed
  <2> QED BY <2>2, <2>3, <2>4, StillTruth
<1>3. ASSUME NEW r \in Ids, HandleReply(r) \/ HandleFailure(r)
      PROVE  TruthInv'
  <2>1. /\ UNCHANGED <<toLoad, stream, exch>>
        /\ \A q \in Ids \ {r} : call'[q] = call[q]
        /\ HandleFailure(r) => call'[r] # "ok"
    BY <1>3 DEF HandleReply, HandleFailure, envVars, IInv, TypeOK
  <2>2. ReportsPlaced' /\ ReportsFinished'
    BY <2>1 DEF TruthInv, ReportsPlaced, ReportsFinished, Placed
  <2>3. MaxVolume \in Nat
    BY DEF MaxVolumeAssumption
  <2>4. CASE HandleReply(r)
    <3> DEFINE o == [status |-> "NOTTRADED", traded |-> 0]
    <3>1. o \in OrderData /\ IsActive(o)
      BY <2>3 DEF OrderData, Status, IsActive, ActiveStatus
    <3>2. Placed(r) /\ ProcessOrderUpdate(ExchangeId(r), o)
      BY <2>4 DEF HandleReply
    <3> HIDE DEF o
    <3> QED BY <2>1, <2>2, <3>1, <3>2, UpdateTruth
  <2>5. CASE HandleFailure(r)
    <3> DEFINE o == [status |-> "REJECTED", traded |-> 0]
    <3>1. o \in OrderData
      BY <2>3 DEF OrderData, Status
    <3>2. ProcessOrderUpdate(LocalId(r), o) /\ LocalId(r) # ExchangeId(r)
      BY <2>5, KeyFacts DEF HandleFailure
    <3> HIDE DEF o
    <3> QED BY <2>1, <2>2, <2>5, <3>1, <3>2, UpdateTruth
  <2> QED BY <1>3, <2>4, <2>5
<1>4. ASSUME ReceiveReport
      PROVE  TruthInv'
  <2> DEFINE h == Head(stream)
  <2>1. /\ stream # <<>> /\ stream \in Seq(Reports) /\ stream' = Tail(stream)
        /\ UNCHANGED <<toLoad, call, exch>>
        /\ ProcessOrderUpdate(ExchangeId(h.id), Update(h))
    BY <1>4 DEF ReceiveReport, IInv, TypeOK
  <2>2. h \in Reports /\ h = stream[1] /\ 1 \in 1..Len(stream)
    BY <2>1
  <2>3. /\ h.id \in Ids /\ h.traded \in 0..MaxVolume /\ h.status \in Open \cup Closed
        /\ Placed(h.id)
        /\ h.status \in Closed => exch[h.id].status \notin Open
    BY <2>2 DEF Reports, TruthInv, ReportsPlaced, ReportsFinished
  <2>4. Update(h) \in OrderData
    BY <2>3, UpdateType
  <2>5. ~IsActive(Update(h)) => exch[h.id].status \notin Open
    BY <2>3, UpdateActive
  <2>6. \A i \in 1..Len(stream') : i + 1 \in 1..Len(stream) /\ stream'[i] = stream[i + 1]
    BY <2>1
  <2>7. ReportsPlaced' /\ ReportsFinished'
    BY <2>1, <2>6 DEF TruthInv, ReportsPlaced, ReportsFinished, Placed
  <2> QED BY <2>1, <2>3, <2>4, <2>5, <2>7, UpdateTruth
<1>5. ASSUME QueryOpenOrders
      PROVE  TruthInv'
  <2>1. UNCHANGED <<call, stream, exch, orders>>
    BY <1>5 DEF QueryOpenOrders, cacheVars
  <2>2. \A o \in toLoad' : exch[o.id].status \in Open
    BY <1>5 DEF QueryOpenOrders, Report
  <2>3. \A o \in toLoad' : Placed(o.id)'
    BY <2>1, <2>2 DEF Placed
  <2> QED BY <2>1, <2>3, StillTruth
<1>6. ASSUME NEW o \in toLoad, LoadOpenOrder(o)
      PROVE  TruthInv'
  <2>1. /\ orders' = [orders EXCEPT ![ExchangeId(o.id)] = Update(o)]
        /\ toLoad' \subseteq toLoad
        /\ UNCHANGED <<call, stream, exch>>
    BY <1>6 DEF LoadOpenOrder, Store, envVars
  <2>2. /\ o.id \in Ids /\ o.status \in Open /\ o.traded \in 0..MaxVolume
        /\ ExchangeId(o.id) \in Keys /\ Placed(o.id)
    BY KeyFacts DEF IInv, TypeOK, TruthInv, LoadPlaced
  <2>3. Update(o) \in OrderData /\ IsActive(Update(o)) /\ Update(o) # NoOrder
    BY <2>2, UpdateType, UpdateActive DEF OrderData, Status, NoOrder
  <2>4. orders'[ExchangeId(o.id)] = Update(o)
    BY <2>1, <2>2 DEF IInv, TypeOK
  <2>5. \A q \in Ids : q # o.id => orders'[ExchangeId(q)] = orders[ExchangeId(q)]
    BY <2>1, <2>2, KeyFacts DEF IInv, TypeOK
  <2>6. LoadPlaced' /\ ReportsPlaced' /\ ReportsFinished'
    BY <2>1 DEF TruthInv, LoadPlaced, ReportsPlaced, ReportsFinished, Placed
  <2>7. CachePlaced' /\ OkIsCached' /\ CacheFinished'
    BY <2>1, <2>2, <2>3, <2>4, <2>5
       DEF TruthInv, CachePlaced, OkIsCached, CacheFinished, IsNew, Placed, IsActive
  <2> QED BY <2>6, <2>7 DEF TruthInv
<1>7. ASSUME StartUserStream \/ StreamDrop \/ StreamReconnect
      PROVE  TruthInv'
  <2>1. /\ UNCHANGED <<toLoad, call, exch, orders>>
        /\ stream' = stream \/ stream' = <<>>
    BY <1>7 DEF StartUserStream, StreamDrop, StreamReconnect, InFlightIsLost, cacheVars
  <2>2. \A o \in toLoad' : Placed(o.id)'
    BY <2>1 DEF TruthInv, LoadPlaced, Placed
  <2> QED BY <2>1, <2>2, StillTruth
<1>8. CASE UNCHANGED vars
  <2>1. \A o \in toLoad' : Placed(o.id)'
    BY <1>8 DEF vars, TruthInv, LoadPlaced, Placed
  <2> QED BY <1>8, <2>1, StillTruth DEF vars
<1> QED
  BY <1>1, <1>2, <1>3, <1>4, <1>5, <1>6, <1>7, <1>8 DEF Next, GatewayNext

---------------------------------------------------------------------------
(* Best bid and best ask *)

\* A set of prices has a least one ...
LEMMA LeastPrice ==
  ASSUME NEW S \in SUBSET Nat, S # {}
  PROVE  \E x \in S : \A y \in S : x <= y
<1> DEFINE initial == {0..n : n \in S}
<1>1. \A n \in S : 0..n \in FiniteSubsetsOf(Nat)
  BY FS_Interval DEF FiniteSubsetsOf
<1>2. initial \subseteq FiniteSubsetsOf(Nat) /\ initial # {}
  BY <1>1
<1>3. IsWellFoundedOn(StrictSubsetOrdering(Nat), FiniteSubsetsOf(Nat))
  BY FS_StrictSubsetOrderingWellFounded
<1>4. PICK I \in initial : \A J \in initial : <<J, I>> \notin StrictSubsetOrdering(Nat)
  <2> HIDE DEF initial
  <2> QED BY <1>2, <1>3, WFMin
<1>5. PICK x \in S : I = 0..x
  OBVIOUS
<1>6. ASSUME NEW y \in S, y < x PROVE FALSE
  <2>1. /\ 0..y \in SUBSET Nat /\ 0..x \in SUBSET Nat
        /\ 0..y \subseteq 0..x /\ x \in 0..x /\ x \notin 0..y
    BY <1>6
  <2>2. <<0..y, 0..x>> \in StrictSubsetOrdering(Nat)
    BY <2>1 DEF StrictSubsetOrdering
  <2> QED BY <1>4, <1>5, <2>2
<1> QED BY <1>6

\* ... which is its Min, and when the prices are bounded, its Max is the greatest.
LEMMA MinIsLeast ==
  ASSUME NEW S \in SUBSET Nat, S # {}
  PROVE  Min(S) \in S /\ \A y \in S : Min(S) <= y
  BY LeastPrice DEF Min

LEMMA MaxIsGreatest ==
  ASSUME NEW S \in SUBSET Nat, S # {}, NEW bound \in Nat, \A y \in S : y <= bound
  PROVE  Max(S) \in S /\ \A y \in S : Max(S) >= y
<1> DEFINE below == {bound - y : y \in S}
<1>1. \A y \in S : bound - y \in Nat
  OBVIOUS
<1>2. below \in SUBSET Nat /\ below # {}
  BY <1>1
<1>3. PICK m \in below : \A y \in below : m <= y
  <2> HIDE DEF below
  <2> QED BY <1>2, LeastPrice
<1>4. PICK x \in S : m = bound - x
  OBVIOUS
<1>5. \A y \in S : bound - y \in below /\ bound - x <= bound - y
  BY <1>3, <1>4
<1>6. \A y \in S : x >= y
  BY <1>5
<1> QED BY <1>6 DEF Max

\* check_risk refuses what would trade with an order in the book.
LEMMA NoCross ==
  ASSUME PriceSent, BooksInv, NEW r \in Requests, NEW s \in Requests, BooksOf(s) # {},
         NEW p \in Nat, ~Crosses(Long[r], p), RequestsAssumption
  PROVE  ~CrossesOwn(r, p, s)
<1>1. PICK v \in Booked : v[2] = ExchangeId(s)
  BY DEF BooksOf
<1>2. v[2][2] = s /\ Long[r] \in BOOLEAN /\ Long[s] \in BOOLEAN /\ price[s] \in Nat
  BY <1>1 DEF ExchangeId, RequestsAssumption, PriceSent, Ids
<1>3. /\ \A u \in DOMAIN bids : bids[u] \in Nat /\ bids[u] # 0
      /\ \A u \in DOMAIN asks : asks[u] \in Nat /\ asks[u] # 0
  BY DEF BooksInv, BidsTrue, AsksTrue, PriceSent, Keys
<1>4. ASSUME Long[s], v \in DOMAIN bids PROVE ~CrossesOwn(r, p, s)
  <2>1. bids[v] = price[s] /\ price[s] \in Prices(bids) /\ bids # EmptyBook
    BY <1>2, <1>4 DEF BooksInv, BidsTrue, Prices, EmptyBook
  <2>2. Prices(bids) \in SUBSET Nat
    BY <1>3 DEF Prices
  <2>3. PICK n \in Nat : \A y \in Prices(bids) : y <= n
    BY DEF BooksInv, BidsBounded, Prices
  <2>4. Max(Prices(bids)) \in Prices(bids) /\ Max(Prices(bids)) >= price[s]
    BY <2>1, <2>2, <2>3, MaxIsGreatest
  <2>5. BestBid \in Nat /\ BestBid # 0 /\ BestBid >= price[s]
    BY <1>3, <2>1, <2>4 DEF BestBid, Prices
  <2>6. Long[r] \/ ~(p <= BestBid)
    BY <2>5 DEF Crosses
  <2>7. CASE Long[r]
    BY <1>2, <1>4, <2>7 DEF CrossesOwn
  <2>8. CASE ~Long[r]
    <3>1. ~(p <= price[s])
      BY <1>2, <2>5, <2>6, <2>8
    <3> QED BY <2>8, <3>1 DEF CrossesOwn
  <2> QED BY <2>7, <2>8
<1>5. ASSUME ~Long[s], v \in DOMAIN asks PROVE ~CrossesOwn(r, p, s)
  <2>1. asks[v] = price[s] /\ price[s] \in Prices(asks) /\ asks # EmptyBook
    BY <1>2, <1>5 DEF BooksInv, AsksTrue, Prices, EmptyBook
  <2>2. Prices(asks) \in SUBSET Nat
    BY <1>3 DEF Prices
  <2>3. Min(Prices(asks)) \in Prices(asks) /\ Min(Prices(asks)) <= price[s]
    BY <2>1, <2>2, MinIsLeast
  <2>4. BestAsk \in Nat /\ BestAsk # 0 /\ BestAsk <= price[s]
    BY <1>3, <2>1, <2>2, <2>3 DEF BestAsk, Prices
  <2>5. ~Long[r] \/ ~(p >= BestAsk)
    BY <2>4 DEF Crosses
  <2> QED BY <1>2, <1>5, <2>4, <2>5 DEF CrossesOwn
<1>6. \/ Long[s] /\ v \in DOMAIN bids
      \/ ~Long[s] /\ v \in DOMAIN asks
  BY <1>1, <1>2 DEF Booked, BooksInv, BidsTrue, AsksTrue
<1> QED BY <1>4, <1>5, <1>6

---------------------------------------------------------------------------
(* The steps of the engine *)

\* update_order takes no other order off the book, and keeps the sides true.
LEMMA BookStep ==
  ASSUME PriceSent, BooksInv, RequestsAssumption, NothingLeftAssumption,
         UNCHANGED price,
         NEW s \in Ids, price[s] # 0, NEW k \in {ExchangeId(s), LocalId(s)},
         NEW g, NEW active \in BOOLEAN,
         UpdateOrder(VtOrderId(g, k), Long[s], price[s], active)
  PROVE  /\ BooksInv'
         /\ \A u \in Booked : u # VtOrderId(g, k) => u \in Booked'
         /\ active => VtOrderId(g, k) \in Booked'
<1> DEFINE v == VtOrderId(g, k)
<1>1. /\ k \in Keys /\ v[2] = k /\ v[2][2] = s /\ Long[s] \in BOOLEAN /\ price[s] \in Nat
      /\ price' = price
  BY DEF ExchangeId, LocalId, Keys, VtOrderId, RequestsAssumption, NothingLeftAssumption, Ids, PriceSent
<1> HIDE DEF v
<1>2. /\ IF active /\ Long[s]
         THEN DOMAIN bids' = DOMAIN bids \cup {v} /\ bids'[v] = price[s]
         ELSE DOMAIN bids' = DOMAIN bids \ {v}
      /\ \A u \in DOMAIN bids \ {v} : bids'[u] = bids[u]
  <2>1. bids' = IF active /\ Long[s] THEN With(bids, v, price[s]) ELSE Without(bids, v)
    BY DEF UpdateOrder, v
  <2>2. CASE active /\ Long[s]
    BY <2>1, <2>2 DEF With, Without
  <2>3. CASE ~(active /\ Long[s])
    BY <2>1, <2>3 DEF With, Without
  <2> QED BY <2>2, <2>3
<1>3. /\ IF active /\ ~Long[s]
         THEN DOMAIN asks' = DOMAIN asks \cup {v} /\ asks'[v] = price[s]
         ELSE DOMAIN asks' = DOMAIN asks \ {v}
      /\ \A u \in DOMAIN asks \ {v} : asks'[u] = asks[u]
  <2>1. asks' = IF active /\ ~Long[s] THEN With(asks, v, price[s]) ELSE Without(asks, v)
    BY DEF UpdateOrder, v
  <2>2. CASE active /\ ~Long[s]
    BY <2>1, <2>2 DEF With, Without
  <2>3. CASE ~(active /\ ~Long[s])
    BY <2>1, <2>3 DEF With, Without
  <2> QED BY <2>2, <2>3
<1>4. BidsTrue'
  <2> SUFFICES ASSUME NEW u \in DOMAIN bids'
               PROVE  u[2] \in Keys /\ Long[u[2][2]] /\ bids'[u] = price[u[2][2]] /\ bids'[u] # 0
    BY <1>1 DEF BidsTrue
  <2>1. CASE u = v
    BY <1>1, <1>2, <2>1
  <2>2. CASE u # v
    BY <1>2, <2>2 DEF BooksInv, BidsTrue
  <2> QED BY <2>1, <2>2
<1>5. AsksTrue'
  <2> SUFFICES ASSUME NEW u \in DOMAIN asks'
               PROVE  u[2] \in Keys /\ ~Long[u[2][2]] /\ asks'[u] = price[u[2][2]] /\ asks'[u] # 0
    BY <1>1 DEF AsksTrue
  <2>1. CASE u = v
    BY <1>1, <1>3, <2>1
  <2>2. CASE u # v
    BY <1>3, <2>2 DEF BooksInv, AsksTrue
  <2> QED BY <2>1, <2>2
<1>6. BidsBounded'
  <2>1. \A u \in DOMAIN bids : bids[u] \in Nat
    BY DEF BooksInv, BidsTrue, PriceSent, Keys
  <2>2. PICK n \in Nat : \A u \in DOMAIN bids : bids[u] <= n
    BY DEF BooksInv, BidsBounded
  <2>3. \A u \in DOMAIN bids' : bids'[u] <= n + price[s]
    BY <1>1, <1>2, <2>1, <2>2
  <2>4. n + price[s] \in Nat
    BY <1>1
  <2> QED BY <2>3, <2>4 DEF BidsBounded
<1>7. BooksFinite'
  BY <1>2, <1>3, FS_AddElement, FS_RemoveElement DEF BooksInv, BooksFinite
<1>8. \A u \in Booked : u # v => u \in Booked'
  BY <1>2, <1>3 DEF Booked
<1>9. active => v \in Booked'
  BY <1>2, <1>3 DEF Booked
<1> QED BY <1>4, <1>5, <1>6, <1>7, <1>8, <1>9 DEF BooksInv, v

\* process_order_update with its callbacks keeps what is active in the book.
LEMMA CallbackStep ==
  ASSUME IInv, PriceSent, BooksInv, ActiveIsBooked, registered,
         UNCHANGED price,
         NEW s \in Ids, price[s] # 0, NEW k \in {ExchangeId(s), LocalId(s)},
         NEW g, NEW o \in OrderData,
         ProcessOrderUpdate(k, o), Callbacks(g, k, o)
  PROVE  BooksInv' /\ ActiveIsBooked' /\ UNCHANGED <<flowCount, flowTimer>>
<1>1. k \in Keys /\ k[2] = s
  BY DEF ExchangeId, LocalId, Keys
<1>2. /\ \/ Accepts(k, o) /\ orders'[k] = o
         \/ ~Accepts(k, o) /\ orders' = orders /\ ~IsNew(k)
      /\ \A j \in Keys \ {k} : orders'[j] = orders[j]
  BY <1>1, UpdateOutcome DEF IInv, TypeOK
<1>3. CASE ~Accepts(k, o)
  <2>1. UNCHANGED <<orders, bids, asks, price, flowCount, flowTimer>>
    BY <1>1, <1>2, <1>3 DEF Callbacks, riskVars, bookVars
  <2> QED
    BY <2>1 DEF BooksInv, BidsTrue, AsksTrue, BidsBounded, BooksFinite, ActiveIsBooked, BooksOf,
                Booked, IsNew, IsActive
<1>4. CASE Accepts(k, o)
  <2> DEFINE v == VtOrderId(g, k)
             active == o.status \in ActiveStatus
  <2>1. /\ UpdateOrder(VtOrderId(g, k), Long[s], price[s], active)
        /\ UNCHANGED <<flowCount, flowTimer>>
        /\ active \in BOOLEAN
    BY <1>1, <1>4 DEF Callbacks, RiskOnOrder
  <2>2. /\ BooksInv'
        /\ \A u \in Booked : u # v => u \in Booked'
        /\ active => v \in Booked'
    <3> HIDE DEF active
    <3> QED BY <1>1, <2>1, BookStep, RequestsAssumption, NothingLeftAssumption
  <2>3. v[2] = k
    BY DEF VtOrderId
  <2> HIDE DEF v
  <2>4. ActiveIsBooked'
    <3> SUFFICES ASSUME NEW r \in Requests, ~IsNew(ExchangeId(r))', IsActive(orders'[ExchangeId(r)])
                 PROVE  \E u \in Booked' : u[2] = ExchangeId(r)
      BY DEF ActiveIsBooked, BooksOf, IsActive
    <3>1. CASE ExchangeId(r) = k
      BY <1>2, <1>4, <2>2, <2>3, <3>1 DEF IsActive
    <3>2. CASE ExchangeId(r) # k
      <4>1. orders'[ExchangeId(r)] = orders[ExchangeId(r)]
        BY <1>2, <3>2, KeyFacts DEF Ids
      <4>2. PICK u \in Booked : u[2] = ExchangeId(r)
        BY <4>1 DEF ActiveIsBooked, BooksOf, IsNew, IsActive
      <4> QED BY <2>2, <2>3, <3>2, <4>2
    <3> QED BY <3>1, <3>2
  <2> QED BY <2>1, <2>2, <2>4
<1> QED BY <1>3, <1>4

\* What the exchange holds open is in the book ...
LEMMA Covered ==
  ASSUME TradingInv
  PROVE  BookCoversOpen
<1> SUFFICES ASSUME NEW r \in AcknowledgedOpen PROVE BooksOf(r) # {}
  BY DEF BookCoversOpen
<1>1. r \in Requests /\ r \in Ids /\ call[r] = "ok" /\ exch[r].status \in Open
  BY DEF AcknowledgedOpen, Ids
<1>2. ~IsNew(ExchangeId(r)) /\ IsActive(orders[ExchangeId(r)])
  BY <1>1 DEF TradingInv, TruthInv, OkIsCached, CacheFinished
<1> QED BY <1>1, <1>2 DEF TradingInv, ActiveIsBooked

\* ... so there is no more of it than check_risk counts.
LEMMA OpenIsCounted ==
  ASSUME TradingInv
  PROVE  /\ IsFiniteSet(AcknowledgedOpen)
         /\ Cardinality(AcknowledgedOpen) \in Nat
         /\ Cardinality(DOMAIN bids) + Cardinality(DOMAIN asks) \in Nat
         /\ Cardinality(AcknowledgedOpen) <= Cardinality(DOMAIN bids) + Cardinality(DOMAIN asks)
<1> DEFINE entry == [r \in AcknowledgedOpen |-> CHOOSE v : v \in BooksOf(r)]
<1>1. \A r \in AcknowledgedOpen : entry[r] \in Booked /\ entry[r][2] = ExchangeId(r)
  <2>1. \A r \in AcknowledgedOpen : \E v : v \in BooksOf(r)
    BY Covered DEF BookCoversOpen
  <2>2. \A r \in AcknowledgedOpen : entry[r] \in BooksOf(r)
    BY <2>1
  <2> HIDE DEF entry
  <2> QED BY <2>2 DEF BooksOf
<1>2. entry \in [AcknowledgedOpen -> Booked]
  BY <1>1
<1>3. ASSUME NEW r \in AcknowledgedOpen, NEW s \in AcknowledgedOpen, entry[r] = entry[s]
      PROVE  r = s
  <2>1. r \in Ids /\ s \in Ids
    BY DEF AcknowledgedOpen, Ids
  <2> HIDE DEF entry
  <2> QED BY <1>1, <1>3, <2>1, KeyFacts
<1> HIDE DEF entry
<1>4. entry \in Injection(AcknowledgedOpen, Booked)
  BY <1>2, <1>3 DEF Injection, IsInjective
<1>5. /\ IsFiniteSet(Booked)
      /\ Cardinality(Booked) =
           Cardinality(DOMAIN bids) + Cardinality(DOMAIN asks) - Cardinality(DOMAIN bids \cap DOMAIN asks)
      /\ IsFiniteSet(DOMAIN bids \cap DOMAIN asks)
      /\ IsFiniteSet(DOMAIN bids) /\ IsFiniteSet(DOMAIN asks)
  BY FS_Union, FS_Intersection DEF Booked, TradingInv, BooksInv, BooksFinite
<1>6. IsFiniteSet(AcknowledgedOpen) /\ Cardinality(AcknowledgedOpen) <= Cardinality(Booked)
  BY <1>4, <1>5, FS_Injection
<1>7. /\ Cardinality(DOMAIN bids) \in Nat /\ Cardinality(DOMAIN asks) \in Nat
      /\ Cardinality(DOMAIN bids \cap DOMAIN asks) \in Nat
      /\ Cardinality(AcknowledgedOpen) \in Nat
  BY <1>5, <1>6, FS_CardinalityType
<1> QED BY <1>5, <1>6, <1>7

\* A step that sends nothing and tells the risk manager nothing.
LEMMA StillCovered ==
  ASSUME TradingInv, IInv', TruthInv',
         UNCHANGED <<bids, asks, price, orders>>,
         Registration', FlowBounded',
         \A r \in Ids : call'[r] # "idle" => call[r] # "idle",
         \A r \in Requests : r \in Committed' => r \in Committed
  PROVE  TradingInv'
<1>1. PriceSent' /\ BooksInv' /\ ActiveIsBooked'
  BY DEF TradingInv, PriceSent, BooksInv, BidsTrue, AsksTrue, BidsBounded, BooksFinite,
         ActiveIsBooked, BooksOf, Booked, IsNew, IsActive
<1>2. Committed' \subseteq Committed
  BY DEF Committed, AcknowledgedOpen
<1>3. LimitsAssumption
  BY LimitsAssumption
<1>4. CommittedBounded'
  <2>1. IsFiniteSet(Committed) /\ Cardinality(Committed) <= ActiveOrderLimit
    BY DEF TradingInv, CommittedBounded
  <2>2. IsFiniteSet(Committed') /\ Cardinality(Committed') <= Cardinality(Committed)
    BY <1>2, <2>1, FS_Subset
  <2>3. Cardinality(Committed') \in Nat /\ Cardinality(Committed) \in Nat
    BY <2>1, <2>2, FS_CardinalityType
  <2> QED BY <1>3, <2>1, <2>2, <2>3 DEF CommittedBounded, LimitsAssumption
<1> QED BY <1>1, <1>4 DEF TradingInv

\* An acknowledged order the exchange closed is never open again.
LEMMA StaysClosed ==
  ASSUME IInv, TruthInv, NEW r \in Ids,
         ExchangeAccept(r) \/ ExchangeRefuse(r) \/ ExchangeFill(r) \/ CancelOrder(r)
  PROVE  \A q \in Ids : call'[q] = call[q] /\
           (call[q] = "ok" /\ exch'[q].status \in Open => exch[q].status \in Open)
<1>1. \A q \in Ids : call[q] = "ok" => exch[q].status # "ENROUTE"
  BY DEF TruthInv, OkIsCached, CachePlaced, Placed, Open, Closed
<1>2. call' = call /\ \A q \in Ids \ {r} : exch'[q] = exch[q]
  BY DEF ExchangeAccept, ExchangeRefuse, ExchangeFill, CancelOrder, ExchangeMoves, IInv, TypeOK
<1>3. exch[r].status \in Open \cup {"ENROUTE"}
  BY DEF ExchangeAccept, ExchangeRefuse, ExchangeFill, CancelOrder
<1> QED BY <1>1, <1>2, <1>3

LEMMA InitTrading ==
  ASSUME TradingInit, MaxVolumeAssumption, LimitsAssumption
  PROVE  TradingInv
<1>1. IInv /\ TruthInv
  BY InitIInv, InitTruth DEF TradingInit
<1>2. DOMAIN bids = {} /\ DOMAIN asks = {}
  BY DEF TradingInit, RiskInit, EmptyBook
<1>3. BooksInv
  BY <1>2, FS_EmptySet DEF BooksInv, BidsTrue, AsksTrue, BidsBounded, BooksFinite
<1>4. Registration /\ PriceSent
  BY DEF TradingInit, Init, Registration, PriceSent, Ids
<1>5. ActiveIsBooked
  BY KeyFacts DEF TradingInit, Init, ActiveIsBooked, IsNew, Ids
<1>6. Committed = {}
  BY DEF TradingInit, Init, Committed, AcknowledgedOpen, Ids
<1>7. CommittedBounded /\ FlowBounded
  BY <1>6, FS_EmptySet DEF CommittedBounded, FlowBounded, TradingInit, RiskInit, LimitsAssumption
<1> QED BY <1>1, <1>3, <1>4, <1>5, <1>7 DEF TradingInv

\* send_order that passed check_risk: one more order on its way, and no other is.
LEMMA SendStep ==
  ASSUME TradingInv, IInv', TruthInv', NEW r \in Requests, TradingSendOrder(r)
  PROVE  TradingInv'
<1>1. PICK p \in PriceOf[r] :
        price' = [price EXCEPT ![r] = p] /\ CheckRisk(Long[r], p, MaxVolume)
  BY DEF TradingSendOrder
<1>2. /\ registered /\ registered' = registered /\ phase' = phase /\ price[r] = 0
      /\ \A q \in Ids : call[q] # "inflight"
      /\ call' = [call EXCEPT ![r] = "inflight"]
      /\ exch' = [exch EXCEPT ![r].status = "ENROUTE"]
      /\ UNCHANGED <<orders, bids, asks, flowTimer>>
  BY <1>1 DEF TradingSendOrder, CallerFree, SendOrder, CheckRisk, bookVars, cacheVars
<1>3. r \in Ids /\ p \in Nat /\ p # 0
  BY RequestsAssumption DEF RequestsAssumption, Ids
<1>4. Registration'
  BY <1>2 DEF TradingInv, Registration
<1>5. /\ price \in [Ids -> Nat] /\ call \in [Ids -> {"idle", "inflight", "ok", "failed"}]
      /\ exch \in [Ids -> [status : ExchStatus, traded : 0..MaxVolume]]
  BY DEF TradingInv, PriceSent, IInv, TypeOK
<1>6. PriceSent'
  BY <1>1, <1>2, <1>3, <1>5 DEF TradingInv, PriceSent
<1>7. BooksInv'
  <2>1. \A q \in Ids : price[q] # 0 => price'[q] = price[q]
    BY <1>1, <1>2, <1>5
  <2>2. \A k \in Keys : k[2] \in Ids
    BY DEF Keys
  <2>3. BidsTrue'
    BY <1>2, <2>1, <2>2 DEF TradingInv, BooksInv, BidsTrue
  <2>4. AsksTrue'
    BY <1>2, <2>1, <2>2 DEF TradingInv, BooksInv, AsksTrue
  <2> QED BY <1>2, <2>3, <2>4 DEF TradingInv, BooksInv, BidsBounded, BooksFinite
<1>8. ActiveIsBooked'
  BY <1>2 DEF TradingInv, ActiveIsBooked, BooksOf, Booked, IsNew, IsActive
<1>9. CommittedBounded'
  <2>1. Cardinality(DOMAIN bids) + Cardinality(DOMAIN asks) < ActiveOrderLimit
    BY <1>1 DEF CheckRisk, RiskPasses
  <2>2. Committed' \subseteq AcknowledgedOpen \cup {r}
    <3> SUFFICES ASSUME NEW q \in Requests, q # r, q \in Committed'
                 PROVE  q \in AcknowledgedOpen
      BY DEF Committed, AcknowledgedOpen
    <3>1. q \in Ids /\ call'[q] = call[q] /\ exch'[q] = exch[q]
      BY <1>2, <1>3, <1>5 DEF Ids
    <3> QED BY <1>2, <3>1 DEF Committed, AcknowledgedOpen
  <2>3. /\ IsFiniteSet(AcknowledgedOpen \cup {r})
        /\ Cardinality(AcknowledgedOpen \cup {r}) <= Cardinality(AcknowledgedOpen) + 1
        /\ Cardinality(AcknowledgedOpen \cup {r}) \in Nat
    <3>1. IsFiniteSet(AcknowledgedOpen) /\ Cardinality(AcknowledgedOpen) \in Nat
      BY OpenIsCounted
    <3>2. /\ IsFiniteSet(AcknowledgedOpen \cup {r})
          /\ Cardinality(AcknowledgedOpen \cup {r}) =
               IF r \in AcknowledgedOpen THEN Cardinality(AcknowledgedOpen)
                                         ELSE Cardinality(AcknowledgedOpen) + 1
      BY <3>1, FS_AddElement
    <3> QED BY <3>1, <3>2
  <2>4. IsFiniteSet(Committed') /\ Cardinality(Committed') <= Cardinality(AcknowledgedOpen \cup {r})
    BY <2>2, <2>3, FS_Subset
  <2>5. Cardinality(Committed') \in Nat
    BY <2>4, FS_CardinalityType
  <2>6. ActiveOrderLimit \in Nat
    BY LimitsAssumption DEF LimitsAssumption
  <2> QED BY <2>1, <2>3, <2>4, <2>5, <2>6, OpenIsCounted DEF CommittedBounded
<1>10. FlowBounded'
  BY <1>1, <1>2, LimitsAssumption
     DEF CheckRisk, RiskPasses, TradingInv, FlowBounded, LimitsAssumption
<1> QED BY <1>4, <1>6, <1>7, <1>8, <1>9, <1>10 DEF TradingInv

\* A reply, a failure or a report, with the callbacks it makes.
LEMMA HandledStep ==
  ASSUME TradingInv, IInv', TruthInv', registered,
         UNCHANGED <<price, registered, phase, exch>>,
         NEW s \in Ids, call[s] # "idle", NEW k \in {ExchangeId(s), LocalId(s)},
         NEW g, NEW o \in OrderData,
         ProcessOrderUpdate(k, o), Callbacks(g, k, o),
         \A q \in Ids : \/ call'[q] = call[q]
                        \/ call[q] = "inflight" /\ call'[q] \in {"ok", "failed"}
  PROVE  TradingInv'
<1>1. price[s] # 0
  BY DEF TradingInv, PriceSent
<1>2. BooksInv' /\ ActiveIsBooked' /\ UNCHANGED <<flowCount, flowTimer>>
  BY <1>1, CallbackStep DEF TradingInv
<1>3. Registration' /\ PriceSent' /\ FlowBounded'
  BY <1>2 DEF TradingInv, Registration, PriceSent, FlowBounded
<1>4. Committed' \subseteq Committed
  BY DEF Committed, AcknowledgedOpen, Ids
<1>5. CommittedBounded'
  <2>1. IsFiniteSet(Committed) /\ Cardinality(Committed) <= ActiveOrderLimit
    BY DEF TradingInv, CommittedBounded
  <2>2. IsFiniteSet(Committed') /\ Cardinality(Committed') <= Cardinality(Committed)
    BY <1>4, <2>1, FS_Subset
  <2>3. /\ Cardinality(Committed') \in Nat /\ Cardinality(Committed) \in Nat
        /\ ActiveOrderLimit \in Nat
    BY <2>1, <2>2, FS_CardinalityType, LimitsAssumption DEF LimitsAssumption
  <2> QED BY <2>1, <2>2, <2>3 DEF CommittedBounded
<1> QED BY <1>2, <1>3, <1>5 DEF TradingInv

\* What the engine does to the gateway is what the gateway allows.
LEMMA EngineRefinesGateway ==
  ASSUME Registration, TradingNext
  PROVE  [Next]_vars
<1>1. CASE TradingConnect
  BY <1>1 DEF TradingConnect, Next
<1>2. CASE RegisterCallbacks \/ OnTick
  BY <1>2 DEF RegisterCallbacks, OnTick
<1>3. CASE CancelAllOrders
  <2>1. PICK r \in Ids : exch[r].status \in Open
                         /\ ExchangeMoves(r, [exch[r] EXCEPT !.status = "CANCELED"])
    BY <1>3 DEF CancelAllOrders
  <2>2. phase = "up"
    BY <1>3 DEF CancelAllOrders, CallerFree, Registration
  <2> QED BY <2>1, <2>2 DEF Next, GatewayNext, CancelOrder
<1>4. ASSUME NEW r \in Requests, TradingSendOrder(r) \/ TradingSendUnconnected(r) \/ TradingSendReturns(r)
      PROVE  [Next]_vars
  <2>1. r \in Ids
    BY DEF Ids
  <2>2. SendOrder(r) \/ HandleReply(r) \/ HandleFailure(r) \/ UNCHANGED vars
    BY <1>4 DEF TradingSendOrder, TradingSendUnconnected, TradingSendReturns
  <2> QED BY <2>1, <2>2 DEF Next, GatewayNext
<1>5. CASE TradingReceive
  BY <1>5 DEF TradingReceive, Next
<1>6. CASE Environment
  BY <1>6 DEF Environment, Next, ExchangeNext
<1> QED BY <1>1, <1>2, <1>3, <1>4, <1>5, <1>6 DEF TradingNext

\* Every step of the engine keeps the invariant.
LEMMA NextTrading ==
  ASSUME TradingInv, [TradingNext]_tradingVars
  PROVE  TradingInv'
<1>1. IInv' /\ TruthInv'
  <2>1. [Next]_vars
    BY EngineRefinesGateway DEF TradingInv, tradingVars
  <2> QED BY <2>1, NextIInv, NextTruth, MaxVolumeAssumption, BoundAssumption DEF TradingInv
<1>2. CASE TradingConnect
  <2>1. /\ UNCHANGED <<bids, asks, flowCount, flowTimer, price, registered, orders, call, exch>>
        /\ phase # "up"
    BY <1>2 DEF TradingConnect, riskVars, bookVars, QueryOpenOrders, StartUserStream, cacheVars
  <2>2. Registration' /\ FlowBounded'
    BY <2>1 DEF TradingInv, Registration, FlowBounded
  <2>3. \A r \in Requests : r \in Committed' => r \in Committed
    BY <2>1 DEF Committed, AcknowledgedOpen
  <2> QED BY <1>1, <2>1, <2>2, <2>3, StillCovered
<1>3. CASE RegisterCallbacks \/ OnTick \/ UNCHANGED tradingVars
  <2>1. /\ UNCHANGED <<bids, asks, price, orders, call, exch, phase>>
        /\ registered' = registered \/ phase = "up"
    <3>1. CASE RegisterCallbacks
      BY <3>1 DEF RegisterCallbacks, riskVars, vars
    <3>2. CASE OnTick
      BY <3>2 DEF OnTick, RiskOnTimer, bookVars, vars
    <3>3. CASE UNCHANGED tradingVars
      BY <3>3 DEF tradingVars, riskVars, vars
    <3> QED BY <1>3, <3>1, <3>2, <3>3 DEF tradingVars
  <2>2. Registration'
    <3>1. registered' => registered \/ phase = "up"
      BY <2>1
    <3>2. ~registered' => ~registered
      BY <1>3 DEF RegisterCallbacks, OnTick, tradingVars
    <3> QED BY <2>1, <3>1, <3>2 DEF TradingInv, Registration
  <2>3. FlowBounded'
    <3>1. CASE OnTick
      BY <3>1, LimitsAssumption DEF OnTick, RiskOnTimer, TradingInv, FlowBounded, LimitsAssumption
    <3>2. CASE RegisterCallbacks \/ UNCHANGED tradingVars
      BY <3>2 DEF RegisterCallbacks, tradingVars, riskVars, TradingInv, FlowBounded
    <3> QED BY <1>3, <3>1, <3>2
  <2>4. \A r \in Requests : r \in Committed' => r \in Committed
    BY <2>1 DEF Committed, AcknowledgedOpen
  <2> QED BY <1>1, <2>1, <2>2, <2>3, <2>4, StillCovered
<1>4. CASE CancelAllOrders \/ Environment
  <2>1. /\ UNCHANGED <<bids, asks, flowCount, flowTimer, price, registered, orders, phase>>
        /\ \A q \in Ids : call'[q] = call[q] /\
             (call[q] = "ok" /\ exch'[q].status \in Open => exch[q].status \in Open)
    <3>1. CASE StreamDrop \/ StreamReconnect
      BY <1>4, <3>1 DEF CancelAllOrders, Environment, riskVars, bookVars, StreamDrop, StreamReconnect,
                        cacheVars
    <3>2. ASSUME NEW r \in Ids,
                 ExchangeAccept(r) \/ ExchangeRefuse(r) \/ ExchangeFill(r) \/ CancelOrder(r)
          PROVE  /\ UNCHANGED <<orders, phase>>
                 /\ \A q \in Ids : call'[q] = call[q] /\
                      (call[q] = "ok" /\ exch'[q].status \in Open => exch[q].status \in Open)
      <4>1. UNCHANGED <<orders, phase>>
        BY <3>2 DEF ExchangeAccept, ExchangeRefuse, ExchangeFill, CancelOrder, ExchangeMoves, cacheVars
      <4> QED BY <3>2, <4>1, StaysClosed DEF TradingInv
    <3>3. CASE CancelAllOrders
      <4>1. PICK r \in Ids : exch[r].status \in Open
                             /\ ExchangeMoves(r, [exch[r] EXCEPT !.status = "CANCELED"])
        BY <3>3 DEF CancelAllOrders
      <4>2. CancelOrder(r)
        BY <3>3, <4>1 DEF CancelAllOrders, CallerFree, TradingInv, Registration, CancelOrder
      <4> QED BY <3>2, <3>3, <4>2 DEF CancelAllOrders, riskVars, bookVars
    <3> QED BY <1>4, <3>1, <3>2, <3>3 DEF Environment, riskVars, bookVars
  <2>2. Registration' /\ FlowBounded'
    BY <2>1 DEF TradingInv, Registration, FlowBounded, Ids
  <2>3. \A r \in Requests : r \in Committed' => r \in Committed
    BY <2>1 DEF Committed, AcknowledgedOpen, Ids
  <2> QED BY <1>1, <2>1, <2>2, <2>3, StillCovered
<1>5. ASSUME NEW r \in Requests, TradingSendOrder(r)
      PROVE  TradingInv'
  BY <1>1, <1>5, SendStep
<1>6. ASSUME NEW r \in Requests, TradingSendUnconnected(r)
      PROVE  TradingInv'
  <2>1. /\ UNCHANGED <<bids, asks, flowTimer, price, registered, orders, call, exch, phase>>
        /\ flowCount < OrderFlowLimit /\ flowCount' = flowCount + 1
    BY <1>6 DEF TradingSendUnconnected, CheckRisk, RiskPasses, vars, bookVars, cacheVars
  <2>2. Registration' /\ FlowBounded'
    BY <2>1, LimitsAssumption DEF TradingInv, Registration, FlowBounded, LimitsAssumption
  <2>3. \A q \in Requests : q \in Committed' => q \in Committed
    BY <2>1 DEF Committed, AcknowledgedOpen
  <2> QED BY <1>1, <2>1, <2>2, <2>3, StillCovered
<1>7. ASSUME NEW r \in Requests, TradingSendReturns(r)
      PROVE  TradingInv'
  <2>1. r \in Ids /\ call[r] = "inflight" /\ UNCHANGED <<price, registered, phase, exch>>
    BY <1>7 DEF TradingSendReturns, HandleReply, HandleFailure, envVars, Ids
  <2>2. registered
    BY <2>1 DEF TradingInv, Registration
  <2>3. \A q \in Ids : \/ call'[q] = call[q]
                       \/ call[q] = "inflight" /\ call'[q] \in {"ok", "failed"}
    BY <1>7, <2>1 DEF TradingSendReturns, HandleReply, HandleFailure, TradingInv, IInv, TypeOK
  <2>4. \A status \in Status : [status |-> status, traded |-> 0] \in OrderData
    BY MaxVolumeAssumption DEF OrderData, MaxVolumeAssumption
  <2>5. PICK k \in {ExchangeId(r), LocalId(r)}, status \in Status :
          /\ ProcessOrderUpdate(k, [status |-> status, traded |-> 0])
          /\ Callbacks("BINANCE_SPOT", k, [status |-> status, traded |-> 0])
    BY <1>7 DEF TradingSendReturns, HandleReply, HandleFailure, Status
  <2> QED BY <1>1, <2>1, <2>2, <2>3, <2>4, <2>5, HandledStep
<1>8. CASE TradingReceive
  <2> DEFINE h == Head(stream)
             o == Update(h)
  <2>1. /\ UNCHANGED <<price, registered, phase, exch, call>>
        /\ ProcessOrderUpdate(ExchangeId(h.id), o)
        /\ Callbacks("", ExchangeId(h.id), o)
    BY <1>8 DEF TradingReceive, ReceiveReport
  <2>2. h \in Reports /\ h = stream[1] /\ 1 \in 1..Len(stream)
    <3>1. stream # <<>> /\ stream \in Seq(Reports)
      BY <1>8 DEF TradingReceive, ReceiveReport, TradingInv, IInv, TypeOK
    <3> QED BY <3>1
  <2>3. h.id \in Ids /\ h.traded \in 0..MaxVolume /\ Placed(h.id)
    BY <2>2 DEF Reports, TradingInv, TruthInv, ReportsPlaced
  <2>4. o \in OrderData
    BY <2>3, UpdateType
  <2>5. h.id \in Requests /\ call[h.id] # "idle"
    BY <2>3, NothingLeftAssumption
       DEF NothingLeftAssumption, Ids, Placed, Open, Closed, TradingInv, IInv, IdleIsUnsent
  <2>6. registered
    BY <2>5 DEF TradingInv, Registration
  <2> HIDE DEF o, h
  <2> QED BY <1>1, <2>1, <2>3, <2>4, <2>5, <2>6, HandledStep
<1> QED
  BY <1>2, <1>3, <1>4, <1>5, <1>6, <1>7, <1>8 DEF TradingNext

---------------------------------------------------------------------------
(* The theorems *)

LEMMA TradingInvariance == TradingSpec => []TradingInv
<1>1. TradingInit => TradingInv
  BY InitTrading, MaxVolumeAssumption, LimitsAssumption
<1>2. TradingInv /\ [TradingNext]_tradingVars => TradingInv'
  BY NextTrading
<1> QED BY <1>1, <1>2, PTL DEF TradingSpec

\* Whatever the stream loses and whichever of reply and report is first, every
\* order the exchange acknowledged and holds open is in the active order book.
THEOREM BookCoversOpenEver == TradingSpec => []BookCoversOpen
<1>1. TradingInv => BookCoversOpen
  BY Covered
<1> QED BY <1>1, TradingInvariance, PTL

\* The application never has more acknowledged orders open than the limit, nor
\* more orders let through between two clears of the flow counter.
THEOREM ActiveOrdersBoundedEver == TradingSpec => []ActiveOrdersBounded
<1>1. ASSUME TradingInv PROVE ActiveOrdersBounded
  <2>1. ActiveOrderLimit \in Nat /\ OrderFlowLimit \in Nat /\ OrderFlowClear \in Nat
    BY LimitsAssumption DEF LimitsAssumption
  <2>2. IsFiniteSet(Committed) /\ Cardinality(Committed) <= ActiveOrderLimit
    BY <1>1 DEF TradingInv, CommittedBounded
  <2>3. AcknowledgedOpen \subseteq Committed
    BY DEF Committed
  <2>4. IsFiniteSet(AcknowledgedOpen) /\ Cardinality(AcknowledgedOpen) <= Cardinality(Committed)
    BY <2>2, <2>3, FS_Subset
  <2>5. Cardinality(AcknowledgedOpen) \in Nat /\ Cardinality(Committed) \in Nat
    BY <2>2, <2>4, FS_CardinalityType
  <2>6. Cardinality(AcknowledgedOpen) <= ActiveOrderLimit
    BY <2>1, <2>2, <2>4, <2>5
  <2>7. flowCount <= OrderFlowLimit /\ flowTimer <= OrderFlowClear
    BY <1>1, <2>1 DEF TradingInv, FlowBounded
  <2> QED BY <2>6, <2>7 DEF ActiveOrdersBounded
<1> QED BY <1>1, TradingInvariance, PTL

\* With prevent_self_trade on, no order is ever sent that would trade with an
\* acknowledged order of ours that is still open, at any prices.
THEOREM NoSelfTradeEver == ASSUME PreventSelfTrade PROVE TradingSpec => NoSelfTrade
<1> DEFINE NoCrossStep ==
      \A r \in Requests : price'[r] # price[r] =>
        \A s \in AcknowledgedOpen : ~CrossesOwn(r, price'[r], s)
<1>1. ASSUME TradingInv, [TradingNext]_tradingVars,
             NEW r \in Requests, price'[r] # price[r], NEW s \in AcknowledgedOpen
      PROVE  ~CrossesOwn(r, price'[r], s)
  <2>1. PICK q \in Requests : TradingSendOrder(q)
    BY <1>1 DEF TradingNext, tradingVars, TradingConnect, RegisterCallbacks, CancelAllOrders, OnTick,
                TradingSendUnconnected, TradingSendReturns, TradingReceive, Environment
  <2>2. PICK p \in PriceOf[q] : price' = [price EXCEPT ![q] = p] /\ CheckRisk(Long[q], p, MaxVolume)
    BY <2>1 DEF TradingSendOrder
  <2>3. r = q /\ price'[r] = p /\ p \in Nat
    BY <1>1, <2>2, RequestsAssumption DEF TradingInv, PriceSent, Ids, RequestsAssumption
  <2>4. ~Crosses(Long[r], p)
    BY <2>2, <2>3 DEF CheckRisk, RiskPasses
  <2>5. s \in Requests /\ BooksOf(s) # {}
    BY <1>1, Covered DEF AcknowledgedOpen, BookCoversOpen
  <2> QED BY <1>1, <2>3, <2>4, <2>5, NoCross, RequestsAssumption DEF TradingInv
<1>2. TradingInv /\ [TradingNext]_tradingVars => [NoCrossStep]_tradingVars
  BY <1>1
<1> QED BY <1>2, TradingInvariance, PTL DEF TradingSpec, NoSelfTrade
============================================================================
