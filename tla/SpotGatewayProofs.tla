------------------------- MODULE SpotGatewayProofs -------------------------
(* Safety of the order cache of BinanceSpotGateway, for any number of orders   *)
(* and any volume.                                                             *)
EXTENDS SpotGateway, TLAPS

(* The inductive invariant: nothing on its way to the cache, and nothing in    *)
(* it, claims more than the exchange executed; until connect() is done the     *)
(* stream is silent and an entry still to be loaded is absent from the cache.  *)
ReportsBounded == \A i \in 1..Len(stream) : stream[i].traded <= exch[stream[i].id].traded
CacheBounded == \A r \in Ids : orders[ExchangeId(r)].traded <= exch[r].traded
LoadBounded == \A o \in toLoad : o.traded <= exch[o.id].traded
LoadIsNew == \A o \in toLoad : orders[ExchangeId(o.id)] = NoOrder
LoadUnique == \A o, p \in toLoad : o.id = p.id => o = p
QuietBefore ==
  phase # "up" => stream = <<>> /\ userStream # "up" /\ \A r \in Ids : call[r] = "idle"
DownIsEmpty == phase = "down" => \A k \in Keys : orders[k] = NoOrder
LoadPhase == toLoad # {} => phase = "loading"
IdleIsUnsent == \A r \in Requests : call[r] = "idle" => exch[r].status = "NONE"
UnplacedIsUntraded == \A r \in Ids : ~Placed(r) => exch[r].traded = 0

IInv ==
  /\ TypeOK
  /\ TradesAccountForCache
  /\ ReportsBounded
  /\ CacheBounded
  /\ LoadBounded /\ LoadIsNew /\ LoadUnique /\ LoadPhase
  /\ QuietBefore
  /\ DownIsEmpty
  /\ UnplacedIsUntraded
  /\ IdleIsUnsent

---------------------------------------------------------------------------
(* Order ids *)

\* The id the exchange assigns is never the id the gateway generated.
LEMMA KeyFacts ==
  /\ \A r \in Ids : ExchangeId(r) \in Keys /\ LocalId(r) \in Keys
  /\ \A r, q \in Ids : ExchangeId(r) = ExchangeId(q) => r = q
  /\ \A r, q \in Ids : ExchangeId(r) # LocalId(q)
  BY DEF ExchangeId, LocalId, Keys

\* What the exchange reports is order data once its status is mapped.
LEMMA UpdateType ==
  ASSUME NEW o, o.traded \in 0..MaxVolume
  PROVE  Update(o) \in OrderData /\ Update(o).traded = o.traded
  BY DEF Update, OrderData, StatusFromBinance, Status

\* What process_order_update makes of the cache: the update is stored, or the
\* entry keeps the same volume and status, or the update is older than it.
LEMMA UpdateOutcome ==
  ASSUME orders \in [Keys -> OrderData \cup {NoOrder}],
         NEW k \in Keys, NEW o \in OrderData, ProcessOrderUpdate(k, o)
  PROVE  /\ \/ Accepts(k, o) /\ orders' = [orders EXCEPT ![k] = o] /\ orders'[k] = o
            \/ ~Accepts(k, o) /\ orders' = orders /\ ~IsNew(k)
         /\ \A j \in Keys \ {k} : orders'[j] = orders[j]
         /\ ~IsNew(k)'
         /\ orders'[k].traded # o.traded \/ orders'[k].status # o.status
              => orders'[k] = orders[k] /\ o.traded < orders[k].traded
         /\ o.traded < orders[k].traded => orders'[k] = orders[k]
<1>1. orders[k].traded \in 0..MaxVolume /\ o.traded \in 0..MaxVolume /\ MaxVolume \in Nat
      /\ o # NoOrder
  BY MaxVolumeAssumption DEF OrderData, NoOrder, Status
<1>2. CASE Accepts(k, o)
  <2>1. orders' = [orders EXCEPT ![k] = o]
    BY <1>2 DEF ProcessOrderUpdate, Store
  <2>2. ~(o.traded < orders[k].traded)
    BY <1>1, <1>2 DEF Accepts, OutOfSequence, IsNew, NoOrder
  <2> QED BY <1>1, <1>2, <2>1, <2>2 DEF IsNew
<1>3. CASE ~Accepts(k, o)
  <2>1. orders' = orders BY <1>3 DEF ProcessOrderUpdate
  <2> QED BY <1>1, <1>3, <2>1 DEF Accepts, OutOfSequence, Unchanged, IsNew
<1> QED BY <1>2, <1>3

\* One process_order_update keeps the cache typed and the trades in step with
\* it, touches one entry, and moves that entry's volume to the update's or not
\* at all, and never back.
LEMMA UpdateStep ==
  ASSUME MaxVolumeAssumption, TypeOK, TradesAccountForCache,
         NEW k \in Keys, NEW o \in OrderData,
         ProcessOrderUpdate(k, o)
  PROVE  /\ orders' \in [Keys -> OrderData \cup {NoOrder}]
         /\ base' \in [Keys -> 0..MaxVolume]
         /\ emitted' \in [Keys -> 0..MaxVolume]
         /\ TradesAccountForCache'
         /\ \A j \in Keys \ {k} : orders'[j] = orders[j]
         /\ orders'[k].traded \in {orders[k].traded, o.traded}
         /\ orders'[k].traded >= orders[k].traded
<1> DEFINE old == orders[k]
<1>1. /\ old.traded \in 0..MaxVolume /\ o.traded \in 0..MaxVolume
      /\ MaxVolume \in Nat
      /\ base[k] \in 0..MaxVolume /\ emitted[k] \in 0..MaxVolume
      /\ old.traded = base[k] + emitted[k]
  BY DEF MaxVolumeAssumption, TypeOK, OrderData, NoOrder, TradesAccountForCache
<1> DEFINE Outcome(new, b, e) ==
      /\ new \in OrderData \cup {NoOrder}
      /\ new.traded \in {old.traded, o.traded} /\ new.traded >= old.traded
      /\ b \in 0..MaxVolume /\ e \in 0..MaxVolume /\ new.traded = b + e
      /\ orders' = [orders EXCEPT ![k] = new]
      /\ base' = [base EXCEPT ![k] = b]
      /\ emitted' = [emitted EXCEPT ![k] = e]
<1>a. ASSUME NEW new, NEW b, NEW e, Outcome(new, b, e)
      PROVE  /\ orders' \in [Keys -> OrderData \cup {NoOrder}]
             /\ base' \in [Keys -> 0..MaxVolume]
             /\ emitted' \in [Keys -> 0..MaxVolume]
             /\ TradesAccountForCache'
             /\ \A j \in Keys \ {k} : orders'[j] = orders[j]
             /\ orders'[k].traded \in {orders[k].traded, o.traded}
             /\ orders'[k].traded >= orders[k].traded
  BY <1>a DEF TypeOK, TradesAccountForCache
<1>2. CASE IsNew(k)
  <2>2. old.traded = 0 /\ base[k] = 0 /\ emitted[k] = 0
    BY <1>1, <1>2 DEF IsNew, NoOrder
  <2>a. Unexplained(k, o) = o.traded
    BY <1>1, <2>2 DEF Unexplained
  <2>1. /\ orders' = [orders EXCEPT ![k] = o]
        /\ base' = [base EXCEPT ![k] = o.traded]
    BY <1>2, <2>a DEF ProcessOrderUpdate, Accepts, OutOfSequence, Unchanged, Store
  <2>3. emitted' = [emitted EXCEPT ![k] = 0]
    BY <2>2, <1>2 DEF ProcessOrderUpdate, TradeVolume
  <2> QED
    <3>1. Outcome(o, o.traded, 0) BY <1>1, <2>1, <2>2, <2>3
    <3> QED BY <3>1, <1>a
<1>3. CASE ~IsNew(k) /\ OutOfSequence(k, o)
  <2>1. orders' = orders /\ base' = base
    BY <1>3 DEF ProcessOrderUpdate, Accepts
  <2>2. emitted' = [emitted EXCEPT ![k] = emitted[k]]
    <3>1. ~(o.traded > orders[k].traded)
      BY <1>1, <1>3 DEF OutOfSequence
    <3>2. TradeVolume(k, o) = 0
      BY <3>1 DEF TradeVolume
    <3>3. emitted[k] + TradeVolume(k, o) = emitted[k]
      BY <1>1, <3>2
    <3> QED BY <3>3 DEF ProcessOrderUpdate
  <2> QED
    <3>1. Outcome(old, base[k], emitted[k]) BY <1>1, <2>1, <2>2 DEF TypeOK
    <3> QED BY <3>1, <1>a
<1>4. CASE ~IsNew(k) /\ ~OutOfSequence(k, o)
  <2>1. base' = base /\ o.traded >= old.traded
    BY <1>1, <1>4 DEF ProcessOrderUpdate, OutOfSequence
  <2>2. TradeVolume(k, o) = o.traded - old.traded
    BY <1>1, <1>4, <2>1 DEF TradeVolume
  <2>3. emitted' = [emitted EXCEPT ![k] = o.traded - base[k]]
    <3>1. emitted[k] + TradeVolume(k, o) = o.traded - base[k]
      BY <1>1, <2>2
    <3> QED BY <3>1 DEF ProcessOrderUpdate
  <2>4. o.traded - base[k] \in 0..MaxVolume /\ o.traded = base[k] + (o.traded - base[k])
    BY <1>1, <2>1
  <2>5. CASE Unchanged(k, o)
    <3>1. orders' = orders /\ o.traded = old.traded
      BY <2>5 DEF ProcessOrderUpdate, Accepts, Unchanged
    <3>2. Outcome(old, base[k], o.traded - base[k])
      BY <1>1, <2>1, <2>3, <2>4, <3>1 DEF TypeOK
    <3> QED BY <3>2, <1>a
  <2>6. CASE ~Unchanged(k, o)
    <3>1. orders' = [orders EXCEPT ![k] = o]
      BY <1>4, <2>6 DEF ProcessOrderUpdate, Accepts, Store
    <3>2. Outcome(o, base[k], o.traded - base[k])
      BY <1>1, <2>1, <2>3, <2>4, <3>1 DEF TypeOK
    <3> QED BY <3>2, <1>a
  <2> QED BY <2>5, <2>6
<1> QED BY <1>2, <1>3, <1>4

---------------------------------------------------------------------------
(* The invariant is inductive *)

\* Before connect() nothing is cached, loaded or in flight.
LEMMA InitIInv ==
  ASSUME MaxVolumeAssumption, Init
  PROVE  IInv
<1>1. TypeOK
  <2>1. 0 \in 0..MaxVolume BY DEF MaxVolumeAssumption
  <2>2. stream \in Seq(Reports)
    BY DEF Init
  <2>3. exch \in [Ids -> [status : ExchStatus, traded : 0..MaxVolume]]
    BY <2>1 DEF Init, ExchStatus, Open
  <2> QED BY <2>1, <2>2, <2>3 DEF Init, TypeOK
<1>2. TradesAccountForCache
  BY DEF Init, TradesAccountForCache, NoOrder
<1>3. CacheBounded
  BY KeyFacts DEF Init, CacheBounded, NoOrder
<1>4. ReportsBounded
  BY DEF Init, ReportsBounded
<1>5. IdleIsUnsent
  BY LeftAssumption DEF Init, IdleIsUnsent, Ids
<1> QED
  BY <1>1, <1>2, <1>3, <1>4, <1>5
     DEF Init, IInv, LoadBounded, LoadIsNew, LoadUnique, LoadPhase, QuietBefore, DownIsEmpty,
         Ids, UnplacedIsUntraded

\* A change at the exchange only adds executed volume and one report of it.
LEMMA ExchangeKeeps ==
  ASSUME IInv, NEW r \in Ids,
         NEW o \in [status : Open \cup Closed, traded : 0..MaxVolume],
         o.traded >= exch[r].traded, exch[r].status # "NONE",
         ExchangeMoves(r, o)
  PROVE  IInv'
<1>1. o.traded \in Nat /\ exch[r].traded \in Nat /\ \A q \in Ids : exch[q].traded \in Nat
  BY DEF IInv, TypeOK
<1>a. exch' = [exch EXCEPT ![r] = o] /\ exch'[r] = o
  BY DEF ExchangeMoves, IInv, TypeOK
<1>b. \A i \in 1..Len(stream) : stream[i].id \in Ids /\ stream[i].traded \in Nat
  <2>1. \A i \in 1..Len(stream) : stream[i] \in Reports
    BY DEF IInv, TypeOK
  <2> QED BY <2>1 DEF Reports
<1>2. exch' \in [Ids -> [status : ExchStatus, traded : 0..MaxVolume]]
  BY DEF ExchangeMoves, IInv, TypeOK, ExchStatus
<1>3. \A q \in Ids : exch'[q].traded >= exch[q].traded /\ exch'[q].traded \in Nat
  BY <1>1 DEF ExchangeMoves, IInv, TypeOK
<1>4. /\ stream' \in Seq(Reports)
      /\ ReportsBounded'
      /\ userStream' = userStream /\ (userStream # "up" => stream' = stream)
  <2>1. CASE userStream = "up"
    <3> DEFINE new == Report(r, o)
    <3>1. new \in Reports
      BY DEF Report, Reports
    <3>2. stream' = Append(stream, new)
      BY <2>1 DEF ExchangeMoves
    <3>3. exch'[new.id].traded = new.traded
      BY <1>a DEF Report
    <3>5. ReportsBounded'
      <4> SUFFICES ASSUME NEW i \in 1..Len(stream')
                   PROVE  stream'[i].traded <= exch'[stream'[i].id].traded
        BY DEF ReportsBounded
      <4>1. CASE i = Len(stream) + 1
        BY <3>1, <3>2, <3>3, <4>1, <1>1 DEF IInv, TypeOK, Report
      <4>2. CASE i \in 1..Len(stream)
        <5>1. stream'[i] = stream[i]
          BY <3>2, <4>2 DEF IInv, TypeOK
        <5>2. stream[i].traded <= exch[stream[i].id].traded
          BY <4>2 DEF IInv, ReportsBounded
        <5> QED BY <5>1, <5>2, <1>b, <4>2, <1>1, <1>3
      <4> QED
        BY <3>1, <3>2, <4>1, <4>2 DEF IInv, TypeOK
    <3> QED
      BY <2>1, <3>1, <3>2, <3>5 DEF ExchangeMoves, IInv, TypeOK
  <2>2. CASE userStream # "up"
    <3>1. stream' = stream /\ userStream' = userStream
      BY <2>2 DEF ExchangeMoves
    <3>2. ReportsBounded'
      BY <3>1, <1>b, <1>1, <1>3, SMTT(60) DEF IInv, ReportsBounded
    <3> QED BY <3>1, <3>2 DEF IInv, TypeOK
  <2> QED BY <2>1, <2>2
<1>5. missed' \subseteq Ids
  BY DEF ExchangeMoves, IInv, TypeOK
<1>6. UNCHANGED <<phase, toLoad, call, orders, base, emitted>>
  BY DEF ExchangeMoves, cacheVars
<1>7. CacheBounded'
  <2>1. \A q \in Ids : orders[ExchangeId(q)].traded \in Nat
    BY KeyFacts DEF IInv, TypeOK, OrderData, NoOrder
  <2> QED BY <2>1, <1>1, <1>3, <1>6 DEF IInv, CacheBounded
<1>8. LoadBounded'
  <2>1. \A p \in toLoad : p.id \in Ids /\ p.traded \in Nat
    BY DEF IInv, TypeOK
  <2> QED BY <2>1, <1>1, <1>3, <1>6 DEF IInv, LoadBounded
<1>9. QuietBefore'
  BY <1>4, <1>6 DEF IInv, QuietBefore
<1>10. UnplacedIsUntraded'
  BY <1>a, <1>1 DEF ExchangeMoves, IInv, TypeOK, UnplacedIsUntraded, Placed
<1>11. IdleIsUnsent'
  BY <1>a, <1>6 DEF ExchangeMoves, IInv, TypeOK, IdleIsUnsent, Ids
<1> QED
  BY <1>2, <1>4, <1>5, <1>6, <1>7, <1>8, <1>9, <1>10, <1>11
     DEF IInv, TypeOK, TradesAccountForCache, LoadIsNew, LoadUnique, LoadPhase, DownIsEmpty

\* process_order_update for an order that claims no more than was executed, in
\* a step that leaves the exchange alone once connect() is done.
LEMMA CacheStep ==
  ASSUME MaxVolumeAssumption, IInv,
         phase = "up", phase' = phase, toLoad' = toLoad,
         exch' = exch, userStream' = userStream, missed' = missed,
         call' \in [Ids -> {"idle", "inflight", "ok", "failed"}],
         \A q \in Ids : call'[q] = "idle" => call[q] = "idle",
         stream' \in Seq(Reports), ReportsBounded',
         NEW r \in Ids, NEW k \in {ExchangeId(r), LocalId(r)}, NEW o \in OrderData,
         k = ExchangeId(r) => o.traded <= exch[r].traded,
         ProcessOrderUpdate(k, o)
  PROVE  IInv'
<1>1. k \in Keys
  BY KeyFacts
<1>2. /\ orders' \in [Keys -> OrderData \cup {NoOrder}]
      /\ base' \in [Keys -> 0..MaxVolume]
      /\ emitted' \in [Keys -> 0..MaxVolume]
      /\ TradesAccountForCache'
      /\ \A j \in Keys \ {k} : orders'[j] = orders[j]
      /\ orders'[k].traded \in {orders[k].traded, o.traded}
  BY <1>1, UpdateStep DEF IInv
<1>3. CacheBounded'
  <2> SUFFICES ASSUME NEW q \in Ids
               PROVE  orders'[ExchangeId(q)].traded <= exch[q].traded
    BY DEF CacheBounded
  <2>1. orders[ExchangeId(q)].traded <= exch[q].traded
    BY DEF IInv, CacheBounded
  <2>2. CASE k = ExchangeId(q)
    <3>1. r = q BY <2>2, KeyFacts
    <3> QED BY <1>2, <2>1, <2>2, <3>1
  <2>3. CASE k # ExchangeId(q)
    BY <1>2, <2>1, <2>3, KeyFacts
  <2> QED BY <2>2, <2>3
<1>4. toLoad = {}
  BY DEF IInv, LoadPhase
<1>5. TypeOK'
  BY <1>2 DEF IInv, TypeOK
<1> QED
  BY <1>2, <1>3, <1>4, <1>5
     DEF IInv, LoadBounded, LoadIsNew, LoadUnique, LoadPhase, QuietBefore, DownIsEmpty,
         UnplacedIsUntraded, Placed, IdleIsUnsent, Ids

\* A step at the exchange, or up to it, that executes nothing.
LEMMA QuietStep ==
  ASSUME IInv,
         exch' \in [Ids -> [status : ExchStatus, traded : 0..MaxVolume]],
         \A q \in Ids : exch'[q].traded = exch[q].traded,
         call' \in [Ids -> {"idle", "inflight", "ok", "failed"}],
         phase # "up" => call' = call,
         UNCHANGED <<phase, toLoad, userStream, stream, missed, orders, base, emitted>>,
         UnplacedIsUntraded', IdleIsUnsent'
  PROVE  IInv'
<1>1. \A i \in 1..Len(stream) : stream[i] \in Reports
  BY DEF IInv, TypeOK
<1>2. ReportsBounded'
  BY <1>1 DEF IInv, ReportsBounded, Reports
<1>3. LoadBounded'
  BY DEF IInv, TypeOK, LoadBounded
<1> QED
  BY <1>2, <1>3
     DEF IInv, TypeOK, TradesAccountForCache, CacheBounded, LoadIsNew, LoadUnique,
         LoadPhase, QuietBefore, DownIsEmpty

\* Every step of the system keeps the invariant.
LEMMA NextIInv ==
  ASSUME MaxVolumeAssumption, BoundAssumption, IInv, [Next]_vars
  PROVE  IInv'
<1> USE DEF Ids
<1>1. ASSUME NEW r \in Ids, ExchangeNext(r) \/ CancelOrder(r)
      PROVE  IInv'
  <2>1. /\ MaxVolume \in Nat
        /\ exch[r].status \in ExchStatus /\ exch[r].traded \in 0..MaxVolume
        /\ exch[r] = [status |-> exch[r].status, traded |-> exch[r].traded]
    BY DEF IInv, TypeOK, MaxVolumeAssumption
  <2>2. CASE ExchangeAccept(r)
    <3> DEFINE o == [status |-> "NEW", traded |-> 0]
    <3>1. o \in [status : Open \cup Closed, traded : 0..MaxVolume] /\ o.traded = 0
      BY <2>1 DEF Open
    <3>2. exch[r].traded = 0
      BY <2>2 DEF ExchangeAccept, IInv, UnplacedIsUntraded, Placed, Open, Closed
    <3> QED
      BY <2>2, <3>1, <3>2, ExchangeKeeps DEF ExchangeAccept
  <2>3. CASE ExchangeRefuse(r)
    <3>1. /\ exch' \in [Ids -> [status : ExchStatus, traded : 0..MaxVolume]]
          /\ \A q \in Ids : exch'[q].traded = exch[q].traded
          /\ UnplacedIsUntraded' /\ IdleIsUnsent'
      BY <2>1, <2>3
         DEF ExchangeRefuse, IInv, TypeOK, ExchStatus, UnplacedIsUntraded, IdleIsUnsent,
             Placed, Open, Closed, Ids
    <3> QED
      BY <2>3, <3>1, QuietStep DEF ExchangeRefuse, cacheVars, IInv, TypeOK
  <2>4. CASE ExchangeFill(r)
    <3>1. PICK t \in exch[r].traded + 1 .. MaxVolume :
            ExchangeMoves(r, [status |-> IF t = MaxVolume THEN "FILLED" ELSE "PARTIALLY_FILLED",
                              traded |-> t])
      BY <2>4 DEF ExchangeFill
    <3> DEFINE o == [status |-> IF t = MaxVolume THEN "FILLED" ELSE "PARTIALLY_FILLED",
                     traded |-> t]
    <3>2. o \in [status : Open \cup Closed, traded : 0..MaxVolume]
          /\ o.traded >= exch[r].traded /\ exch[r].status # "NONE"
      BY <2>1, <2>4 DEF Open, Closed, ExchangeFill
    <3> QED
      BY <3>1, <3>2, ExchangeKeeps
  <2>5. CASE ExchangeExpire(r) \/ CancelOrder(r)
    <3>1. PICK s \in Closed : ExchangeMoves(r, [exch[r] EXCEPT !.status = s])
      BY <2>5 DEF ExchangeExpire, CancelOrder, Closed
    <3> DEFINE o == [exch[r] EXCEPT !.status = s]
    <3>2. o \in [status : Open \cup Closed, traded : 0..MaxVolume]
          /\ o.traded >= exch[r].traded /\ exch[r].status # "NONE"
      BY <2>1, <2>5 DEF ExchangeExpire, CancelOrder, Open
    <3> QED
      BY <3>1, <3>2, ExchangeKeeps
  <2> QED BY <1>1, <2>2, <2>3, <2>4, <2>5 DEF ExchangeNext
<1>2. ASSUME NEW r \in Ids, SendOrder(r)
      PROVE  IInv'
  <2>1. /\ exch' \in [Ids -> [status : ExchStatus, traded : 0..MaxVolume]]
        /\ call' \in [Ids -> {"idle", "inflight", "ok", "failed"}]
        /\ \A q \in Ids : exch'[q].traded = exch[q].traded
    BY <1>2 DEF SendOrder, IInv, TypeOK, ExchStatus
  <2>2. exch[r].status = "NONE"
    BY <1>2 DEF SendOrder, IInv, IdleIsUnsent
  <2>3. UnplacedIsUntraded'
    BY <1>2, <2>2 DEF SendOrder, IInv, TypeOK, UnplacedIsUntraded, Placed, Open, Closed
  <2>4. IdleIsUnsent'
    BY <1>2 DEF SendOrder, IInv, TypeOK, IdleIsUnsent
  <2> QED
    BY <1>2, <2>1, <2>3, <2>4, QuietStep DEF SendOrder, cacheVars
<1>3. ASSUME NEW r \in Ids, HandleReply(r)
      PROVE  IInv'
  <2> DEFINE o == [status |-> "NOTTRADED", traded |-> 0]
  <2>1. phase = "up" /\ UNCHANGED <<phase, toLoad, userStream, stream, exch, missed>>
    BY <1>3 DEF HandleReply, IInv, QuietBefore, envVars
  <2>2. o \in OrderData /\ o.traded <= exch[r].traded
    BY DEF OrderData, Status, IInv, TypeOK, MaxVolumeAssumption
  <2>3. /\ call' \in [Ids -> {"idle", "inflight", "ok", "failed"}]
        /\ \A q \in Ids : call'[q] = "idle" => call[q] = "idle"
    BY <1>3 DEF HandleReply, IInv, TypeOK
  <2>4. stream' \in Seq(Reports) /\ ReportsBounded'
    BY <2>1 DEF IInv, TypeOK, ReportsBounded
  <2> QED
    BY <1>3, <2>1, <2>2, <2>3, <2>4, CacheStep DEF HandleReply
<1>4. ASSUME NEW r \in Ids, HandleFailure(r)
      PROVE  IInv'
  <2> DEFINE o == [status |-> "REJECTED", traded |-> 0]
  <2>1. phase = "up" /\ UNCHANGED <<phase, toLoad, userStream, stream, exch, missed>>
    BY <1>4 DEF HandleFailure, IInv, QuietBefore, envVars
  <2>2. o \in OrderData
    BY DEF OrderData, Status, MaxVolumeAssumption
  <2>3. /\ call' \in [Ids -> {"idle", "inflight", "ok", "failed"}]
        /\ \A q \in Ids : call'[q] = "idle" => call[q] = "idle"
    BY <1>4 DEF HandleFailure, IInv, TypeOK
  <2>4. stream' \in Seq(Reports) /\ ReportsBounded'
    BY <2>1 DEF IInv, TypeOK, ReportsBounded
  <2>5. LocalId(r) # ExchangeId(r)
    BY KeyFacts
  <2> QED
    BY <1>4, <2>1, <2>2, <2>3, <2>4, <2>5, CacheStep DEF HandleFailure
<1>5. ASSUME ReceiveReport
      PROVE  IInv'
  <2> DEFINE h == Head(stream)
  <2>1. /\ phase = "up" /\ stream # <<>>
        /\ UNCHANGED <<phase, toLoad, call, userStream, exch, missed>>
    BY <1>5 DEF ReceiveReport, IInv, QuietBefore
  <2>2. stream \in Seq(Reports) /\ stream' = Tail(stream)
    BY <1>5 DEF ReceiveReport, IInv, TypeOK
  <2>3. h \in Reports /\ h = stream[1] /\ 1 \in 1..Len(stream)
    BY <2>1, <2>2
  <2>4. h.id \in Ids /\ h.traded \in 0..MaxVolume /\ h.traded <= exch[h.id].traded
    BY <2>3 DEF IInv, ReportsBounded, Reports
  <2>5. stream' \in Seq(Reports)
        /\ \A i \in 1..Len(stream') : i + 1 \in 1..Len(stream) /\ stream'[i] = stream[i + 1]
    BY <2>1, <2>2
  <2>6. ReportsBounded'
    BY <2>1, <2>5 DEF IInv, ReportsBounded
  <2>7. Update(h) \in OrderData /\ Update(h).traded = h.traded
    BY <2>4, UpdateType
  <2>8. ProcessOrderUpdate(ExchangeId(h.id), Update(h))
    BY <1>5 DEF ReceiveReport
  <2>9. call' \in [Ids -> {"idle", "inflight", "ok", "failed"}]
    BY <2>1 DEF IInv, TypeOK
  <2> QED
    BY <2>1, <2>4, <2>5, <2>6, <2>7, <2>8, <2>9, CacheStep
<1>6. ASSUME QueryOpenOrders
      PROVE  IInv'
  <2> DEFINE found == {x \in Ids : exch[x].status \in Open}
  <2>1. /\ phase = "down" /\ phase' = "loading"
        /\ toLoad' = {Report(r, exch[r]) : r \in found} \/ toLoad' = {}
        /\ missed' \subseteq Ids
        /\ UNCHANGED <<call, userStream, stream, exch, orders, base, emitted>>
    BY <1>6 DEF QueryOpenOrders, cacheVars, IInv, TypeOK
  <2>2. \A o \in toLoad' : /\ o.id \in Ids /\ o = Report(o.id, exch[o.id])
                            /\ o.traded = exch[o.id].traded
                            /\ exch[o.id].status \in Open
    BY <2>1 DEF Report
  <2>3. toLoad' \subseteq [id : Ids, status : Open, traded : 0..MaxVolume]
    BY <2>2 DEF IInv, TypeOK, Report
  <2>4. TypeOK'
    BY <2>1, <2>3 DEF IInv, TypeOK
  <2>5. LoadBounded'
    BY <2>1, <2>2, <2>3 DEF LoadBounded, IInv, TypeOK
  <2>6. LoadIsNew'
    BY <2>1, <2>2, KeyFacts DEF LoadIsNew, IInv, DownIsEmpty
  <2>7. LoadUnique'
    BY <2>1, <2>2 DEF LoadUnique
  <2> QED
    BY <2>1, <2>4, <2>5, <2>6, <2>7
       DEF IInv, TradesAccountForCache, ReportsBounded, CacheBounded, LoadPhase,
           QuietBefore, DownIsEmpty, UnplacedIsUntraded, Placed, IdleIsUnsent
<1>7. ASSUME NEW o \in toLoad, LoadOpenOrder(o)
      PROVE  IInv'
  <2> DEFINE k == ExchangeId(o.id)
  <2>a. /\ phase = "loading" /\ toLoad' = toLoad \ {o}
        /\ orders' = [orders EXCEPT ![k] = Update(o)]
        /\ base' = [base EXCEPT ![k] = Unexplained(k, o)]
        /\ UNCHANGED <<phase, call, userStream, stream, exch, missed, emitted>>
    BY <1>7 DEF LoadOpenOrder, Store, envVars
  <2>2. /\ o.id \in Ids /\ o.traded \in 0..MaxVolume /\ k \in Keys
        /\ o.traded <= exch[o.id].traded
    BY KeyFacts DEF IInv, TypeOK, LoadBounded
  <2>3. Update(o) \in OrderData /\ Update(o).traded = o.traded
    BY <2>2, UpdateType
  <2>5. base[k] \in Nat /\ emitted[k] \in Nat /\ orders[k].traded = 0
        /\ orders[k].traded = base[k] + emitted[k]
    BY <2>2 DEF IInv, TypeOK, TradesAccountForCache, LoadIsNew, NoOrder
  <2>6. emitted[k] = 0 /\ base[k] = 0
    BY <2>5
  <2>b. Unexplained(k, o) = o.traded
    BY <2>2, <2>6, MaxVolumeAssumption DEF Unexplained
  <2>1. /\ phase = "loading" /\ toLoad' = toLoad \ {o}
        /\ orders' = [orders EXCEPT ![k] = Update(o)]
        /\ base' = [base EXCEPT ![k] = o.traded]
        /\ UNCHANGED <<phase, call, userStream, stream, exch, missed, emitted>>
    BY <2>a, <2>b
  <2>4. TypeOK'
    BY <2>1, <2>2, <2>3 DEF IInv, TypeOK
  <2>7. TradesAccountForCache'
    <3> SUFFICES ASSUME NEW j \in Keys
                 PROVE  orders'[j].traded = base'[j] + emitted'[j]
      BY DEF TradesAccountForCache
    <3>1. CASE j = k
      BY <2>1, <2>2, <2>3, <2>6, <3>1 DEF IInv, TypeOK
    <3>2. CASE j # k
      BY <2>1, <3>2 DEF IInv, TypeOK, TradesAccountForCache
    <3> QED BY <3>1, <3>2
  <2>8. CacheBounded'
    BY <2>1, <2>2, <2>3, KeyFacts DEF IInv, TypeOK, CacheBounded
  <2>9. LoadIsNew'
    <3> SUFFICES ASSUME NEW p \in toLoad, p # o
                 PROVE  orders'[ExchangeId(p.id)] = NoOrder
      BY <2>1 DEF LoadIsNew
    <3>1. p.id \in Ids /\ p.id # o.id /\ orders[ExchangeId(p.id)] = NoOrder
      BY DEF IInv, TypeOK, LoadUnique, LoadIsNew
    <3>2. ExchangeId(p.id) \in Keys /\ ExchangeId(p.id) # k
      BY <2>2, <3>1, KeyFacts
    <3> QED
      BY <2>1, <3>1, <3>2 DEF IInv, TypeOK
  <2> QED
    BY <2>1, <2>4, <2>7, <2>8, <2>9
       DEF IInv, ReportsBounded, LoadBounded, LoadUnique, LoadPhase,
           QuietBefore, DownIsEmpty, UnplacedIsUntraded, Placed, IdleIsUnsent
<1>8. ASSUME StartUserStream
      PROVE  IInv'
  <2>1. /\ phase = "loading" /\ toLoad = {} /\ phase' = "up"
        /\ userStream' \in {"none", "down", "up"}
        /\ UNCHANGED <<toLoad, call, stream, exch, missed, orders, base, emitted>>
    <3>1. stream = <<>>
      BY <1>8 DEF StartUserStream, IInv, QuietBefore
    <3>2. DOMAIN stream = {}
      BY <3>1
    <3> QED BY <1>8, <3>1, <3>2 DEF StartUserStream, InFlightIsLost, cacheVars, IInv, TypeOK
  <2>2. TypeOK'
    BY <2>1 DEF IInv, TypeOK
  <2> QED
    BY <2>1, <2>2
       DEF IInv, TradesAccountForCache, ReportsBounded, CacheBounded, LoadBounded, LoadIsNew,
           LoadUnique, LoadPhase, QuietBefore, DownIsEmpty, UnplacedIsUntraded, Placed,
           IdleIsUnsent
<1>9. ASSUME StreamDrop \/ StreamReconnect
      PROVE  IInv'
  <2>1. /\ UNCHANGED <<phase, toLoad, call, exch, orders, base, emitted>>
        /\ stream' = <<>> \/ stream' = stream
        /\ userStream' \in {"none", "down", "up"} /\ phase = "up"
    BY <1>9 DEF StreamDrop, StreamReconnect, InFlightIsLost, cacheVars, IInv, QuietBefore
  <2>2. \A i \in 1..Len(stream) : stream[i] \in Reports
    BY DEF IInv, TypeOK
  <2>3. missed' \subseteq Ids
    <3> DEFINE dropped == {stream[i].id : i \in DOMAIN stream}
    <3>1. missed' = missed \/ missed' = missed \cup dropped
      BY <1>9 DEF StreamDrop, StreamReconnect, InFlightIsLost
    <3>2. DOMAIN stream = 1..Len(stream)
      BY DEF IInv, TypeOK
    <3>3. \A i \in DOMAIN stream : stream[i].id \in Ids
      BY <2>2, <3>2 DEF Reports
    <3>4. dropped \subseteq Ids
      BY <3>3
    <3> QED BY <3>1, <3>4 DEF IInv, TypeOK
  <2>4. stream' \in Seq(Reports) /\ ReportsBounded'
    <3>1. CASE stream' = <<>>
      BY <3>1 DEF ReportsBounded
    <3>2. CASE stream' = stream
      BY <2>1, <3>2 DEF IInv, TypeOK, ReportsBounded
    <3> QED BY <2>1, <3>1, <3>2
  <2>5. TypeOK'
    BY <2>1, <2>3, <2>4 DEF IInv, TypeOK
  <2>6. QuietBefore'
    BY <2>1 DEF IInv, QuietBefore
  <2> QED
    BY <2>1, <2>4, <2>5, <2>6
       DEF IInv, TradesAccountForCache, CacheBounded, LoadBounded, LoadIsNew,
           LoadUnique, LoadPhase, DownIsEmpty, UnplacedIsUntraded, Placed, IdleIsUnsent
<1>10. CASE UNCHANGED vars
  BY <1>10
     DEF vars, IInv, TypeOK, TradesAccountForCache, ReportsBounded, CacheBounded, LoadBounded,
         LoadIsNew, LoadUnique, LoadPhase, QuietBefore, DownIsEmpty, UnplacedIsUntraded,
         Placed, IdleIsUnsent
<1> QED
  BY <1>1, <1>2, <1>3, <1>4, <1>5, <1>6, <1>7, <1>8, <1>9, <1>10 DEF Next, GatewayNext

---------------------------------------------------------------------------
(* The theorems *)

\* The inductive invariant holds in every state the gateway reaches.
LEMMA Invariance == Spec => []IInv
<1>1. Init => IInv
  BY InitIInv, MaxVolumeAssumption
<1>2. IInv /\ [Next]_vars => IInv'
  BY NextIInv, MaxVolumeAssumption, BoundAssumption
<1> QED
  BY <1>1, <1>2, PTL DEF Spec

\* The gateway's state has its type.
THEOREM TypeCorrect == Spec => []TypeOK
<1>1. IInv => TypeOK
  BY DEF IInv
<1> QED
  BY <1>1, Invariance, PTL

\* The traded volume of every cached order is what it was first seen with plus
\* the trades handed to trade_callback_: no later update is absorbed silently.
THEOREM LedgerExact == Spec => []TradesAccountForCache
<1>1. IInv => TradesAccountForCache
  BY DEF IInv
<1> QED
  BY <1>1, Invariance, PTL

\* The gateway never reports more volume as traded than the exchange executed.
THEOREM NoTradeInventedEver == Spec => []NoTradeInvented
<1>1. ASSUME IInv
      PROVE  NoTradeInvented
  <2> SUFFICES ASSUME NEW r \in Ids
               PROVE  emitted[ExchangeId(r)] <= exch[r].traded
    BY DEF NoTradeInvented
  <2>1. ExchangeId(r) \in Keys
    BY KeyFacts
  <2>2. /\ orders[ExchangeId(r)].traded = base[ExchangeId(r)] + emitted[ExchangeId(r)]
        /\ orders[ExchangeId(r)].traded <= exch[r].traded
        /\ base[ExchangeId(r)] \in Nat /\ emitted[ExchangeId(r)] \in Nat
        /\ exch[r].traded \in Nat
    BY <1>1, <2>1 DEF IInv, TypeOK, TradesAccountForCache, CacheBounded
  <2> QED
    BY <2>2
<1> QED
  BY <1>1, Invariance, PTL

\* No step, of connect(), of a REST reply or of the stream, takes the traded
\* volume of a cached order back.
THEOREM TradedMonotone == Spec => TradedNeverDecreases
<1>1. ASSUME IInv, [Next]_vars
      PROVE  [\A k \in Keys : orders'[k].traded >= orders[k].traded]_vars
  <2> DEFINE Goal == \A k \in Keys : orders'[k].traded >= orders[k].traded
  <2>1. \A k \in Keys : orders[k].traded \in Nat
    BY <1>1 DEF IInv, TypeOK, OrderData, NoOrder
  <2>2. ASSUME orders' = orders
        PROVE  Goal
    BY <2>1, <2>2
  <2>3. ASSUME NEW k \in Keys, NEW o \in OrderData, ProcessOrderUpdate(k, o)
        PROVE  Goal
    <3>1. orders'[k].traded >= orders[k].traded
          /\ \A j \in Keys \ {k} : orders'[j] = orders[j]
      BY <1>1, <2>3, MaxVolumeAssumption, UpdateStep DEF IInv
    <3> QED BY <2>1, <3>1
  <2>4. ASSUME NEW r \in Ids, ExchangeNext(r) \/ SendOrder(r) \/ CancelOrder(r)
        PROVE  orders' = orders
    BY <2>4 DEF ExchangeNext, ExchangeAccept, ExchangeRefuse, ExchangeFill, ExchangeExpire,
                ExchangeMoves, SendOrder, CancelOrder, cacheVars
  <2>5. ASSUME NEW r \in Ids, HandleReply(r)
        PROVE  Goal
    <3>1. [status |-> "NOTTRADED", traded |-> 0] \in OrderData
      BY MaxVolumeAssumption DEF OrderData, Status
    <3> QED BY <2>3, <2>5, <3>1, KeyFacts DEF HandleReply
  <2>6. ASSUME NEW r \in Ids, HandleFailure(r)
        PROVE  Goal
    <3>1. [status |-> "REJECTED", traded |-> 0] \in OrderData
      BY MaxVolumeAssumption DEF OrderData, Status
    <3> QED BY <2>3, <2>6, <3>1, KeyFacts DEF HandleFailure
  <2>7. ASSUME ReceiveReport
        PROVE  Goal
    <3>1. Head(stream) \in Reports
      BY <1>1, <2>7 DEF ReceiveReport, IInv, TypeOK
    <3>2. Update(Head(stream)) \in OrderData /\ Head(stream).id \in Ids
      BY <3>1, UpdateType DEF Reports
    <3> QED BY <2>3, <2>7, <3>2, KeyFacts DEF ReceiveReport
  <2>8. ASSUME NEW o \in toLoad, LoadOpenOrder(o)
        PROVE  Goal
    <3>1. /\ o.id \in Ids /\ o.traded \in 0..MaxVolume
          /\ orders[ExchangeId(o.id)].traded = 0
      BY <1>1 DEF IInv, TypeOK, LoadIsNew, NoOrder
    <3>2. Update(o).traded \in Nat
      BY <3>1, UpdateType, MaxVolumeAssumption
    <3> QED
      BY <1>1, <2>1, <2>8, <3>1, <3>2, KeyFacts DEF LoadOpenOrder, Store, IInv, TypeOK
  <2>9. ASSUME QueryOpenOrders \/ StartUserStream \/ StreamDrop \/ StreamReconnect
        PROVE  orders' = orders
    BY <2>9 DEF QueryOpenOrders, StartUserStream, StreamDrop, StreamReconnect, cacheVars
  <2> QED
    BY <1>1, <2>2, <2>4, <2>5, <2>6, <2>7, <2>8, <2>9 DEF Next, GatewayNext
<1> QED
  BY <1>1, Invariance, PTL DEF Spec, TradedNeverDecreases
---------------------------------------------------------------------------
(* Convergence of the cache                                                    *)
(*                                                                             *)
(* Of an order none of whose changes the gateway misses, the exchange's record *)
(* is always somewhere on its way to the cache: before connect() it is open,   *)
(* so that query_open_orders will find it; while connect() loads it is in the  *)
(* answer or in the cache; afterwards the last report of the order still in    *)
(* flight carries it, or nothing is in flight and the cache has it.            *)
AbsentFrom(s, r) == \A i \in 1..Len(s) : s[i].id # r
LastIs(s, r, m) ==
  \E i \in 1..Len(s) : s[i] = m /\ \A j \in 1..Len(s) : j > i => s[j].id # r
Current(r) ==
  /\ orders[ExchangeId(r)].traded = exch[r].traded
  /\ exch[r].traded > 0 => orders[ExchangeId(r)].status = StatusFromBinance(exch[r].status)
TrackedOrder(r) ==
  Placed(r) =>
    /\ phase = "down" => exch[r].status \in Open
    /\ phase = "loading" => Current(r) \/ \E o \in toLoad : o.id = r
    /\ phase = "up" => \/ LastIs(stream, r, Report(r, exch[r]))
                       \/ AbsentFrom(stream, r) /\ Current(r)
Tracked == \A r \in Ids \ missed : TrackedOrder(r)
LoadCurrent == \A o \in toLoad : o.id \in missed \/ o = Report(o.id, exch[o.id])

\* A report queued behind the others is the last of its order, and it moves no
\* other order's.
LEMMA AppendLast ==
  ASSUME NEW s \in Seq(Reports), NEW m \in Reports
  PROVE  /\ LastIs(Append(s, m), m.id, m)
         /\ \A q : q # m.id /\ AbsentFrom(s, q) => AbsentFrom(Append(s, m), q)
         /\ \A q, n : q # m.id /\ LastIs(s, q, n) => LastIs(Append(s, m), q, n)
<1> DEFINE t == Append(s, m)
<1>1. /\ Len(t) = Len(s) + 1 /\ Len(s) \in Nat
      /\ t[Len(s) + 1] = m
      /\ \A i \in 1..Len(s) : t[i] = s[i]
  OBVIOUS
<1> HIDE DEF t
<1>2. LastIs(t, m.id, m)
  <2>1. Len(s) + 1 \in 1..Len(t) /\ \A j \in 1..Len(t) : ~(j > Len(s) + 1)
    BY <1>1
  <2> QED BY <1>1, <2>1 DEF LastIs
<1>3. ASSUME NEW q, q # m.id, AbsentFrom(s, q)
      PROVE  AbsentFrom(t, q)
  <2> SUFFICES ASSUME NEW i \in 1..Len(t) PROVE t[i].id # q
    BY DEF AbsentFrom
  <2>1. i = Len(s) + 1 \/ i \in 1..Len(s)
    BY <1>1
  <2> QED BY <1>1, <1>3, <2>1 DEF AbsentFrom
<1>4. ASSUME NEW q, NEW n, q # m.id, LastIs(s, q, n)
      PROVE  LastIs(t, q, n)
  <2>1. PICK i \in 1..Len(s) : s[i] = n /\ \A j \in 1..Len(s) : j > i => s[j].id # q
    BY <1>4 DEF LastIs
  <2>2. i \in 1..Len(t) /\ t[i] = n
    BY <1>1, <2>1
  <2>3. ASSUME NEW j \in 1..Len(t), j > i PROVE t[j].id # q
    <3>1. j = Len(s) + 1 \/ j \in 1..Len(s)
      BY <1>1
    <3> QED BY <1>1, <1>4, <2>1, <2>3, <3>1
  <2> QED BY <2>2, <2>3 DEF LastIs
<1> QED BY <1>2, <1>3, <1>4 DEF t

\* Delivering the first report moves no other order's last one.
LEMMA TailLast ==
  ASSUME NEW s \in Seq(Reports), s # <<>>
  PROVE  /\ \A q : AbsentFrom(s, q) => AbsentFrom(Tail(s), q) /\ Head(s).id # q
         /\ \A q, n : LastIs(s, q, n) => \/ LastIs(Tail(s), q, n)
                                         \/ n = Head(s) /\ AbsentFrom(Tail(s), q)
<1> DEFINE t == Tail(s)
<1>1. /\ Len(s) \in Nat /\ Len(s) >= 1 /\ Len(t) = Len(s) - 1
      /\ Head(s) = s[1]
      /\ \A i \in 1..Len(t) : i + 1 \in 1..Len(s) /\ t[i] = s[i + 1]
  OBVIOUS
<1> HIDE DEF t
<1>2. ASSUME NEW q, AbsentFrom(s, q)
      PROVE  AbsentFrom(t, q) /\ Head(s).id # q
  BY <1>1, <1>2 DEF AbsentFrom
<1>3. ASSUME NEW q, NEW n, LastIs(s, q, n)
      PROVE  LastIs(t, q, n) \/ (n = Head(s) /\ AbsentFrom(t, q))
  <2>1. PICK i \in 1..Len(s) : s[i] = n /\ \A j \in 1..Len(s) : j > i => s[j].id # q
    BY <1>3 DEF LastIs
  <2>2. CASE i = 1
    <3>1. \A j \in 1..Len(t) : j + 1 > i
      BY <1>1, <2>2
    <3> QED BY <1>1, <2>1, <2>2, <3>1 DEF AbsentFrom
  <2>3. CASE i # 1
    <3>1. i - 1 \in 1..Len(t) /\ t[i - 1] = n
      <4>1. i - 1 \in 1..Len(t) BY <1>1, <2>3
      <4>2. t[i - 1] = s[(i - 1) + 1] BY <1>1, <4>1
      <4> QED BY <2>1, <4>1, <4>2
    <3>2. \A j \in 1..Len(t) : j > i - 1 => j + 1 > i
      BY <1>1
    <3>3. \A j \in 1..Len(t) : j > i - 1 => t[j].id # q
      BY <1>1, <2>1, <3>2
    <3> QED BY <3>1, <3>3 DEF LastIs
  <2> QED BY <2>2, <2>3
<1> QED BY <1>2, <1>3 DEF t

\* Nothing is cached, loaded or in flight before connect(), and what a previous
\* run left is open.
LEMMA InitTracked ==
  ASSUME Init
  PROVE  Tracked /\ LoadCurrent
  BY DEF Init, Tracked, TrackedOrder, LoadCurrent, Placed, Open, Closed

\* A change at the exchange is queued as the last report of its order, or the
\* order counts as missed.
LEMMA ExchangeTracked ==
  ASSUME IInv, Tracked, LoadCurrent, NEW r \in Ids,
         NEW o \in [status : Open \cup Closed, traded : 0..MaxVolume],
         ExchangeMoves(r, o)
  PROVE  Tracked' /\ LoadCurrent'
<1>1. /\ exch' = [exch EXCEPT ![r] = o] /\ exch'[r] = o
      /\ UNCHANGED <<phase, toLoad, orders>>
      /\ \A q \in Ids \ {r} : exch'[q] = exch[q]
  BY DEF ExchangeMoves, cacheVars, IInv, TypeOK
<1>2. CASE userStream = "up"
  <2> DEFINE m == Report(r, o)
  <2>1. m \in Reports /\ m.id = r /\ stream \in Seq(Reports)
    BY DEF Report, Reports, IInv, TypeOK
  <2>2. stream' = Append(stream, m) /\ missed' = missed
    BY <1>2 DEF ExchangeMoves
  <2>3. phase = "up" /\ toLoad = {}
    BY <1>2 DEF IInv, QuietBefore, LoadPhase
  <2>4. LastIs(stream', r, Report(r, exch'[r]))
    BY <1>1, <2>1, <2>2, AppendLast
  <2>5. ASSUME NEW q \in Ids \ missed, q # r PROVE TrackedOrder(q)'
    <3>1. TrackedOrder(q) BY <2>5 DEF Tracked
    <3>2. AbsentFrom(stream, q) => AbsentFrom(stream', q)
      BY <2>1, <2>2, <2>5, AppendLast
    <3>3. LastIs(stream, q, Report(q, exch[q])) => LastIs(stream', q, Report(q, exch[q]))
      BY <2>1, <2>2, <2>5, AppendLast
    <3>4. exch'[q] = exch[q] BY <1>1, <2>5
    <3>5. Placed(q)' <=> Placed(q) BY <3>4 DEF Placed
    <3>6. Current(q)' <=> Current(q) BY <1>1, <3>4 DEF Current
    <3> QED BY <1>1, <2>3, <3>1, <3>2, <3>3, <3>4, <3>5, <3>6 DEF TrackedOrder
  <2>6. TrackedOrder(r)'
    BY <1>1, <2>3, <2>4 DEF TrackedOrder
  <2>7. LoadCurrent'
    BY <1>1, <2>3 DEF LoadCurrent
  <2> QED BY <2>2, <2>5, <2>6, <2>7 DEF Tracked
<1>3. CASE userStream # "up"
  <2>1. stream' = stream /\ missed' = missed \cup {r}
    BY <1>3 DEF ExchangeMoves
  <2>2. ASSUME NEW q \in Ids \ missed, q # r PROVE TrackedOrder(q)'
    <3>1. TrackedOrder(q) /\ exch'[q] = exch[q] BY <1>1, <2>2 DEF Tracked
    <3>2. Current(q)' <=> Current(q) BY <1>1, <3>1 DEF Current
    <3> QED BY <1>1, <2>1, <3>1, <3>2 DEF TrackedOrder, Placed
  <2>3. LoadCurrent'
    <3> SUFFICES ASSUME NEW p \in toLoad, p.id \notin missed, p.id # r
                 PROVE  p = Report(p.id, exch'[p.id])
      BY <1>1, <2>1 DEF LoadCurrent
    <3>1. p.id \in Ids BY DEF IInv, TypeOK
    <3> QED BY <1>1, <3>1 DEF LoadCurrent
  <2> QED BY <2>1, <2>2, <2>3 DEF Tracked
<1> QED BY <1>2, <1>3

\* An order that is not placed needs no tracking: a step that changes one such
\* order at the exchange, and nothing on the way to the cache, tracks the rest.
LEMMA UnplacedTracked ==
  ASSUME IInv, Tracked, LoadCurrent, NEW r \in Ids, NEW s \in ExchStatus \ (Open \cup Closed),
         exch[r].status \notin Open, phase = "up" \/ exch[r].status = "ENROUTE",
         exch' = [exch EXCEPT ![r].status = s],
         UNCHANGED <<phase, toLoad, stream, missed, orders>>
  PROVE  Tracked' /\ LoadCurrent'
<1>1. /\ exch'[r].status = s
      /\ \A q \in Ids \ {r} : exch'[q] = exch[q]
  BY DEF IInv, TypeOK
<1>2. ASSUME NEW q \in Ids \ missed, q # r PROVE TrackedOrder(q)'
  <2>1. TrackedOrder(q) /\ exch'[q] = exch[q] BY <1>1, <1>2 DEF Tracked
  <2>2. Current(q)' <=> Current(q) BY <2>1 DEF Current
  <2> QED BY <2>1, <2>2 DEF TrackedOrder, Placed
<1>3. TrackedOrder(r)'
  BY <1>1 DEF TrackedOrder, Placed
<1>4. LoadCurrent'
  <2> SUFFICES ASSUME NEW p \in toLoad, p.id \notin missed
               PROVE  p = Report(p.id, exch'[p.id])
    BY DEF LoadCurrent
  <2>1. p.id \in Ids /\ p.status \in Open BY DEF IInv, TypeOK
  <2>2. p = Report(p.id, exch[p.id]) BY DEF LoadCurrent
  <2>3. p.id # r BY <2>1, <2>2 DEF Report
  <2> QED BY <1>1, <2>1, <2>2, <2>3
<1> QED BY <1>2, <1>3, <1>4 DEF Tracked

\* Every step keeps the exchange's record on its way.
LEMMA NextTracked ==
  ASSUME IInv, Tracked, LoadCurrent, [Next]_vars
  PROVE  Tracked' /\ LoadCurrent'
<1>1. ASSUME NEW r \in Ids, ExchangeNext(r) \/ CancelOrder(r)
      PROVE  Tracked' /\ LoadCurrent'
  <2>1. /\ MaxVolume \in Nat
        /\ exch[r].status \in ExchStatus /\ exch[r].traded \in 0..MaxVolume
        /\ exch[r] = [status |-> exch[r].status, traded |-> exch[r].traded]
    BY MaxVolumeAssumption DEF IInv, TypeOK
  <2>2. CASE ExchangeAccept(r)
    <3>1. [status |-> "NEW", traded |-> 0] \in [status : Open \cup Closed, traded : 0..MaxVolume]
      BY <2>1 DEF Open
    <3> QED BY <2>2, <3>1, ExchangeTracked DEF ExchangeAccept
  <2>3. CASE ExchangeRefuse(r)
    BY <2>3, UnplacedTracked DEF ExchangeRefuse, cacheVars, ExchStatus, Open, Closed
  <2>4. CASE ExchangeFill(r)
    <3>1. PICK t \in exch[r].traded + 1 .. MaxVolume :
            ExchangeMoves(r, [status |-> IF t = MaxVolume THEN "FILLED" ELSE "PARTIALLY_FILLED",
                              traded |-> t])
      BY <2>4 DEF ExchangeFill
    <3>2. [status |-> IF t = MaxVolume THEN "FILLED" ELSE "PARTIALLY_FILLED", traded |-> t]
            \in [status : Open \cup Closed, traded : 0..MaxVolume]
      BY <2>1 DEF Open, Closed
    <3> QED BY <3>1, <3>2, ExchangeTracked
  <2>5. CASE ExchangeExpire(r) \/ CancelOrder(r)
    <3>1. PICK s \in Closed : ExchangeMoves(r, [exch[r] EXCEPT !.status = s])
      BY <2>5 DEF ExchangeExpire, CancelOrder, Closed
    <3>2. [exch[r] EXCEPT !.status = s] \in [status : Open \cup Closed, traded : 0..MaxVolume]
      BY <2>1
    <3> QED BY <3>1, <3>2, ExchangeTracked
  <2> QED BY <1>1, <2>2, <2>3, <2>4, <2>5 DEF ExchangeNext
<1>2. ASSUME NEW r \in Ids, SendOrder(r)
      PROVE  Tracked' /\ LoadCurrent'
  <2>1. exch[r].status = "NONE" /\ phase = "up"
    BY <1>2 DEF SendOrder, IInv, IdleIsUnsent
  <2> QED
    BY <1>2, <2>1, UnplacedTracked DEF SendOrder, cacheVars, ExchStatus, Open, Closed
<1>3. ASSUME NEW r \in Ids, HandleReply(r)
      PROVE  Tracked' /\ LoadCurrent'
  <2> DEFINE o == [status |-> "NOTTRADED", traded |-> 0]
             k == ExchangeId(r)
  <2>1. /\ UNCHANGED <<phase, toLoad, stream, exch, missed>>
        /\ o \in OrderData /\ k \in Keys /\ TypeOK
    BY <1>3, KeyFacts, MaxVolumeAssumption
       DEF HandleReply, envVars, OrderData, Status, IInv
  <2>2. ProcessOrderUpdate(k, o)
    BY <1>3 DEF HandleReply
  <2>a. /\ \/ orders'[k].traded = 0
           \/ orders[k].traded > 0 /\ orders'[k] = orders[k]
        /\ orders[k].traded > 0 => orders'[k] = orders[k]
        /\ \A j \in Keys \ {k} : orders'[j] = orders[j]
    <3>1. orders[k].traded \in Nat
      BY <2>1, MaxVolumeAssumption DEF TypeOK, OrderData, NoOrder
    <3> QED BY <2>1, <2>2, <3>1, UpdateOutcome DEF TypeOK
  <2>3. ASSUME NEW q \in Ids, Current(q) PROVE Current(q)'
    <3>1. exch[q].traded \in Nat /\ exch'[q] = exch[q]
      BY <2>1, MaxVolumeAssumption DEF TypeOK
    <3>2. CASE q = r
      BY <2>3, <2>a, <3>1, <3>2 DEF Current
    <3>3. CASE q # r
      <4>1. ExchangeId(q) \in Keys \ {k} BY <3>3, KeyFacts
      <4> QED BY <2>3, <2>a, <3>1, <4>1 DEF Current
    <3> QED BY <3>2, <3>3
  <2> QED BY <2>1, <2>3 DEF Tracked, TrackedOrder, Placed, LoadCurrent
<1>4. ASSUME NEW r \in Ids, HandleFailure(r)
      PROVE  Tracked' /\ LoadCurrent'
  <2> DEFINE o == [status |-> "REJECTED", traded |-> 0]
  <2>1. /\ UNCHANGED <<phase, toLoad, stream, exch, missed>>
        /\ o \in OrderData /\ LocalId(r) \in Keys /\ TypeOK
    BY <1>4, KeyFacts, MaxVolumeAssumption
       DEF HandleFailure, envVars, OrderData, Status, IInv
  <2>2. \A q \in Ids : orders'[ExchangeId(q)] = orders[ExchangeId(q)]
    BY <1>4, <2>1, UpdateOutcome, KeyFacts DEF HandleFailure, TypeOK
  <2>3. \A q \in Ids : Current(q)' <=> Current(q)
    BY <2>1, <2>2 DEF Current
  <2> QED BY <2>1, <2>3 DEF Tracked, TrackedOrder, Placed, LoadCurrent
<1>5. ASSUME ReceiveReport
      PROVE  Tracked' /\ LoadCurrent'
  <2> DEFINE h == Head(stream)
             k == ExchangeId(h.id)
  <2>1. /\ phase = "up" /\ toLoad = {} /\ stream # <<>> /\ stream' = Tail(stream)
        /\ stream \in Seq(Reports) /\ TypeOK
        /\ UNCHANGED <<phase, toLoad, exch, missed>>
    BY <1>5 DEF ReceiveReport, IInv, TypeOK, QuietBefore, LoadPhase
  <2>2. h \in Reports /\ h = stream[1] /\ 1 \in 1..Len(stream)
    BY <2>1
  <2>3. h.id \in Ids /\ h.traded \in 0..MaxVolume /\ k \in Keys /\ h.traded <= exch[h.id].traded
    BY <2>2, KeyFacts DEF IInv, ReportsBounded, Reports
  <2>4. Update(h) \in OrderData /\ Update(h).traded = h.traded
        /\ Update(h).status = StatusFromBinance(h.status)
    BY <2>3, UpdateType DEF Update
  <2>5. ProcessOrderUpdate(k, Update(h))
    BY <1>5 DEF ReceiveReport
  <2>6. /\ \/ orders'[k].traded = h.traded /\ orders'[k].status = StatusFromBinance(h.status)
           \/ h.traded < orders[k].traded
        /\ \A j \in Keys \ {k} : orders'[j] = orders[j]
    BY <2>1, <2>3, <2>4, <2>5, UpdateOutcome DEF TypeOK
  <2>7. ASSUME NEW q \in Ids \ missed, Placed(q) PROVE TrackedOrder(q)'
    <3>1. exch'[q] = exch[q] BY <2>1
    <3>2. LastIs(stream, q, Report(q, exch[q])) \/ (AbsentFrom(stream, q) /\ Current(q))
      BY <2>1, <2>7 DEF Tracked, TrackedOrder
    <3>3. CASE AbsentFrom(stream, q) /\ Current(q)
      <4>1. AbsentFrom(stream', q) /\ h.id # q
        BY <2>1, <3>3, TailLast
      <4>2. ExchangeId(q) \in Keys \ {k} BY <2>3, <4>1, KeyFacts
      <4>3. Current(q)' BY <2>6, <3>1, <3>3, <4>2 DEF Current
      <4> QED BY <2>1, <4>1, <4>3 DEF TrackedOrder
    <3>4. CASE LastIs(stream', q, Report(q, exch[q]))
      BY <2>1, <3>1, <3>4 DEF TrackedOrder
    <3>5. CASE h = Report(q, exch[q]) /\ AbsentFrom(stream', q)
      <4>1. h.id = q /\ h.traded = exch[q].traded /\ h.status = exch[q].status
        BY <3>5 DEF Report
      <4>2. orders[k].traded <= exch[q].traded
        BY <2>3, <4>1 DEF IInv, CacheBounded
      <4>3. orders[k].traded \in Nat /\ exch[q].traded \in Nat
        BY <2>1, <2>3, MaxVolumeAssumption DEF TypeOK, OrderData, NoOrder
      <4>4. orders'[k].traded = h.traded /\ orders'[k].status = StatusFromBinance(h.status)
        BY <2>6, <4>1, <4>2, <4>3
      <4>5. Current(q)' BY <3>1, <4>1, <4>4 DEF Current
      <4> QED BY <2>1, <3>5, <4>5 DEF TrackedOrder
    <3> QED
      BY <2>1, <3>2, <3>3, <3>4, <3>5, TailLast
  <2> QED BY <2>1, <2>7 DEF Tracked, TrackedOrder, Placed, LoadCurrent
<1>6. ASSUME QueryOpenOrders
      PROVE  Tracked' /\ LoadCurrent'
  <2> DEFINE found == {x \in Ids : exch[x].status \in Open}
  <2>1. /\ phase = "down" /\ phase' = "loading" /\ exch' = exch
        /\ \/ /\ toLoad' = {Report(r, exch[r]) : r \in found}
              /\ missed' = missed \ found
           \/ toLoad' = {} /\ missed' = missed \cup found
    BY <1>6 DEF QueryOpenOrders, IInv, TypeOK
  <2>2. ASSUME NEW q \in Ids \ missed', Placed(q)
        PROVE  \E o \in toLoad' : o.id = q
    <3>1. CASE missed' = missed \cup found
      <4>1. q \in found BY <2>1, <2>2, <3>1 DEF Tracked, TrackedOrder
      <4> QED BY <2>2, <3>1, <4>1
    <3>2. CASE missed' = missed \ found /\ toLoad' = {Report(r, exch[r]) : r \in found}
      <4>1. q \in found BY <2>1, <2>2, <3>2 DEF Tracked, TrackedOrder
      <4>2. Report(q, exch[q]) \in toLoad' /\ Report(q, exch[q]).id = q
        BY <3>2, <4>1 DEF Report
      <4> QED BY <4>2
    <3> QED BY <2>1, <3>1, <3>2
  <2>3. LoadCurrent'
    BY <2>1 DEF LoadCurrent, Report
  <2> QED BY <2>1, <2>2, <2>3 DEF Tracked, TrackedOrder, Placed
<1>7. ASSUME NEW o \in toLoad, LoadOpenOrder(o)
      PROVE  Tracked' /\ LoadCurrent'
  <2> DEFINE k == ExchangeId(o.id)
  <2>1. /\ phase = "loading" /\ toLoad' = toLoad \ {o} /\ k \in Keys /\ o.id \in Ids
        /\ orders' = [orders EXCEPT ![k] = Update(o)]
        /\ UNCHANGED <<phase, stream, exch, missed>>
    BY <1>7, KeyFacts DEF LoadOpenOrder, Store, envVars, IInv, TypeOK
  <2>2. orders'[k] = Update(o) /\ \A j \in Keys \ {k} : orders'[j] = orders[j]
    BY <2>1 DEF IInv, TypeOK
  <2>3. ASSUME NEW q \in Ids \ missed, Placed(q)
        PROVE  Current(q)' \/ \E p \in toLoad' : p.id = q
    <3>1. CASE q = o.id
      <4>1. o = Report(q, exch[q]) BY <2>3, <3>1 DEF LoadCurrent
      <4> QED BY <2>1, <2>2, <3>1, <4>1 DEF Current, Update, Report
    <3>2. CASE q # o.id
      <4>1. Current(q) \/ \E p \in toLoad : p.id = q
        BY <2>1, <2>3 DEF Tracked, TrackedOrder
      <4>2. Current(q) => Current(q)'
        BY <2>1, <2>2, <3>2, KeyFacts DEF Current
      <4> QED BY <2>1, <3>2, <4>1, <4>2
    <3> QED BY <3>1, <3>2
  <2> QED BY <2>1, <2>3 DEF Tracked, TrackedOrder, Placed, LoadCurrent
<1>8. ASSUME StartUserStream
      PROVE  Tracked' /\ LoadCurrent'
  <2>1. /\ phase = "loading" /\ toLoad = {} /\ phase' = "up" /\ stream = <<>>
        /\ UNCHANGED <<toLoad, stream, exch, missed, orders>>
    <3>1. stream = <<>>
      BY <1>8 DEF StartUserStream, IInv, QuietBefore
    <3>2. DOMAIN stream = {}
      BY <3>1
    <3> QED BY <1>8, <3>1, <3>2 DEF StartUserStream, InFlightIsLost, cacheVars
  <2>2. ASSUME NEW q \in Ids \ missed, Placed(q)
        PROVE  AbsentFrom(stream', q) /\ Current(q)'
    BY <2>1, <2>2 DEF Tracked, TrackedOrder, Current, AbsentFrom
  <2> QED BY <2>1, <2>2 DEF Tracked, TrackedOrder, Placed, LoadCurrent
<1>9. ASSUME StreamDrop
      PROVE  Tracked' /\ LoadCurrent'
  <2>1. /\ phase = "up" /\ toLoad = {} /\ stream' = <<>>
        /\ missed' = missed \cup {stream[i].id : i \in DOMAIN stream}
        /\ DOMAIN stream = 1..Len(stream)
        /\ UNCHANGED <<phase, toLoad, exch, orders>>
    BY <1>9 DEF StreamDrop, InFlightIsLost, cacheVars, IInv, TypeOK, QuietBefore, LoadPhase
  <2>2. ASSUME NEW q \in Ids \ missed', Placed(q)
        PROVE  AbsentFrom(stream', q) /\ Current(q)'
    <3>1. q \notin missed /\ AbsentFrom(stream, q)
      BY <2>1, <2>2 DEF AbsentFrom
    <3>2. ~LastIs(stream, q, Report(q, exch[q]))
      BY <3>1 DEF AbsentFrom, LastIs, Report
    <3> QED BY <2>1, <2>2, <3>1, <3>2 DEF Tracked, TrackedOrder, Current, AbsentFrom
  <2> QED BY <2>1, <2>2 DEF Tracked, TrackedOrder, Placed, LoadCurrent
<1>10. CASE StreamReconnect \/ UNCHANGED vars
  <2>1. UNCHANGED <<phase, toLoad, orders, stream, exch, missed>>
    BY <1>10 DEF StreamReconnect, cacheVars, vars
  <2> QED BY <2>1 DEF Tracked, TrackedOrder, Placed, Current, LoadCurrent
<1> QED
  BY <1>1, <1>2, <1>3, <1>4, <1>5, <1>6, <1>7, <1>8, <1>9, <1>10 DEF Next, GatewayNext

\* In every state the gateway reaches the exchange's record is on its way.
LEMMA TrackedInvariance == Spec => [](IInv /\ Tracked /\ LoadCurrent)
<1>1. Init => Tracked /\ LoadCurrent
  BY InitTracked
<1>2. IInv /\ Tracked /\ LoadCurrent /\ [Next]_vars => Tracked' /\ LoadCurrent'
  BY NextTracked
<1> QED
  BY <1>1, <1>2, Invariance, PTL DEF Spec

\* Once the stream is drained, the cache has the volume the exchange executed of
\* every placed order none of whose reports was lost.
THEOREM Convergence == Spec => []CacheConverges
<1>1. ASSUME IInv, Tracked
      PROVE  CacheConverges
  <2> SUFFICES ASSUME NEW r \in Ids, Drained(r), Placed(r)
               PROVE  orders[ExchangeId(r)].traded = exch[r].traded
    BY DEF CacheConverges
  <2>1. ~LastIs(stream, r, Report(r, exch[r]))
    BY DEF Drained, LastIs
  <2> QED BY <1>1, <2>1 DEF Tracked, TrackedOrder, Current, Drained
<1> QED BY <1>1, TrackedInvariance, PTL

\* And, when anything of it was traded, the status the exchange has.
THEOREM StatusConvergence == Spec => []StatusConverges
<1>1. ASSUME IInv, Tracked
      PROVE  StatusConverges
  <2> SUFFICES ASSUME NEW r \in Ids, Drained(r), Placed(r), exch[r].traded > 0
               PROVE  orders[ExchangeId(r)].status = StatusFromBinance(exch[r].status)
    BY DEF StatusConverges
  <2>1. ~LastIs(stream, r, Report(r, exch[r]))
    BY DEF Drained, LastIs
  <2> QED BY <1>1, <2>1 DEF Tracked, TrackedOrder, Current, Drained
<1> QED BY <1>1, TrackedInvariance, PTL
============================================================================
