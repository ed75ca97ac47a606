---------------------------- MODULE SpotGateway ----------------------------
(* BinanceSpotGateway (exchange/binance_spot_gateway.cpp) for one lifetime of *)
(* the process: connect() once, then orders sent by any number of caller      *)
(* threads, each a blocking REST call, while the user data stream delivers    *)
(* execution reports on the WebSocket thread.  Both paths end in              *)
(* process_order_update, which orders_mutex_ makes atomic.                    *)
(*                                                                            *)
(* The exchange and the two channels to it are the environment.  The REST     *)
(* reply of an order and the report of the same order travel on different     *)
(* connections, so either can be first.  A report is lost while the stream is *)
(* down; one connection never reorders.                                       *)
EXTENDS OrderTypes, Sequences

CONSTANTS
  Requests,         \* the send_order calls of this run, one order each
  Left,             \* orders a previous run left open at the exchange
  MaxVolume,        \* the volume of every order
  UserStreamBound   \* does the exchange push the reports of listen_key_ at all

ASSUME MaxVolumeAssumption == MaxVolume \in Nat \ {0}
ASSUME BoundAssumption == UserStreamBound \in BOOLEAN
ASSUME LeftAssumption == Left \cap Requests = {}

VARIABLES
  phase,       \* progress of connect(): "down", "loading", "up" (connected_)
  toLoad,      \* the answer of query_open_orders connect() is looping over
  call,        \* state of each send_order call
  orders,      \* orders_, keyed by order id
  userStream,  \* the user stream: "none" (no client), "down", "up" (it delivers)
  stream,      \* execution reports in flight
  exch,        \* the exchange's own record of each order
  missed,      \* history: orders a change of which the gateway never hears of
  base,        \* history: volume stored in orders_ beyond the trades reported for it
  emitted      \* history: volume passed to trade_callback_ per order id

envVars == <<userStream, stream, exch, missed>>
cacheVars == <<orders, base, emitted>>
vars == <<phase, toLoad, call, orders, userStream, stream, exch, missed, base, emitted>>

Ids == Requests \cup Left

\* generate_order_id() until the exchange has answered, its id afterwards
Keys == {"local", "exchange"} \X Ids
LocalId(r) == <<"local", r>>
ExchangeId(r) == <<"exchange", r>>

NoOrder == [status |-> "NONE", traded |-> 0]
OrderData == [status : Status, traded : 0..MaxVolume]

Open == {"NEW", "PARTIALLY_FILLED"}
Closed == {"FILLED", "CANCELED", "EXPIRED"}
ExchStatus == {"NONE", "ENROUTE", "REFUSED"} \cup Open \cup Closed
Reports == [id : Ids, status : Open \cup Closed, traded : 0..MaxVolume]
Placed(r) == exch[r].status \in Open \cup Closed

Update(o) == [status |-> StatusFromBinance(o.status), traded |-> o.traded]

---------------------------------------------------------------------------
(* process_order_update *)

IsNew(k) == orders[k] = NoOrder

\* Mutant: a report with the cached volume counts as stale as well.
OutOfSequenceOrEqual(k, o) == ~IsNew(k) /\ o.traded <= orders[k].traded
OutOfSequence(k, o) == ~IsNew(k) /\ o.traded < orders[k].traded
Unchanged(k, o) ==
  ~IsNew(k) /\ o.traded = orders[k].traded /\ o.status = orders[k].status

\* Mutants: no filter for what is out of sequence; only a new status counts.
AcceptsStale(k, o) == ~Unchanged(k, o)
AcceptsNewStatus(k, o) == ~OutOfSequence(k, o) /\ o.status # orders[k].status
Accepts(k, o) == ~OutOfSequence(k, o) /\ ~Unchanged(k, o)

\* Mutants: the cumulative volume is reported; the last fill is not; the
\* difference is taken of what is out of sequence too.
TradeVolumeCumulative(k, o) ==
  IF ~IsNew(k) /\ o.traded > orders[k].traded THEN o.traded ELSE 0
TradeVolumeNotLast(k, o) ==
  IF ~IsNew(k) /\ o.traded > orders[k].traded /\ o.status # "ALLTRADED"
  THEN o.traded - orders[k].traded ELSE 0
TradeVolumeSigned(k, o) == IF IsNew(k) THEN 0 ELSE o.traded - orders[k].traded

\* Volume of the TradeData the update generates: none for a new entry.
TradeVolume(k, o) ==
  IF ~IsNew(k) /\ o.traded > orders[k].traded THEN o.traded - orders[k].traded ELSE 0

Store(k, o) == orders' = [orders EXCEPT ![k] = o]

\* The volume an entry stored without a trade leaves unexplained by trades.
Unexplained(k, o) ==
  IF o.traded > base[k] + emitted[k] THEN o.traded - emitted[k] ELSE base[k]

ProcessOrderUpdate(k, o) ==
  /\ IF Accepts(k, o) THEN Store(k, o) ELSE UNCHANGED orders
  /\ emitted' = [emitted EXCEPT ![k] = @ + TradeVolume(k, o)]
  /\ base' = IF IsNew(k) THEN [base EXCEPT ![k] = Unexplained(k, o)] ELSE base

---------------------------------------------------------------------------
(* The exchange *)

Report(r, o) == [id |-> r, status |-> o.status, traded |-> o.traded]

\* The exchange changes an order and queues its report when the stream is up.
ExchangeMoves(r, o) ==
  /\ exch' = [exch EXCEPT ![r] = o]
  /\ IF userStream = "up" THEN stream' = Append(stream, Report(r, o)) /\ UNCHANGED missed
                 ELSE missed' = missed \cup {r} /\ UNCHANGED stream
  /\ UNCHANGED <<phase, toLoad, call, userStream, cacheVars>>

ExchangeAccept(r) ==
  /\ exch[r].status = "ENROUTE"
  /\ ExchangeMoves(r, [status |-> "NEW", traded |-> 0])

ExchangeRefuse(r) ==
  /\ exch[r].status = "ENROUTE"
  /\ exch' = [exch EXCEPT ![r].status = "REFUSED"]
  /\ UNCHANGED <<phase, toLoad, call, userStream, stream, missed, cacheVars>>

ExchangeFill(r) ==
  /\ exch[r].status \in Open
  /\ \E t \in exch[r].traded + 1 .. MaxVolume :
       ExchangeMoves(r, [status |-> IF t = MaxVolume THEN "FILLED" ELSE "PARTIALLY_FILLED",
                         traded |-> t])

ExchangeExpire(r) ==
  /\ exch[r].status \in Open
  /\ ExchangeMoves(r, [exch[r] EXCEPT !.status = "EXPIRED"])

\* cancel_order, and each turn of cancel_all_orders: one REST call that changes no
\* state of the gateway; the cached entry moves when the report arrives.
CancelOrder(r) ==
  /\ phase = "up"
  /\ exch[r].status \in Open
  /\ ExchangeMoves(r, [exch[r] EXCEPT !.status = "CANCELED"])

InFlightIsLost ==
  /\ missed' = missed \cup {stream[i].id : i \in DOMAIN stream}
  /\ stream' = <<>>

\* The socket drops: what was in flight is gone.  The client reconnects by
\* itself, and nothing asks the exchange for what was lost meanwhile.
StreamDrop ==
  /\ userStream = "up"
  /\ userStream' = "down"
  /\ InFlightIsLost
  /\ UNCHANGED <<phase, toLoad, call, exch, cacheVars>>

StreamReconnect ==
  /\ userStream = "down" /\ phase = "up" /\ UserStreamBound
  /\ userStream' = "up"
  /\ UNCHANGED <<phase, toLoad, call, stream, exch, missed, cacheVars>>

---------------------------------------------------------------------------
(* The gateway *)

\* connect(), of a gateway never connected or closed ("closed" is MainEngine's):
\* query_open_orders answers with the open orders of this moment, or fails, which
\* connect() takes for no open order at all...
QueryOpenOrders ==
  /\ phase \in {"down", "closed"}
  /\ phase' = "loading"
  /\ LET found == {r \in Ids : exch[r].status \in Open} IN
       \/ /\ toLoad' = {Report(r, exch[r]) : r \in found}
          /\ missed' = missed \ found
       \/ toLoad' = {} /\ missed' = missed \cup found
  /\ UNCHANGED <<call, userStream, stream, exch, cacheVars>>

\* ... each is stored as it is ...
LoadOpenOrder(o) ==
  /\ phase = "loading" /\ o \in toLoad
  /\ toLoad' = toLoad \ {o}
  /\ LET k == ExchangeId(o.id) IN
       /\ Store(k, Update(o))
       /\ base' = [base EXCEPT ![k] = Unexplained(k, o)]
  /\ UNCHANGED <<phase, call, envVars, emitted>>

\* ... and only then a new user stream replaces the old one, unless there is no
\* listen key, and connected_ becomes true in either case.
StartUserStream ==
  /\ phase = "loading" /\ toLoad = {}
  /\ phase' = "up"
  /\ \/ userStream' = (IF UserStreamBound THEN "up" ELSE "down") /\ InFlightIsLost
     \/ UNCHANGED <<userStream, stream, missed>>
  /\ UNCHANGED <<toLoad, call, exch, cacheVars>>

\* send_order up to the REST call.
SendOrder(r) ==
  /\ phase = "up"
  /\ r \in Requests /\ call[r] = "idle"
  /\ call' = [call EXCEPT ![r] = "inflight"]
  /\ exch' = [exch EXCEPT ![r].status = "ENROUTE"]
  /\ UNCHANGED <<phase, toLoad, userStream, stream, missed, cacheVars>>

\* The REST reply carries only the exchange's id; the order is stored as
\* NOTTRADED with nothing traded.
HandleReply(r) ==
  /\ call[r] = "inflight"
  /\ Placed(r)
  /\ call' = [call EXCEPT ![r] = "ok"]
  /\ ProcessOrderUpdate(ExchangeId(r), [status |-> "NOTTRADED", traded |-> 0])
  /\ UNCHANGED <<phase, toLoad, envVars>>

\* The REST call fails: refused, or its reply did not arrive in time.
HandleFailure(r) ==
  /\ call[r] = "inflight"
  /\ call' = [call EXCEPT ![r] = "failed"]
  /\ ProcessOrderUpdate(LocalId(r), [status |-> "REJECTED", traded |-> 0])
  /\ UNCHANGED <<phase, toLoad, envVars>>

\* BinanceSpotWsApi::process_order_update
ReceiveReport ==
  /\ stream # <<>>
  /\ stream' = Tail(stream)
  /\ ProcessOrderUpdate(ExchangeId(Head(stream).id), Update(Head(stream)))
  /\ UNCHANGED <<phase, toLoad, call, userStream, exch, missed>>

---------------------------------------------------------------------------

Init ==
  /\ phase = "down"
  /\ toLoad = {}
  /\ call = [r \in Ids |-> "idle"]
  /\ orders = [k \in Keys |-> NoOrder]
  /\ userStream = "none"
  /\ stream = <<>>
  /\ exch = [r \in Ids |-> [status |-> IF r \in Left THEN "NEW" ELSE "NONE", traded |-> 0]]
  /\ missed = {}
  /\ base = [k \in Keys |-> 0]
  /\ emitted = [k \in Keys |-> 0]

ExchangeNext(r) ==
  ExchangeAccept(r) \/ ExchangeRefuse(r) \/ ExchangeFill(r) \/ ExchangeExpire(r)

GatewayNext(r) == SendOrder(r) \/ CancelOrder(r) \/ HandleReply(r) \/ HandleFailure(r)

Next ==
  \/ \E r \in Ids : ExchangeNext(r) \/ GatewayNext(r)
  \/ QueryOpenOrders
  \/ \E o \in toLoad : LoadOpenOrder(o)
  \/ StartUserStream
  \/ ReceiveReport
  \/ StreamDrop \/ StreamReconnect

\* connect() is a loop of the calling thread, and a socket that is up delivers.
Fairness == WF_vars(QueryOpenOrders \/ StartUserStream \/ ReceiveReport)
            /\ WF_vars(\E o \in toLoad : LoadOpenOrder(o))

Spec == Init /\ [][Next]_vars /\ Fairness

---------------------------------------------------------------------------
(* Properties *)

TypeOK ==
  /\ phase \in {"down", "loading", "up"}
  /\ toLoad \subseteq [id : Ids, status : Open, traded : 0..MaxVolume]
  /\ call \in [Ids -> {"idle", "inflight", "ok", "failed"}]
  /\ orders \in [Keys -> OrderData \cup {NoOrder}]
  /\ userStream \in {"none", "down", "up"}
  /\ stream \in Seq(Reports)
  /\ exch \in [Ids -> [status : ExchStatus, traded : 0..MaxVolume]]
  /\ missed \subseteq Ids
  /\ base \in [Keys -> 0..MaxVolume]
  /\ emitted \in [Keys -> 0..MaxVolume]

\* The trades handed to trade_callback_ never add up to more than the exchange
\* has executed, whichever of REST reply and execution report comes first.
NoTradeInvented ==
  \A r \in Ids : emitted[ExchangeId(r)] <= exch[r].traded

\* Every fill after the first sighting of an order produced a trade of exactly
\* its volume: the traded volume in orders_ is what it was stored with plus the
\* trades, so no later update is absorbed silently.
TradesAccountForCache ==
  \A k \in Keys : orders[k].traded = base[k] + emitted[k]

\* process_order_update filters what is out of sequence: the traded volume of
\* an order known to the gateway never goes back, and neither connect() nor the
\* REST reply of a send overwrites a fill.
TradedNeverDecreases == [][\A k \in Keys : orders'[k].traded >= orders[k].traded]_vars

\* Once the stream is drained, an order none of whose reports was lost and that
\* is not being sent is cached with the volume the exchange executed.
Drained(r) == stream = <<>> /\ phase = "up" /\ call[r] # "inflight" /\ r \notin missed
CacheConverges ==
  \A r \in Ids : Drained(r) /\ Placed(r) =>
    orders[ExchangeId(r)].traded = exch[r].traded

\* The status converges too unless nothing was traded.  (With nothing traded the
\* REST reply, always NOTTRADED, can overwrite a CANCELLED that came first.)
StatusConverges ==
  \A r \in Ids : Drained(r) /\ Placed(r) /\ exch[r].traded > 0 =>
    orders[ExchangeId(r)].status = StatusFromBinance(exch[r].status)

\* An order the exchange filled ends up ALLTRADED in the cache, or one of its
\* reports was lost.
FilledIsSeen ==
  \A r \in Ids : exch[r].status = "FILLED" ~>
    (orders[ExchangeId(r)].status = "ALLTRADED" \/ r \in missed)

\* What the comment "Out of sequence, ignore" promises: an update older than the
\* cached one changes nothing, so an order cached as finished stays finished.
FinishedStaysFinished ==
  [][\A k \in Keys : ~IsNew(k) /\ ~IsActive(orders[k]) => ~IsActive(orders'[k])]_vars

\* What start_user_stream's comment says: order updates reach
\* process_order_update, so a filled order is eventually cached as ALLTRADED.
OrderUpdatesArrive ==
  \A r \in Requests : (userStream # "none" /\ call[r] = "ok" /\ exch[r].status = "FILLED") ~>
    (orders[ExchangeId(r)].status = "ALLTRADED")
===========================================================================
