------------------------------ MODULE OmsRecords ------------------------------
(* MainEngine with several gateways and the whole OmsEngine                      *)
(* (engine/main_engine.cpp): gateways are added, replaced, connected and         *)
(* disconnected, what they report goes through the event queue, and the OMS      *)
(* keeps the last event of each key.  The keys name no gateway.  The queue is    *)
(* that of EventEngine with its worker running.                                  *)
EXTENDS OmsEngine, FiniteSets, Sequences

CONSTANTS
  GatewayNames,  \* names gateways are added under
  RecordSymbol,  \* the symbol all of them trade
  ReportedKinds, \* kinds of events they report
  MaxAddedGateways, MaxReported  \* bounds: gateways added, events reported
RecordIds == OmsKeys \cup {"LONG", "SHORT", RecordSymbol}
RecordData ==
  [kind : ReportedKinds, gateway : GatewayNames, id : RecordIds,
   status : {"NOTTRADED", "CANCELLED", "NONE"}, serial : Nat]
ASSUME RecordsAssumption ==
  /\ ReportedKinds \subseteq {"tick", "order", "trade", "position", "account", "contract"}
  /\ OmsNoOrder \notin RecordData
  /\ MaxAddedGateways \in Nat /\ MaxReported \in Nat

VARIABLES
  gateways,    \* gateways_: name -> has callbacks, is connected
  addedCount,  \* gateways added so far
  omsRecords,  \* ticks_, positions_, accounts_ and contracts_: <<kind, key>> -> datum
  eventQueue,  \* the event engine's queue
  reported,    \* events reported so far: the serial number of the last
  handledLast  \* history: <<kind, gateway, key>> -> serial of the last event handled

omsVars == <<omsOrders, omsActive, omsTrades, omsRecords>>
recordVars == <<gateways, addedCount, omsVars, eventQueue, reported, handledLast>>

RecordsInit ==
  /\ OmsInit /\ omsRecords = [k \in {} |-> OmsNoOrder]
  /\ gateways = [name \in {} |-> 0] /\ addedCount = 0
  /\ eventQueue = <<>> /\ reported = 0 /\ handledLast = [k \in {} |-> 0]

-----------------------------------------------------------------------------
(* The gateways.                                                               *)
GatewayOf(name, callbacks, connected) ==
  [g \in DOMAIN gateways \cup {name} |->
     IF g = name THEN [callbacks |-> callbacks, connected |-> connected] ELSE gateways[g]]
OthersThanGateways == UNCHANGED <<omsVars, eventQueue, reported, handledLast>>

\* add_gateway: one of the same name is replaced, and destroyed.
AddGateway(name) ==
  /\ addedCount < MaxAddedGateways /\ addedCount' = addedCount + 1
  /\ gateways' = GatewayOf(name, FALSE, FALSE) /\ OthersThanGateways

\* connect: the callbacks are set whether or not the gateway connects.
ConnectGateway(name) ==
  /\ name \in DOMAIN gateways
  /\ \E connects \in BOOLEAN : gateways' = GatewayOf(name, TRUE, connects)
  /\ UNCHANGED addedCount /\ OthersThanGateways

DisconnectGateway(name) ==
  /\ name \in DOMAIN gateways /\ gateways[name].connected
  /\ gateways' = GatewayOf(name, gateways[name].callbacks, FALSE)
  /\ UNCHANGED addedCount /\ OthersThanGateways

-----------------------------------------------------------------------------
(* What they report: each kind has its ids, which gateways choose on their own. *)
Ids(kind) ==
  CASE kind \in {"order", "trade"}  -> OmsKeys
    [] kind = "position"            -> {"LONG", "SHORT"}
    [] OTHER                        -> {RecordSymbol}

\* A callback of connect(); a gateway without callbacks tells nobody.
Reports(name, kind, id, status) ==
  /\ name \in DOMAIN gateways /\ gateways[name].callbacks
  /\ reported < MaxReported /\ reported' = reported + 1
  /\ eventQueue' = Append(eventQueue, [kind |-> kind, gateway |-> name, id |-> id,
                                       status |-> status, serial |-> reported'])
  /\ UNCHANGED <<gateways, addedCount, omsVars, handledLast>>

-----------------------------------------------------------------------------
(* The OMS.  A position's key is the symbol with the direction, an order's its   *)
(* id, a trade's its own; no key names the gateway.                              *)
Put(f, k, d) == [i \in DOMAIN f \cup {k} |-> IF i = k THEN d ELSE f[i]]

\* Mutant: a datum of another gateway does not replace one.
StoreRecordFirst(d) ==
  /\ omsRecords' = IF <<d.kind, d.id>> \in DOMAIN omsRecords /\ omsRecords[<<d.kind, d.id>>].gateway # d.gateway
                   THEN omsRecords ELSE Put(omsRecords, <<d.kind, d.id>>, d)
  /\ UNCHANGED <<omsOrders, omsActive, omsTrades>>

\* process_tick_event, process_position_event, process_account_event and
\* process_contract_event
StoreRecord(d) ==
  omsRecords' = Put(omsRecords, <<d.kind, d.id>>, d) /\ UNCHANGED <<omsOrders, omsActive, omsTrades>>

HandleEvent ==
  /\ eventQueue # <<>> /\ eventQueue' = Tail(eventQueue)
  /\ LET d == Head(eventQueue) IN
       /\ CASE d.kind = "order" -> ProcessOrderEvent(d.id, d) /\ UNCHANGED omsRecords
            [] d.kind = "trade" -> ProcessTradeEvent(d.id, d) /\ UNCHANGED omsRecords
            [] OTHER            -> StoreRecord(d)
       /\ handledLast' = Put(handledLast, <<d.kind, d.gateway, d.id>>, d.serial)
  /\ UNCHANGED <<gateways, addedCount, reported>>

RecordsNext ==
  \/ \E name \in GatewayNames : AddGateway(name) \/ ConnectGateway(name) \/ DisconnectGateway(name)
  \/ \E name \in GatewayNames, kind \in ReportedKinds : \E id \in Ids(kind) :
       \E status \in IF kind = "order" THEN {"NOTTRADED", "CANCELLED"} ELSE {"NONE"} :
         Reports(name, kind, id, status)
  \/ HandleEvent

-----------------------------------------------------------------------------
(* The queries, each of one map by an exact key.  A handler stores a datum under *)
(* its plain id; the declarations and tests of the queries name vt_ keys, which  *)
(* carry the name of the gateway or exchange too, and so does what send_order()  *)
(* returns.                                                                      *)
StorageKey(id) == <<id>>
VtKey(gateway, id) == <<gateway, id>>

Found(f, key) == IF \E id \in DOMAIN f : key = StorageKey(id) THEN f[key[1]] ELSE OmsNoOrder

\* The map of a kind: ticks_, positions_, accounts_ or contracts_.
RecordsOf(kind) ==
  [id \in {id \in RecordIds : <<kind, id>> \in DOMAIN omsRecords} |-> omsRecords[<<kind, id>>]]

GetOrder(key) == Found(omsOrders, key)
GetTrade(key) == Found(omsTrades, key)
GetRecord(kind, key) == Found(RecordsOf(kind), key)
GetAllOrders == {omsOrders[id] : id \in OmsKeys} \ {OmsNoOrder}
GetAllTrades == {omsTrades[id] : id \in DOMAIN omsTrades}
GetAllActiveOrders == {omsActive[id] : id \in OmsKeys} \ {OmsNoOrder}

Answer(kind, key) ==
  CASE kind = "order" -> GetOrder(key)
    [] kind = "trade" -> GetTrade(key)
    [] OTHER          -> GetRecord(kind, key)

HandledOf(kind, id) == {k \in DOMAIN handledLast : k[1] = kind /\ k[3] = id}

\* Over gateways that are replaced, connected again and report with the same ids, each
\* query by the key a datum is stored under answers the newest event there was: what a
\* gateway told last is hidden only if another gateway used the same key since; an order
\* is listed as active exactly if the newest event of its id, of whatever gateway, left
\* it so.  By the vt_ key, as the declarations have it, no query finds anything.
OmsAnswers ==
  /\ \A k \in DOMAIN handledLast : \E newest \in HandledOf(k[1], k[3]) :
       LET found == Answer(k[1], StorageKey(k[3])) IN
       /\ \A other \in HandledOf(k[1], k[3]) : handledLast[other] <= handledLast[newest]
       /\ found # OmsNoOrder /\ found.serial = handledLast[newest] /\ found.gateway = newest[2]
  /\ \A k \in DOMAIN handledLast : Answer(k[1], VtKey(k[2], k[3])) = OmsNoOrder
  /\ GetAllActiveOrders = {o \in GetAllOrders : IsActive(o)}
  /\ \A t \in GetAllTrades : \E k \in DOMAIN handledLast : handledLast[k] = t.serial
=============================================================================
