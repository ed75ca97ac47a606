------------------------ MODULE WebSocketClientProofs ------------------------
(* Safety of the WebSocketClient and its refinement of StreamFeed, for any     *)
(* set of streams and any number of calls, faults and attempts.                *)
EXTENDS WebSocketClient, TLAPS

(* The inductive invariant: where each thread may be while the application is  *)
(* at a given place, and what the streams' handles and connections are then.   *)
AppPlaces ==
  /\ app \in Stream \cup {"connecting"} => running
  /\ app \in Closing => ~running
  /\ app = "connecting" => monitor = "wait" /\ Wanted \subseteq early
  /\ app \in Stream => subs[app] # "absent"
\* Without a torn reconnection, close() meets neither a swap nor a new thread.
CloseOrder ==
  /\ ~running /\ ~torn => monitor \notin Swap
  /\ app \in {"joinMonitor", "cleanup"} /\ ~torn => io = "none"
  /\ app = "cleanup" => monitor = "none"
\* Closed, torn or not, nobody can bring a stream back.
ClosedIsEmpty ==
  ~running /\ app = "idle" =>
    /\ monitor = "none" /\ ctx = "none" /\ Wanted \subseteq early
    /\ \A s \in Stream : links[s] = {}
    /\ ~torn => io = "none"
\* CONNECTED is only said at rest or before the streams are restored; at rest
\* nothing is left to restore.
ConnectedAtRest ==
  running /\ state = "CONNECTED" =>
    /\ monitor \in {"wait", "restore"}
    /\ monitor = "wait" =>
         \A s \in Wanted \cap Supported : subs[s] = "held" \/ s \in early \/ app = s
\* On new websockets, before they are restored, a connection is that of a
\* subscribe() that raced, and before the I/O thread runs there is one at most.
NewLinksRaced ==
  /\ monitor \in {"start", "settle", "restore"} => \A s \in Stream : links[s] # {} => s \in raced
  /\ monitor = "start" =>
       /\ app \in Stream => \A s \in Stream : links[s] = {}
       /\ \A s, t \in Stream : links[s] # {} /\ links[t] # {} => s = t
LinksSupported == \A s \in Stream : links[s] # {} => s \in Supported
GhostsRaced == \A s \in Stream : "ghost" \in links[s] => s \in raced

IInv ==
  /\ ConnTypeOK
  /\ AppPlaces
  /\ CloseOrder
  /\ ClosedIsEmpty
  /\ ConnectedAtRest
  /\ NewLinksRaced
  /\ LinksSupported
  /\ GhostsRaced

---------------------------------------------------------------------------
(* The invariant is inductive *)

\* Before the first connect() nothing runs and nothing is subscribed.
LEMMA InitIInv ==
  ASSUME ClientAssumption, PlacesAssumption, ConnectionInit
  PROVE  IInv
<1>1. Wanted = {} /\ \A s \in Stream : links[s] = {}
  BY DEF ConnectionInit, Wanted
<1>2. app \notin Stream
  BY DEF ConnectionInit, PlacesAssumption
<1>3. ConnTypeOK
  <2>1. attempts \in 0..(MaxAttempts + 1)
    BY DEF ConnectionInit, ClientAssumption
  <2>2. subs \in [Stream -> {"absent", "null", "held", "old"}] /\ links \in [Stream -> SUBSET {"held", "ghost"}]
    BY DEF ConnectionInit
  <2> QED BY <2>1, <2>2 DEF ConnectionInit, ConnTypeOK, MonitorAt
<1>4. AppPlaces /\ CloseOrder /\ ClosedIsEmpty
  BY <1>1, <1>2 DEF ConnectionInit, AppPlaces, CloseOrder, ClosedIsEmpty, Closing, Swap
<1>5. ConnectedAtRest /\ NewLinksRaced
  BY <1>1 DEF ConnectionInit, ConnectedAtRest, NewLinksRaced
<1>6. LinksSupported /\ GhostsRaced
  BY <1>1 DEF LinksSupported, GhostsRaced
<1> QED BY <1>3, <1>4, <1>5, <1>6 DEF IInv

\* The connection a subscribe() adds on the websockets object it finds.
LEMMA DoSubscribeIInv ==
  ASSUME PlacesAssumption, IInv, NEW s \in Stream, DoSubscribe(s)
  PROVE  IInv'
<1>1. /\ running /\ app = s /\ app' = "idle" /\ app' \notin Stream
      /\ subs[s] # "absent" /\ s \notin {"idle", "connecting"} \cup Closing
      /\ UNCHANGED <<running, state, attempts, stale, ctx, io, monitor, early, torn>>
  BY DEF IInv, AppPlaces, DoSubscribe, PlacesAssumption
<1>2. CASE s \notin Supported
  <2>1. UNCHANGED <<subs, links, raced>> BY <1>2 DEF DoSubscribe, subVars
  <2> QED
    BY <1>1, <1>2, <2>1 DEF IInv, ConnTypeOK, AppPlaces, CloseOrder, ClosedIsEmpty, ConnectedAtRest,
       NewLinksRaced, LinksSupported, GhostsRaced, Wanted, Closing
<1>3. CASE s \in Supported
  <2>1. /\ subs \in [Stream -> {"absent", "null", "held", "old"}]
        /\ links \in [Stream -> SUBSET {"held", "ghost"}]
        /\ subs' = [subs EXCEPT ![s] = "held"]
        /\ links' = [links EXCEPT ![s] = @ \cup {"held"}]
        /\ raced \subseteq raced' /\ raced' \subseteq raced \cup {s}
        /\ monitor \in {"start", "settle", "restore"} => s \in raced'
    BY <1>3 DEF IInv, ConnTypeOK, DoSubscribe
  <2>2. \A t \in Stream \ {s} : subs'[t] = subs[t] /\ links'[t] = links[t]
    BY <2>1
  <2>3. subs'[s] = "held" /\ links'[s] = links[s] \cup {"held"} /\ Wanted' = Wanted
    BY <1>1, <2>1 DEF Wanted
  <2>4. ConnTypeOK' BY <1>1, <2>1 DEF IInv, ConnTypeOK
  <2>5. AppPlaces' /\ CloseOrder' /\ ClosedIsEmpty'
    BY <1>1, <2>3 DEF IInv, AppPlaces, CloseOrder, ClosedIsEmpty, Closing
  <2>6. ConnectedAtRest'
    BY <1>1, <2>2, <2>3 DEF IInv, ConnectedAtRest, Wanted
  <2>7. NewLinksRaced'
    BY <1>1, <2>1, <2>2, <2>3 DEF IInv, NewLinksRaced
  <2>8. LinksSupported'
    BY <1>3, <2>2 DEF IInv, LinksSupported
  <2>9. GhostsRaced'
    BY <2>1, <2>2, <2>3 DEF IInv, GhostsRaced
  <2> QED BY <2>4, <2>5, <2>6, <2>7, <2>8, <2>9 DEF IInv
<1> QED BY <1>2, <1>3

\* The application's other steps.
LEMMA AppIInv ==
  ASSUME ClientAssumption, PlacesAssumption, IInv,
         \/ Connect \/ ConnectFails \/ ReconnectNow \/ Close \/ ConnectEnd
         \/ CloseJoinsIo \/ CloseJoinsMonitor \/ CloseEnd
         \/ \E s \in Stream : Subscribe(s) \/ Unsubscribe(s)
  PROVE  IInv'
<1> USE DEF IInv, ConnTypeOK, AppPlaces, CloseOrder, ClosedIsEmpty, ConnectedAtRest,
            NewLinksRaced, LinksSupported, GhostsRaced, Wanted, Closing, MonitorAt, Swap
<1>1. CASE Connect BY <1>1 DEF PlacesAssumption, Connect, Call, subVars, history
<1>2. CASE ConnectFails BY <1>2 DEF ConnectFails, Call, subVars, history
<1>3. CASE ReconnectNow BY <1>3 DEF ClientAssumption, ReconnectNow, Call, subVars, history
<1>4. CASE Close BY <1>4, ZenonT(60) DEF PlacesAssumption, Close, Call, Stopped, subVars
<1>5. CASE ConnectEnd BY <1>5 DEF PlacesAssumption, ConnectEnd, subVars, history
<1>6. CASE CloseJoinsIo BY <1>6 DEF PlacesAssumption, CloseJoinsIo, subVars, history
<1>7. CASE CloseJoinsMonitor BY <1>7 DEF PlacesAssumption, CloseJoinsMonitor, subVars, history
<1>8. CASE CloseEnd BY <1>8 DEF PlacesAssumption, CloseEnd
<1>9. ASSUME NEW s \in Stream, Subscribe(s) PROVE IInv'
  BY <1>9 DEF PlacesAssumption, Subscribe, Call, IsConnected
<1>10. ASSUME NEW s \in Stream, Unsubscribe(s) PROVE IInv'
  BY <1>10 DEF PlacesAssumption, Unsubscribe, Call, threadVars
<1> QED BY <1>1, <1>2, <1>3, <1>4, <1>5, <1>6, <1>7, <1>8, <1>9, <1>10

\* What the network does.
LEMMA NetworkIInv ==
  ASSUME IInv, Message \/ IoStops \/ IoThrows \/ MessageTimeout \/ \E s \in Stream : StreamLost(s)
  PROVE  IInv'
<1> USE DEF IInv, ConnTypeOK, AppPlaces, CloseOrder, ClosedIsEmpty, ConnectedAtRest,
            NewLinksRaced, LinksSupported, GhostsRaced, Wanted
<1>1. CASE Message
  <2>1. /\ stale' = FALSE
        /\ UNCHANGED <<running, state, attempts, ctx, io, monitor, app, subs, links, early, raced, torn>>
    BY <1>1 DEF Message, subVars, history
  <2>2. ConnTypeOK' BY <2>1 DEF ConnTypeOK
  <2>3. AppPlaces' /\ CloseOrder' /\ ClosedIsEmpty' BY <2>1 DEF AppPlaces, CloseOrder, ClosedIsEmpty
  <2>4. ConnectedAtRest' /\ NewLinksRaced' /\ LinksSupported' /\ GhostsRaced' BY <2>1
  <2> QED BY <2>2, <2>3, <2>4
<1>2. CASE MessageTimeout BY <1>2 DEF MessageTimeout, subVars, history
<1>3. CASE IoStops \/ IoThrows BY <1>3 DEF IoStops, IoThrows, IoEnds, subVars, history
<1>4. ASSUME NEW s \in Stream, StreamLost(s) PROVE IInv'
  BY <1>4 DEF StreamLost, threadVars, history
<1> QED BY <1>1, <1>2, <1>3, <1>4

\* The monitor thread.
LEMMA MonitorIInv ==
  ASSUME ClientAssumption, IInv, MonitorStep
  PROVE  IInv'
<1> USE DEF IInv, ConnTypeOK, AppPlaces, CloseOrder, ClosedIsEmpty, ConnectedAtRest,
            NewLinksRaced, LinksSupported, GhostsRaced, Wanted, Closing, MonitorAt, Swap
<1>1. CASE MonitorCheck
  BY <1>1 DEF ClientAssumption, MonitorCheck, CheckConnectionHealth, subVars, history
<1>2. CASE Backoff BY <1>2 DEF Backoff, subVars, history
<1>3. CASE StopContext BY <1>3 DEF StopContext, Stopped, subVars, history
<1>4. CASE JoinIo BY <1>4 DEF JoinIo, subVars, history
<1>5. CASE CreateContext BY <1>5 DEF CreateContext, Aged, history
<1>6. CASE StartIo BY <1>6 DEF StartIo, subVars, history
<1>7. CASE SetConnected BY <1>7 DEF SetConnected, subVars, history
<1>8. CASE ResubscribeAll BY <1>8 DEF ClientAssumption, ResubscribeAll, Relinked
<1> QED BY <1>1, <1>2, <1>3, <1>4, <1>5, <1>6, <1>7, <1>8 DEF MonitorStep

\* Every step of the client keeps the invariant.
LEMMA NextIInv ==
  ASSUME ClientAssumption, PlacesAssumption, IInv, [ConnectionNext]_wsVars
  PROVE  IInv'
<1>1. ASSUME NEW s \in Stream, DoSubscribe(s) PROVE IInv' BY <1>1, DoSubscribeIInv
<1>2. CASE UNCHANGED wsVars
  BY <1>2 DEF wsVars, threadVars, subVars, history, IInv, ConnTypeOK, AppPlaces, CloseOrder, ClosedIsEmpty,
              ConnectedAtRest, NewLinksRaced, LinksSupported, GhostsRaced, Wanted
<1> QED BY <1>1, <1>2, AppIInv, NetworkIInv, MonitorIInv DEF ConnectionNext, AppStep

---------------------------------------------------------------------------
(* The client is a feed *)

\* connect() opens an empty feed.
LEMMA OpenStep ==
  ASSUME IInv, Connect \/ ConnectFails
  PROVE  Feed!Open
<1>1. /\ ~running /\ monitor = "none" /\ running' /\ subs' = subs /\ links' = links
      /\ \A s \in Stream : links[s] = {}
  BY DEF Connect, ConnectFails, Call, subVars, IInv, ClosedIsEmpty
<1> QED BY <1>1 DEF Feed!Open, Served, Wanted

\* close() closes the feed unless a reconnection is in progress, which does so
\* when it ends.
LEMMA CloseStep ==
  ASSUME IInv, Close
  PROVE  Feed!Close \/ UNCHANGED Feed!feedVars
<1>1. /\ running /\ ~running' /\ UNCHANGED <<monitor, io, subs, links>>
  BY DEF Close, Call, subVars
<1>2. Served' = Served /\ Wanted' = Wanted
  BY <1>1 DEF Served, Wanted
<1> QED BY <1>1, <1>2 DEF Feed!Close, Feed!feedVars

\* Its end forgets the wishes of a closed feed.
LEMMA ClearStep ==
  ASSUME IInv, CloseEnd
  PROVE  Feed!Clear
<1>1. ~running /\ monitor = "none" /\ UNCHANGED <<running, monitor>> /\ subs' = [s \in Stream |-> "absent"]
  BY DEF CloseEnd, IInv, AppPlaces, CloseOrder, Closing
<1> QED BY <1>1 DEF Feed!Clear, Served, Wanted

\* A subscribe() is a wish; the wish is served at once where a connection of an
\* earlier one was left over.
LEMMA WantStep ==
  ASSUME IInv, NEW s \in Stream, Subscribe(s)
  PROVE  Feed!Want(s)
<1>1. /\ app = "idle" /\ subs' = [subs EXCEPT ![s] = "null"] /\ subs \in [Stream -> {"absent", "null", "held", "old"}]
      /\ UNCHANGED <<running, monitor, io, links>>
  BY DEF Subscribe, Call, IInv, ConnTypeOK
<1>2. Wanted' = Wanted \cup {s}
  BY <1>1 DEF Wanted
<1>3. Served' = IF links[s] # {} /\ io = "running" THEN Served \cup {s} ELSE Served \ {s}
  BY <1>1, <1>2 DEF Served
<1>4. Served \ {s} = Served
  BY DEF Subscribe, Served, Wanted
<1>5. links[s] # {} => running /\ s \in Supported
  BY <1>1 DEF IInv, ClosedIsEmpty, LinksSupported
<1> QED BY <1>1, <1>2, <1>3, <1>4, <1>5 DEF Feed!Want

\* Acting on the wish serves it, if the exchange supports it and messages come.
LEMMA ServeStep ==
  ASSUME IInv, NEW s \in Stream, DoSubscribe(s)
  PROVE  Feed!Serve(s) \/ UNCHANGED Feed!feedVars
<1>1. /\ running /\ subs[s] # "absent" /\ UNCHANGED <<running, monitor, io>>
      /\ subs \in [Stream -> {"absent", "null", "held", "old"}]
      /\ links \in [Stream -> SUBSET {"held", "ghost"}]
  BY DEF DoSubscribe, IInv, AppPlaces, ConnTypeOK
<1>2. CASE s \notin Supported
  BY <1>1, <1>2 DEF DoSubscribe, subVars, Served, Wanted, Feed!feedVars
<1>3. CASE s \in Supported
  <2>1. subs' = [subs EXCEPT ![s] = "held"] /\ links' = [links EXCEPT ![s] = @ \cup {"held"}]
    BY <1>3 DEF DoSubscribe
  <2>2. Wanted' = Wanted /\ s \in Wanted
    BY <1>1, <2>1 DEF Wanted
  <2>3. Served' = IF io = "running" THEN Served \cup {s} ELSE Served
    BY <1>1, <2>1, <2>2 DEF Served
  <2> QED BY <1>1, <1>3, <2>2, <2>3 DEF Feed!Serve, Feed!feedVars
<1> QED BY <1>2, <1>3

\* An unsubscribe() takes the wish and what served it away.
LEMMA UnwantStep ==
  ASSUME IInv, NEW s \in Stream, Unsubscribe(s)
  PROVE  Feed!Unwant(s)
<1>1. /\ UNCHANGED <<running, monitor, io>> /\ subs' = [subs EXCEPT ![s] = "absent"]
      /\ subs \in [Stream -> {"absent", "null", "held", "old"}]
      /\ links \in [Stream -> SUBSET {"held", "ghost"}]
      /\ \A t \in Stream \ {s} : links'[t] = links[t]
  BY DEF Unsubscribe, threadVars, IInv, ConnTypeOK
<1>2. Wanted' = Wanted \ {s}
  BY <1>1 DEF Wanted
<1>3. Served' = Served \ {s}
  BY <1>1, <1>2 DEF Served, Wanted
<1> QED BY <1>1, <1>2, <1>3 DEF Feed!Unwant

\* A lost stream and an I/O thread that ends lose what they served.
LEMMA LoseStep ==
  ASSUME IInv, IoStops \/ IoThrows \/ \E s \in Stream : StreamLost(s)
  PROVE  Feed!Lose
<1>1. UNCHANGED <<running, monitor, subs>>
  BY DEF IoStops, IoThrows, IoEnds, StreamLost, subVars, threadVars
<1>2. Wanted' = Wanted
  BY <1>1 DEF Wanted
<1>3. Served' \subseteq Served
  <2>1. CASE IoStops \/ IoThrows
    BY <2>1 DEF IoStops, IoThrows, IoEnds, Served
  <2>2. ASSUME NEW s \in Stream, StreamLost(s) PROVE Served' \subseteq Served
    <3>1. io' = io /\ \A t \in Stream : links'[t] \subseteq links[t]
      BY <2>2 DEF StreamLost, threadVars, IInv, ConnTypeOK
    <3> QED BY <1>2, <3>1 DEF Served, Wanted
  <2> QED BY <2>1, <2>2
<1>4. Served' = Served \ (Served \ Served') /\ Served \ Served' \in SUBSET Served
  BY <1>3
<1> QED BY <1>1, <1>2, <1>4 DEF Feed!Lose

\* The monitor's steps: while it swaps threads nothing is served, the new I/O
\* thread may serve the one stream that raced, and resubscribe_all serves all.
LEMMA MonitorFeedStep ==
  ASSUME IInv, MonitorStep
  PROVE  \/ Feed!Close \/ Feed!Restore \/ UNCHANGED Feed!feedVars
         \/ \E s \in Stream : Feed!Serve(s)
<1>1. CASE MonitorCheck \/ Backoff \/ StopContext \/ SetConnected
  <2>1. UNCHANGED <<running, io, subs, links>>
    BY <1>1 DEF MonitorCheck, Backoff, StopContext, SetConnected, subVars
  <2>2. Wanted' = Wanted /\ Served' = Served
    BY <2>1 DEF Wanted, Served
  <2> QED BY <1>1, <2>1, <2>2 DEF MonitorCheck, Backoff, StopContext, SetConnected, Feed!feedVars
<1>2. CASE JoinIo
  <2>1. UNCHANGED <<running, subs, links>> /\ io # "running" /\ io' # "running"
    BY <1>2 DEF JoinIo, subVars
  <2>2. Wanted' = Wanted /\ Served' = {} /\ Served = {}
    BY <2>1 DEF Wanted, Served
  <2> QED BY <1>2, <2>1, <2>2 DEF JoinIo, Feed!feedVars
<1>3. CASE CreateContext
  <2>1. UNCHANGED <<running, io>> /\ io = "none" /\ monitor = "create" /\ monitor' \in {"start", "wait"}
    BY <1>3 DEF CreateContext, IInv, ConnTypeOK
  <2>2. Wanted' = Wanted
    BY <1>3 DEF CreateContext, Aged, Wanted
  <2>3. Served' = {} /\ Served = {}
    BY <2>1 DEF Served
  <2> QED BY <2>1, <2>2, <2>3 DEF Feed!Close, Feed!feedVars
<1>4. CASE StartIo
  <2>1. /\ UNCHANGED <<running, subs, links>> /\ io = "none" /\ io' = "running"
        /\ monitor = "start" /\ monitor' = "settle"
    BY <1>4 DEF StartIo, subVars, IInv, ConnTypeOK
  <2>2. Wanted' = Wanted /\ Served = {}
    BY <2>1 DEF Wanted, Served
  <2>3. \A s, t \in Served' : s = t /\ s \in Wanted \cap Supported /\ s \in Stream
    BY <2>1, <2>2 DEF Served, Wanted, IInv, NewLinksRaced, LinksSupported
  <2>4. CASE Served' = {}
    BY <2>1, <2>2, <2>4 DEF Feed!feedVars
  <2>5. ASSUME NEW s \in Served' PROVE Feed!Serve(s) /\ s \in Stream
    <3>1. Served' = Served \cup {s}
      BY <2>2, <2>3, <2>5
    <3> QED BY <2>1, <2>2, <2>3, <2>5, <3>1 DEF Feed!Serve
  <2> QED BY <2>4, <2>5
<1>5. CASE ResubscribeAll
  <2>1. UNCHANGED <<running, io>> /\ monitor = "restore" /\ monitor' = "wait"
    BY <1>5 DEF ResubscribeAll
  <2>2. PICK again \in SUBSET (Wanted \cap Supported) :
          /\ subs' = [s \in Stream |-> IF s \in again THEN "held" ELSE subs[s]]
          /\ links' = [s \in Stream |-> IF s \in again THEN Relinked(s) ELSE links[s]]
          /\ again = Wanted \cap Supported \/ state' = "RECONNECT_PENDING"
    BY <1>5 DEF ResubscribeAll
  <2>3. Wanted' = Wanted
    BY <2>2 DEF Wanted
  <2>4. \A s \in Wanted : links'[s] # {} <=> s \in again \/ links[s] # {}
    BY <2>2 DEF Relinked, Wanted
  <2>5. Served' = IF io = "running" THEN Served \cup again ELSE Served
    BY <2>1, <2>2, <2>3, <2>4 DEF Served
  <2>6. Served \subseteq Wanted \cap Supported
    BY DEF Served, Wanted, IInv, LinksSupported
  <2>7. Feed!Restored \/ Served' = Served
    BY <2>2, <2>3, <2>5, <2>6 DEF Feed!Restored
  <2> QED BY <2>1, <2>3, <2>7 DEF Feed!Close, Feed!Restore, Feed!feedVars
<1> QED BY <1>1, <1>2, <1>3, <1>4, <1>5 DEF MonitorStep

\* The other steps change nothing a user of the feed sees.
LEMMA HiddenStep ==
  ASSUME \/ ConnectEnd \/ ReconnectNow \/ CloseJoinsIo \/ CloseJoinsMonitor
         \/ Message \/ MessageTimeout \/ UNCHANGED wsVars
  PROVE  UNCHANGED Feed!feedVars
<1>1. /\ UNCHANGED <<running, subs, links>>
      /\ monitor' = monitor \/ (monitor \in {"none", "ended"} /\ monitor' = "none")
      /\ io' = io \/ (io # "running" /\ io' # "running")
  BY DEF ConnectEnd, ReconnectNow, Call, CloseJoinsIo, CloseJoinsMonitor, Message, MessageTimeout,
         wsVars, threadVars, subVars, history
<1>2. Wanted' = Wanted /\ Served' = Served
  BY <1>1 DEF Wanted, Served
<1> QED BY <1>1, <1>2 DEF Feed!feedVars

\* Before the first connect() the feed is closed and empty.
LEMMA FeedInit ==
  ASSUME ConnectionInit
  PROVE  Feed!Init
BY DEF ConnectionInit, Feed!Init, Wanted, Served

\* Every step of the client is a step of the feed, or none.
LEMMA FeedStep ==
  ASSUME IInv, [ConnectionNext]_wsVars
  PROVE  [Feed!Next]_Feed!feedVars
<1> USE DEF Feed!Next
<1>1. CASE Connect \/ ConnectFails BY <1>1, OpenStep
<1>2. CASE Close BY <1>2, CloseStep
<1>3. CASE CloseEnd BY <1>3, ClearStep
<1>4. ASSUME NEW s \in Stream, Subscribe(s) PROVE Feed!Next BY <1>4, WantStep
<1>5. ASSUME NEW s \in Stream, DoSubscribe(s) PROVE [Feed!Next]_Feed!feedVars BY <1>5, ServeStep
<1>6. ASSUME NEW s \in Stream, Unsubscribe(s) PROVE Feed!Next BY <1>6, UnwantStep
<1>7. CASE IoStops \/ IoThrows \/ \E s \in Stream : StreamLost(s) BY <1>7, LoseStep
<1>8. CASE MonitorStep BY <1>8, MonitorFeedStep
<1>9. CASE \/ ConnectEnd \/ ReconnectNow \/ CloseJoinsIo \/ CloseJoinsMonitor
           \/ Message \/ MessageTimeout \/ UNCHANGED wsVars
  BY <1>9, HiddenStep
<1> QED BY <1>1, <1>2, <1>3, <1>4, <1>5, <1>6, <1>7, <1>8, <1>9 DEF ConnectionNext, AppStep

---------------------------------------------------------------------------
(* Theorems *)

\* The inductive invariant holds in every state of the client.
THEOREM Invariance == ConnectionSpec => []IInv
<1>1. ConnectionInit => IInv
  BY InitIInv, ClientAssumption, PlacesAssumption
<1>2. IInv /\ [ConnectionNext]_wsVars => IInv'
  BY NextIInv, ClientAssumption, PlacesAssumption
<1> QED BY <1>1, <1>2, PTL DEF ConnectionSpec

\* The variables keep their types, and no thread is assigned over one that was
\* not joined, for any number of streams, calls and faults.
THEOREM ConnTypeCorrect == ConnectionSpec => []ConnTypeOK
<1>1. IInv => ConnTypeOK
  BY DEF IInv
<1> QED BY <1>1, Invariance, PTL

\* close() leaves nothing behind, unless it tore a reconnection apart: whatever
\* the monitor was doing when it came.
THEOREM ClosedCleanEver == ConnectionSpec => []ClosedClean
<1>1. IInv => ClosedClean
  BY DEF IInv, ClosedIsEmpty, ClosedClean
<1> QED BY <1>1, Invariance, PTL

\* At rest and CONNECTED every wanted stream is subscribed on the current
\* connection, and only once, but for the two named races.
THEOREM SubscriptionsAgreeEver == ConnectionSpec => []SubscriptionsAgree
<1>1. ASSUME PlacesAssumption, IInv PROVE SubscriptionsAgree
  <2>1. app = "idle" => app \notin Stream
    BY <1>1 DEF PlacesAssumption
  <2> QED BY <1>1, <2>1 DEF IInv, ConnectedAtRest, GhostsRaced, SubscriptionsAgree, IsConnected, Wanted
<1> QED BY <1>1, PlacesAssumption, Invariance, PTL

\* The three threads of the client implement the feed: StreamFeed's initial
\* state, and each step one of its steps or none.
THEOREM ImplementsFeed == ConnectionSpec => IsFeed
<1>1. ConnectionInit => Feed!Init
  BY FeedInit
<1>2. IInv /\ [ConnectionNext]_wsVars => [Feed!Next]_Feed!feedVars
  BY FeedStep
<1> QED BY <1>1, <1>2, Invariance, PTL DEF ConnectionSpec, IsFeed, Feed!Spec
==============================================================================
