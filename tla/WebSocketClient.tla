--------------------------- MODULE WebSocketClient ---------------------------
(* WebSocketClient (exchange/websocket_client.cpp): the application thread,    *)
(* the I/O thread and the monitor thread that replaces a connection which is   *)
(* lost or silent.  subscriptions_mutex makes subscribe, unsubscribe and       *)
(* resubscribe_all exclude each other; everything else is interleaved.         *)
EXTENDS Naturals, FiniteSets

CONSTANTS
  Stream,       \* stream names the application uses
  Supported,    \* those whose channel do_subscribe knows
  MaxAttempts,  \* config.max_reconnect_attempts
  MaxCalls,     \* bound: calls the application makes
  MaxFaults     \* bound: exceptions that end the I/O loop or resubscribe_all
ASSUME ClientAssumption ==
  /\ Supported \subseteq Stream
  /\ MaxAttempts \in Nat \ {0} /\ MaxCalls \in Nat /\ MaxFaults \in Nat

VARIABLES
  running, state, attempts,   \* the atomics of Impl
  stale,     \* last_message_time is older than message_timeout_ms
  ctx,       \* io_context: "none", "live" or "stopped"
  io,        \* io_thread: "none" (not joinable), "running" or "ended"
  monitor,   \* where monitor_thread is
  app,       \* where the application's call is; a stream: subscribe() of it
  subs,      \* subscriptions: "absent", or the entry's handle: "null", "held", "old"
  links,     \* per stream, its connections in the current websockets object
  calls, faults,  \* calls made, exceptions so far
  early, raced, torn  \* history, see Properties

threadVars == <<running, state, attempts, stale, ctx, io, monitor, app>>
subVars == <<subs, links>>
history == <<early, raced, torn>>
wsVars == <<threadVars, subVars, calls, faults, history>>

\* The monitor is past its running check and has not yet started the new thread.
Swap == {"stop", "join", "create", "start"}
MonitorAt == {"none", "wait", "backoff", "settle", "restore", "ended"} \cup Swap
Closing == {"joinIo", "joinMonitor", "cleanup"}
\* A stream's name is not that of a place of the application.
ASSUME PlacesAssumption == Stream \cap ({"idle", "connecting"} \cup Closing) = {}

IsConnected == running /\ state = "CONNECTED"
Wanted == {s \in Stream : subs[s] # "absent"}
Served == {s \in Wanted : links[s] # {} /\ io = "running"}

ConnectionInit ==
  /\ running = FALSE /\ state = "IDLE" /\ attempts = 0 /\ stale = FALSE
  /\ ctx = "none" /\ io = "none" /\ monitor = "none" /\ app = "idle"
  /\ subs = [s \in Stream |-> "absent"] /\ links = [s \in Stream |-> {}]
  /\ calls = 0 /\ faults = 0 /\ early = {} /\ raced = {} /\ torn = FALSE

-----------------------------------------------------------------------------
(* The application's calls.                                                    *)
Call == app = "idle" /\ calls < MaxCalls /\ calls' = calls + 1 /\ UNCHANGED faults

\* connect() while running returns true and does nothing, also after a failure.
\* A torn close leaves a joinable thread: assigning it would end the program.
Connect ==
  /\ Call /\ ~running /\ ~torn
  /\ running' = TRUE /\ state' = "CONNECTING" /\ ctx' = "live"
  /\ io' = "running" /\ monitor' = "wait" /\ app' = "connecting"
  /\ UNCHANGED <<attempts, stale, subVars, history>>

\* Creating the context or the websockets throws: no thread is started.
ConnectFails ==
  /\ Call /\ ~running /\ ~torn
  /\ running' = TRUE /\ state' = "FAILED" /\ ctx' = "live"
  /\ UNCHANGED <<attempts, stale, io, monitor, app, subVars, history>>

ConnectEnd ==
  /\ app = "connecting"
  /\ state' = "CONNECTED" /\ stale' = FALSE /\ app' = "idle"
  /\ UNCHANGED <<running, attempts, ctx, io, monitor, subVars, calls, faults, history>>

\* subscribe() looks at is_connected() after it has added the entry ...
Subscribe(s) ==
  /\ Call /\ subs[s] = "absent" /\ subs' = [subs EXCEPT ![s] = "null"]
  /\ app' = IF IsConnected THEN s ELSE "idle"
  /\ early' = IF running THEN early ELSE early \cup {s}
  /\ UNCHANGED <<running, state, attempts, stale, ctx, io, monitor, links, raced, torn>>

\* ... and do_subscribe acts on the websockets object it then finds.
DoSubscribe(s) ==
  /\ app = s /\ app' = "idle"
  /\ IF s \in Supported
     THEN /\ subs' = [subs EXCEPT ![s] = "held"]
          /\ links' = [links EXCEPT ![s] = @ \cup {"held"}]
          /\ raced' = IF monitor \in {"start", "settle", "restore"} THEN raced \cup {s} ELSE raced
     ELSE UNCHANGED <<subVars, raced>>
  /\ UNCHANGED <<running, state, attempts, stale, ctx, io, monitor, calls, faults, early, torn>>

Unsubscribe(s) ==
  /\ Call /\ subs[s] # "absent" /\ subs' = [subs EXCEPT ![s] = "absent"]
  /\ links' = IF subs[s] = "held" THEN [links EXCEPT ![s] = @ \ {"held"}] ELSE links
  /\ early' = early \ {s}
  /\ UNCHANGED <<threadVars, raced, torn>>

\* reconnect_now() only resets the counter and wakes the monitor.
ReconnectNow == Call /\ attempts' = 0 /\ UNCHANGED <<running, state, stale, ctx, io, monitor, app, subVars, history>>

\* Mutant: close() does not stop the I/O context.
CloseKeepsContext ==
  /\ Call /\ running /\ running' = FALSE /\ app' = "joinIo"
  /\ torn' = (torn \/ monitor \in Swap)
  /\ UNCHANGED <<state, attempts, stale, ctx, io, monitor, subVars, early, raced>>

Stopped == IF ctx = "live" THEN "stopped" ELSE ctx

Close ==
  /\ Call /\ running /\ running' = FALSE /\ ctx' = Stopped /\ app' = "joinIo"
  /\ torn' = (torn \/ monitor \in Swap)
  /\ UNCHANGED <<state, attempts, stale, io, monitor, subVars, early, raced>>

CloseJoinsIo ==
  /\ app = "joinIo" /\ io # "running" /\ io' = "none" /\ app' = "joinMonitor"
  /\ UNCHANGED <<running, state, attempts, stale, ctx, monitor, subVars, calls, faults, history>>

CloseJoinsMonitor ==
  /\ app = "joinMonitor" /\ monitor \in {"none", "ended"} /\ monitor' = "none" /\ app' = "cleanup"
  /\ UNCHANGED <<running, state, attempts, stale, ctx, io, subVars, calls, faults, history>>

CloseEnd ==
  /\ app = "cleanup" /\ app' = "idle" /\ ctx' = "none" /\ state' = "IDLE"
  /\ subs' = [s \in Stream |-> "absent"] /\ links' = [s \in Stream |-> {}]
  /\ early' = {} /\ raced' = {}
  /\ UNCHANGED <<running, attempts, stale, io, monitor, calls, faults, torn>>

AppStep == ConnectEnd \/ (\E s \in Stream : DoSubscribe(s)) \/ CloseJoinsIo \/ CloseJoinsMonitor \/ CloseEnd

-----------------------------------------------------------------------------
(* The I/O thread and the network.                                             *)
Message == Served # {} /\ stale' = FALSE /\ UNCHANGED <<running, state, attempts, ctx, io, monitor, app, subVars, calls, faults, history>>

\* One stream's connection ends: its callback gets an error and returns false.
StreamLost(s) ==
  /\ \E c \in links[s] : links' = [links EXCEPT ![s] = @ \ {c}]
  /\ UNCHANGED <<threadVars, subs, calls, faults, history>>

\* The I/O loop ends because its context was stopped or by an exception.
IoEnds ==
  /\ io = "running" /\ io' = "ended"
  /\ state' = IF running THEN "RECONNECT_PENDING" ELSE state
  /\ UNCHANGED <<running, attempts, stale, ctx, monitor, app, subVars, calls, history>>

IoStops == ctx = "stopped" /\ IoEnds /\ UNCHANGED faults

IoThrows == faults < MaxFaults /\ faults' = faults + 1 /\ IoEnds

MessageTimeout ==
  /\ running /\ app # "connecting" /\ stale' = TRUE
  /\ UNCHANGED <<running, state, attempts, ctx, io, monitor, app, subVars, calls, faults, history>>

-----------------------------------------------------------------------------
(* The monitor thread: monitor_loop and handle_reconnect.                      *)
\* Mutant: silence is not taken for a lost connection.
CheckConnectionHealthNever == state

CheckConnectionHealth == IF stale THEN "RECONNECT_PENDING" ELSE state

\* The first check comes an interval after connect() started the thread.
\* attempts is capped: only that it exceeds the maximum matters.
MonitorCheck ==
  /\ monitor = "wait" /\ app # "connecting"
  /\ \/ ~running /\ monitor' = "ended" /\ UNCHANGED <<state, attempts>>
     \/ /\ running /\ CheckConnectionHealth = "RECONNECT_PENDING"
        /\ IF attempts >= MaxAttempts
           THEN state' = "FAILED" /\ attempts' = MaxAttempts + 1 /\ UNCHANGED monitor
           ELSE state' = "RECONNECT_PENDING" /\ attempts' = attempts + 1 /\ monitor' = "backoff"
  /\ UNCHANGED <<running, stale, ctx, io, app, subVars, calls, faults, history>>

\* Mutant: the reconnection goes on after a close() during the backoff.
BackoffIgnoresClose ==
  /\ monitor = "backoff" /\ state' = "CONNECTING" /\ monitor' = "stop"
  /\ UNCHANGED <<running, attempts, stale, ctx, io, app, subVars, calls, faults, history>>

Backoff ==
  /\ monitor = "backoff"
  /\ \/ running /\ state' = "CONNECTING" /\ monitor' = "stop"
     \/ ~running /\ monitor' = "ended" /\ UNCHANGED state
  /\ UNCHANGED <<running, attempts, stale, ctx, io, app, subVars, calls, faults, history>>

StopContext ==
  /\ monitor = "stop" /\ ctx' = Stopped /\ monitor' = "join"
  /\ UNCHANGED <<running, state, attempts, stale, io, app, subVars, calls, faults, history>>

\* Mutant: the old thread is not joined before the new one is made.
JoinIoNot ==
  /\ monitor = "join" /\ monitor' = "create"
  /\ UNCHANGED <<running, state, attempts, stale, ctx, io, app, subVars, calls, faults, history>>

JoinIo ==
  /\ monitor = "join" /\ io # "running" /\ io' = "none" /\ monitor' = "create"
  /\ UNCHANGED <<running, state, attempts, stale, ctx, app, subVars, calls, faults, history>>

\* The old websockets object goes with all its connections; the handles stay.
Aged == [s \in Stream |-> IF subs[s] = "held" THEN "old" ELSE subs[s]]

CreateContext ==
  /\ monitor = "create" /\ ctx' = "live"
  /\ subs' = Aged /\ links' = [s \in Stream |-> {}]
  /\ \/ monitor' = "start" /\ UNCHANGED state
     \/ monitor' = "wait" /\ state' = "RECONNECT_PENDING"     \* an exception
  /\ UNCHANGED <<running, attempts, stale, io, app, calls, faults, history>>

StartIo ==
  /\ monitor = "start" /\ io' = "running" /\ stale' = FALSE /\ monitor' = "settle"
  /\ UNCHANGED <<running, state, attempts, ctx, app, subVars, calls, faults, history>>

SetConnected ==
  /\ monitor = "settle" /\ state' = "CONNECTED" /\ monitor' = "restore"
  /\ UNCHANGED <<running, attempts, stale, ctx, io, app, subVars, calls, faults, history>>

\* A link made since the new object exists loses its handle to the new one.
Relinked(s) == (IF links[s] = {} THEN {} ELSE {"ghost"}) \cup {"held"}

\* Mutant: only entries that never had a handle are subscribed again.
ResubscribeNew ==
  /\ monitor = "restore" /\ app \notin Stream /\ monitor' = "wait" /\ attempts' = 0
  /\ LET again == {s \in Supported : subs[s] = "null"} IN
       /\ subs' = [s \in Stream |-> IF s \in again THEN "held" ELSE subs[s]]
       /\ links' = [s \in Stream |-> IF s \in again THEN Relinked(s) ELSE links[s]]
  /\ early' = {}
  /\ UNCHANGED <<running, state, stale, ctx, io, app, calls, faults, raced, torn>>

\* An exception on the way leaves the rest without, and pending.
ResubscribeAll ==
  /\ monitor = "restore" /\ app \notin Stream /\ monitor' = "wait"
  /\ \E again \in SUBSET (Wanted \cap Supported) :
       /\ subs' = [s \in Stream |-> IF s \in again THEN "held" ELSE subs[s]]
       /\ links' = [s \in Stream |-> IF s \in again THEN Relinked(s) ELSE links[s]]
       /\ \/ /\ again = Wanted \cap Supported /\ attempts' = 0 /\ early' = {}
             /\ UNCHANGED <<state, faults>>
          \/ /\ again # Wanted \cap Supported /\ faults < MaxFaults /\ faults' = faults + 1
             /\ state' = "RECONNECT_PENDING" /\ early' = early \ again /\ UNCHANGED attempts
  /\ UNCHANGED <<running, stale, ctx, io, app, calls, raced, torn>>

MonitorStep ==
  \/ MonitorCheck \/ Backoff \/ StopContext \/ JoinIo \/ CreateContext
  \/ StartIo \/ SetConnected \/ ResubscribeAll

-----------------------------------------------------------------------------
ConnectionNext ==
  \/ Connect \/ ConnectFails \/ ReconnectNow \/ Close \/ AppStep
  \/ \E s \in Stream : Subscribe(s) \/ Unsubscribe(s) \/ StreamLost(s)
  \/ Message \/ IoStops \/ IoThrows \/ MessageTimeout
  \/ MonitorStep

\* The two threads and a call in progress go on; a stopped context ends its loop;
\* silence is noticed, by the clock, when no stream delivers.
ConnectionFairness ==
  /\ WF_wsVars(MonitorStep) /\ WF_wsVars(AppStep) /\ WF_wsVars(IoStops)
  /\ WF_wsVars(Served = {} /\ MessageTimeout)

ConnectionSpec == ConnectionInit /\ [][ConnectionNext]_wsVars /\ ConnectionFairness
-----------------------------------------------------------------------------
(* Properties.  History: early, streams subscribed before connect(); raced,    *)
(* streams subscribed on a new websockets object that resubscribe_all had      *)
(* still to see; torn, a close() that came while the monitor swapped threads.  *)

\* Types, and the thread slot is free when the monitor fills it: assigning a
\* thread over one that was not joined would end the program.
ConnTypeOK ==
  /\ running \in BOOLEAN /\ stale \in BOOLEAN /\ attempts \in 0..(MaxAttempts + 1)
  /\ state \in {"IDLE", "CONNECTING", "CONNECTED", "RECONNECT_PENDING", "FAILED"}
  /\ ctx \in {"none", "live", "stopped"} /\ io \in {"none", "running", "ended"}
  /\ monitor \in MonitorAt /\ app \in {"idle", "connecting"} \cup Closing \cup Stream
  /\ subs \in [Stream -> {"absent", "null", "held", "old"}]
  /\ links \in [Stream -> SUBSET {"held", "ghost"}]
  /\ early \subseteq Stream /\ raced \subseteq Stream /\ torn \in BOOLEAN
  /\ monitor \in {"create", "start"} => io = "none"

\* At rest and CONNECTED every wanted stream holds a handle of the current
\* websockets object, whatever calls fell into a reconnection; the only streams
\* left out are those subscribed before connect(), which never sends them, and
\* the only doubled connections those of a subscribe() that raced with
\* resubscribe_all.
SubscriptionsAgree ==
  /\ IsConnected /\ monitor = "wait" /\ app = "idle" =>
       \A s \in Wanted \cap Supported : subs[s] = "held" \/ s \in early
  /\ \A s \in Stream : "ghost" \in links[s] => s \in raced

\* After close() nothing is left: no thread, no context, no connection, unless
\* it tore a reconnection apart.
ClosedClean ==
  ~running /\ app = "idle" /\ ~torn =>
    /\ io = "none" /\ monitor = "none" /\ ctx = "none"
    /\ \A s \in Stream : links[s] = {} /\ Wanted \subseteq early

\* The client is a feed: a reconnection restores all wanted streams in one step,
\* or fails and is pending again, and nothing else makes a lost stream come back.  A close takes effect once the
\* reconnection in progress is over.
Feed == INSTANCE StreamFeed WITH
  open <- running \/ monitor \notin {"none", "wait", "backoff", "ended"},
  wanted <- Wanted, served <- Served, pending <- state = "RECONNECT_PENDING"
IsFeed == Feed!Spec

\* When no wanted stream is served any more one is served again, unless the
\* application closes or unsubscribes or the attempts run out.  It takes the
\* loss of all of them: a stream lost alone, while others deliver, stays lost.
FeedRecovers ==
  running /\ Wanted \cap Supported # {} /\ Served = {} ~>
    Served # {} \/ ~running \/ Wanted \cap Supported = {} \/ state = "FAILED"

\* A close() that does not fall into the swap of the threads returns.
CleanCloseReturns == app = "joinIo" /\ ~torn ~> app = "idle"
============================================================================
