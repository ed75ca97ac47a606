---------------------------- MODULE AsyncLogger ----------------------------
(* Logger (utils/logger.cpp): threads that log, the worker of the asynchronous *)
(* mode, and one thread that configures it, switches the mode and shuts the    *)
(* logger down.  A message is its number; what is formatted and where it goes  *)
(* is left out.                                                                *)
EXTENDS Naturals, Sequences

CONSTANTS
  LogThreads,   \* threads that log
  MaxLogged,    \* bound: messages
  MaxSwitches   \* bound: calls of set_async(), configure() and shutdown()
ASSUME LoggerAssumption == MaxLogged \in Nat /\ MaxSwitches \in Nat

VARIABLES
  logRunning, asyncMode,  \* running_, config_.async_mode
  messageQueue,           \* message_queue_
  logWorker, carried,     \* where async_worker is, "none" when async_thread_ is not
                          \* joinable, and the message it took off the queue
  logThread, logHolds,    \* where each thread is in log() or flush(), and its message
  logOwner,               \* where the switching thread is; "aborted" ends the program
  logged, switches,       \* messages and calls so far
  written, missed         \* history: messages written; shutdown's notification was missed

modeVars == <<logRunning, asyncMode>>
threadVars == <<logThread, logHolds, logged>>
ownerVars == <<logOwner, switches>>
logVars == <<modeVars, messageQueue, logWorker, carried, threadVars, ownerVars, written, missed>>

\* The constructor starts the worker: asynchronous is the default.
LoggerInit ==
  /\ logRunning = TRUE /\ asyncMode = TRUE
  /\ messageQueue = <<>> /\ logWorker = "head" /\ carried = 0
  /\ logThread = [t \in LogThreads |-> "idle"] /\ logHolds = [t \in LogThreads |-> 0]
  /\ logOwner = "idle" /\ logged = 0 /\ switches = 0
  /\ written = <<>> /\ missed = FALSE

\* set_async() holds mutex_ while it joins, the worker while it falls asleep.
LogMutexFree == logOwner # "joinLocked" /\ logWorker # "toSleep"
LogWake == logWorker' = IF logWorker = "asleep" THEN "lock" ELSE logWorker

-----------------------------------------------------------------------------
(* log(): the mode is read before the mutex is taken.                          *)
LogCall(t) ==
  /\ logThread[t] = "idle" /\ logged < MaxLogged
  /\ logged' = logged + 1 /\ logHolds' = [logHolds EXCEPT ![t] = logged']
  /\ logThread' = [logThread EXCEPT ![t] = IF asyncMode THEN "push" ELSE "write"]
  /\ UNCHANGED <<modeVars, messageQueue, logWorker, carried, ownerVars, written, missed>>

\* Mutant: no notification, as if the worker were always awake.
LogPushSilent(t) ==
  /\ logThread[t] = "push" /\ LogMutexFree /\ logThread' = [logThread EXCEPT ![t] = "idle"]
  /\ messageQueue' = Append(messageQueue, logHolds[t])
  /\ UNCHANGED <<modeVars, logWorker, carried, logHolds, logged, ownerVars, written, missed>>

LogPush(t) ==
  /\ logThread[t] = "push" /\ LogMutexFree /\ logThread' = [logThread EXCEPT ![t] = "idle"]
  /\ messageQueue' = Append(messageQueue, logHolds[t]) /\ LogWake
  /\ UNCHANGED <<modeVars, carried, logHolds, logged, ownerVars, written, missed>>

LogDirect(t) ==
  /\ logThread[t] = "write" /\ logThread' = [logThread EXCEPT ![t] = "idle"]
  /\ written' = Append(written, logHolds[t])
  /\ UNCHANGED <<modeVars, messageQueue, logWorker, carried, logHolds, logged, ownerVars, missed>>

\* flush() flushes the file, not the queue, but needs the mutex.
FlushCall(t) ==
  /\ logThread[t] = "idle" /\ logThread' = [logThread EXCEPT ![t] = "flush"]
  /\ UNCHANGED <<modeVars, messageQueue, logWorker, carried, logHolds, logged, ownerVars, written, missed>>

FlushDone(t) ==
  /\ logThread[t] = "flush" /\ LogMutexFree /\ logThread' = [logThread EXCEPT ![t] = "idle"]
  /\ UNCHANGED <<modeVars, messageQueue, logWorker, carried, logHolds, logged, ownerVars, written, missed>>

-----------------------------------------------------------------------------
(* async_worker.                                                               *)
LogWorkerGoes(from, to) ==
  logOwner # "aborted" /\ logWorker = from /\ logWorker' = to /\ UNCHANGED <<modeVars, threadVars, ownerVars, missed>>

LogWorkerHead ==
  LogWorkerGoes("head", IF logRunning THEN "lock" ELSE "ended") /\ UNCHANGED <<messageQueue, carried, written>>

LogWorkerTakes ==
  /\ LogMutexFree /\ messageQueue # <<>> /\ LogWorkerGoes("lock", "carry")
  /\ carried' = Head(messageQueue) /\ messageQueue' = Tail(messageQueue) /\ UNCHANGED written

LogWorkerWaits ==
  /\ \/ LogMutexFree /\ messageQueue = <<>> /\ LogWorkerGoes("lock", IF logRunning THEN "toSleep" ELSE "ended")
     \/ LogWorkerGoes("toSleep", "asleep")
  /\ UNCHANGED <<messageQueue, carried, written>>

LogWorkerWrites ==
  /\ LogWorkerGoes("carry", "head")
  /\ written' = Append(written, carried) /\ carried' = 0 /\ UNCHANGED messageQueue

-----------------------------------------------------------------------------
(* set_async(), configure() and shutdown().                                    *)
LogOwnerCalls == logOwner = "idle" /\ switches < MaxSwitches /\ switches' = switches + 1

\* The join keeps the mutex.
SetSync ==
  /\ LogOwnerCalls /\ LogMutexFree /\ asyncMode
  /\ logRunning' = FALSE /\ logOwner' = "joinLocked" /\ LogWake
  /\ UNCHANGED <<asyncMode, messageQueue, carried, threadVars, written, missed>>

SetSyncJoined ==
  /\ logOwner = "joinLocked" /\ logWorker \in {"ended", "none"} /\ logWorker' = "none"
  /\ logOwner' = "idle" /\ asyncMode' = FALSE /\ logRunning' = TRUE
  /\ UNCHANGED <<messageQueue, carried, threadVars, switches, written, missed>>

\* A thread object that is assigned to while it is joinable calls std::terminate.
SetAsync ==
  /\ LogOwnerCalls /\ LogMutexFree /\ ~asyncMode
  /\ asyncMode' = TRUE /\ logRunning' = TRUE
  /\ IF logWorker = "none" THEN logWorker' = "head" /\ UNCHANGED logOwner
     ELSE logOwner' = "aborted" /\ UNCHANGED logWorker
  /\ UNCHANGED <<messageQueue, carried, threadVars, written, missed>>

\* A configuration of the other mode: the worker is neither started nor stopped.
Configure ==
  /\ LogOwnerCalls /\ LogMutexFree /\ asyncMode' = ~asyncMode
  /\ UNCHANGED <<logRunning, messageQueue, logWorker, carried, threadVars, logOwner, written, missed>>

Shutdown ==
  /\ LogOwnerCalls /\ logRunning' = FALSE /\ logOwner' = "notify"
  /\ UNCHANGED <<asyncMode, messageQueue, logWorker, carried, threadVars, written, missed>>

\* Without the mutex: a worker about to sleep misses it.
ShutdownNotifies ==
  /\ logOwner = "notify" /\ logOwner' = "join" /\ LogWake
  /\ missed' = (missed \/ logWorker = "toSleep")
  /\ UNCHANGED <<modeVars, messageQueue, carried, threadVars, switches, written>>

ShutdownJoined ==
  /\ logOwner = "join" /\ logWorker \in {"ended", "none"} /\ logWorker' = "none" /\ logOwner' = "idle"
  /\ UNCHANGED <<modeVars, messageQueue, carried, threadVars, switches, written, missed>>

LogWorkerStep == LogWorkerHead \/ LogWorkerTakes \/ LogWorkerWaits \/ LogWorkerWrites
LogThreadStep(t) == LogPush(t) \/ LogDirect(t) \/ FlushDone(t)
LogOwnerStep == SetSyncJoined \/ ShutdownNotifies \/ ShutdownJoined

LoggerNext ==
  /\ logOwner # "aborted"
  /\ \/ \E t \in LogThreads : LogCall(t) \/ FlushCall(t) \/ LogThreadStep(t)
     \/ LogWorkerStep \/ LogOwnerStep
     \/ SetSync \/ SetAsync \/ Configure \/ Shutdown

\* The worker and the owner run on; nobody owes another message.
LoggerFairness == WF_logVars(LogWorkerStep) /\ WF_logVars(LogOwnerStep)
LoggerSpec == LoggerInit /\ [][LoggerNext]_logVars /\ LoggerFairness
-----------------------------------------------------------------------------
InSequence(m, seq) == \E i \in DOMAIN seq : seq[i] = m

\* What is queued is written unless the worker is stopped, was never started for a
\* mode that configure() set, or set_async(true) aborts the program because a worker
\* that configure() left behind still runs; shutdown() returns unless the worker
\* missed its notification.  A set_async(false) that does not return, SwitchReturns,
\* has a worker that waits for the mutex the join holds: no other interleaving of
\* threads that log, modes switched and configured and a shutdown leaves anybody waiting.
LoggerDrains ==
  /\ \A m \in 1..MaxLogged :
       InSequence(m, messageQueue) ~>
         \/ InSequence(m, written) \/ ~logRunning \/ ~asyncMode
         \/ logWorker = "none" \/ logOwner = "aborted"
  /\ logOwner = "join" ~> logOwner = "idle" \/ missed
  /\ logOwner = "joinLocked" ~> logOwner = "idle" \/ logWorker = "lock"

\* set_async(false) returns, as test_logger.cpp expects of it: it does not when the
\* worker is asleep on an empty queue, which is where an idle logger's worker is.
SwitchReturns == logOwner = "joinLocked" ~> logOwner = "idle"
=============================================================================
