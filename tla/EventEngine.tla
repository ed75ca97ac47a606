---------------------------- MODULE EventEngine ----------------------------
(* EventEngine (engine/event.cpp): a queue under queue_mutex_, one worker      *)
(* thread that hands events to the handlers in order, one timer thread, and    *)
(* start() / stop() called by the owner.  What a handler does is left to the   *)
(* module that composes this one: it conjoins it with Handled.                 *)
(*                                                                             *)
(* The worker waits with a timeout of a second and tests active_ after every   *)
(* wait, so a notification that is missed only delays it.  active_ is a plain  *)
(* bool; each thread reads it between calls the compiler cannot see through,   *)
(* so the model lets every thread see its latest value.                        *)
EXTENDS Sequences, Naturals

CONSTANTS
  TimerEvent,    \* Event(EVENT_TIMER)
  NoEvent,       \* the worker holds nothing
  TimerBacklog   \* bound: TIMER events waiting in queue_ at once

ASSUME BacklogAssumption == TimerBacklog \in Nat

VARIABLES
  active,    \* active_
  queue,     \* queue_
  worker,    \* run(): "off", "loop", "busy", "done"
  current,   \* the event the worker took off the queue
  timer,     \* run_timer(): "off", "sleep", "done"
  owner      \* the thread that calls start() and stop(): "free", "joining"

engineVars == <<active, queue, worker, current, timer, owner>>

EngineInit ==
  /\ active = FALSE
  /\ queue = <<>>
  /\ worker = "off" /\ current = NoEvent
  /\ timer = "off"
  /\ owner = "free"

\* put(), once or several times by one caller that holds a lock of its own.
Put(events) == queue' = queue \o events

Start ==
  /\ ~active /\ owner = "free"
  /\ active' = TRUE
  /\ worker' = "loop" /\ timer' = "sleep"
  /\ UNCHANGED <<queue, current, owner>>

StopBegin ==
  /\ active /\ owner = "free"
  /\ active' = FALSE
  /\ owner' = "joining"
  /\ UNCHANGED <<queue, worker, current, timer>>

\* Mutant: stop() does not join the worker.
StopEndTimerOnly ==
  /\ owner = "joining"
  /\ timer = "done"
  /\ owner' = "free" /\ timer' = "off"
  /\ UNCHANGED <<active, queue, worker, current>>

\* Mutant: stop() forgets what is still queued.
StopEndCleared ==
  /\ owner = "joining"
  /\ worker = "done" /\ timer = "done"
  /\ owner' = "free" /\ worker' = "off" /\ timer' = "off" /\ queue' = <<>>
  /\ UNCHANGED <<active, current>>

\* stop() returns when both threads are joined.  What is queued stays queued.
StopEnd ==
  /\ owner = "joining"
  /\ worker = "done" /\ timer = "done"
  /\ owner' = "free" /\ worker' = "off" /\ timer' = "off"
  /\ UNCHANGED <<active, queue, current>>

\* Mutant: the worker takes the newest event.
TakeNewest ==
  /\ worker = "loop" /\ active /\ queue # <<>>
  /\ current' = queue[Len(queue)]
  /\ queue' = SubSeq(queue, 1, Len(queue) - 1)
  /\ worker' = "busy"
  /\ UNCHANGED <<active, timer, owner>>

Take ==
  /\ worker = "loop" /\ active /\ queue # <<>>
  /\ current' = Head(queue)
  /\ queue' = Tail(queue)
  /\ worker' = "busy"
  /\ UNCHANGED <<active, timer, owner>>

\* process(current) has called every handler.
Handled ==
  /\ worker = "busy"
  /\ worker' = "loop" /\ current' = NoEvent
  /\ UNCHANGED <<active, queue, timer, owner>>

\* Mutant: the worker leaves its loop only with an empty queue it never drains.
WorkerExitEmpty ==
  /\ worker = "loop" /\ ~active /\ queue = <<>>
  /\ worker' = "done"
  /\ UNCHANGED <<active, queue, current, timer, owner>>

\* The loop ends as soon as active_ is false, whatever is still queued.
WorkerExit ==
  /\ worker = "loop" /\ ~active
  /\ worker' = "done"
  /\ UNCHANGED <<active, queue, current, timer, owner>>

TimerTick ==
  /\ timer = "sleep" /\ active
  /\ Len(SelectSeq(queue, LAMBDA e : e = TimerEvent)) < TimerBacklog
  /\ Put(<<TimerEvent>>)
  /\ UNCHANGED <<active, worker, current, timer, owner>>

TimerExit ==
  /\ timer = "sleep" /\ ~active
  /\ timer' = "done"
  /\ UNCHANGED <<active, queue, worker, current, owner>>

\* The engine's part of a type invariant.
EngineTypeOK(Event) ==
  /\ active \in BOOLEAN
  /\ queue \in Seq(Event \cup {TimerEvent})
  /\ worker \in {"off", "loop", "busy", "done"}
  /\ current \in Event \cup {TimerEvent, NoEvent}
  /\ timer \in {"off", "sleep", "done"}
  /\ owner \in {"free", "joining"}
============================================================================
