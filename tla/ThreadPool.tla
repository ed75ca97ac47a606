----------------------------- MODULE ThreadPool -----------------------------
(* ThreadPool (utils/thread_pool.cpp): workers that wait on cv_, a caller that *)
(* submits, waits for all, stops and restarts, and anybody who pauses and      *)
(* resumes.  A thread that found its condition false holds the mutex until it  *)
(* sleeps; who notifies without the mutex can fall in between.                 *)
EXTENDS Naturals, Sequences

CONSTANTS
  Workers,      \* threads of the pool
  MaxTasks,     \* bound: tasks submitted
  MaxPauses,    \* bound: calls of pause()
  MaxPoolStops  \* bound: calls of stop()
ASSUME PoolAssumption == MaxTasks \in Nat /\ MaxPauses \in Nat /\ MaxPoolStops \in Nat

VARIABLES
  poolRunning, paused,      \* running_, paused_
  tasks, activeCount, job,  \* tasks_ by number, active_count_, the task of each worker
  worker,                   \* where each worker is
  poolCaller, resuming,     \* where the caller is; a resume() has still to notify
  submitted, pauses, poolStops,  \* calls made
  ran, lost                 \* history: tasks finished; notifications somebody missed

flagVars == <<poolRunning, paused>>
workVars == <<tasks, activeCount, job, ran>>
callVars == <<submitted, pauses, poolStops>>
poolVars == <<flagVars, workVars, worker, poolCaller, resuming, callVars, lost>>

PoolInit ==
  /\ poolRunning = TRUE /\ paused = FALSE
  /\ tasks = <<>> /\ activeCount = 0 /\ job = [w \in Workers |-> 0] /\ ran = {}
  /\ worker = [w \in Workers |-> "head"] /\ poolCaller = "idle" /\ resuming = FALSE
  /\ submitted = 0 /\ pauses = 0 /\ poolStops = 0 /\ lost = {}

\* Only a thread about to sleep holds mutex_ from one step to the next.
MutexFree == poolCaller # "toSleep" /\ \A w \in Workers : worker[w] # "toSleep"
\* cv_.notify_all(): who is not yet asleep misses it.
WakeWorkers(kind) ==
  /\ worker' = [w \in Workers |-> IF worker[w] = "asleep" THEN "lock" ELSE worker[w]]
  /\ lost' = IF \E w \in Workers : worker[w] = "toSleep" THEN lost \cup {kind} ELSE lost

-----------------------------------------------------------------------------
Submit ==
  /\ poolCaller = "idle" /\ submitted < MaxTasks /\ MutexFree
  /\ submitted' = submitted + 1 /\ tasks' = Append(tasks, submitted')
  /\ LET sleepers == {w \in Workers : worker[w] = "asleep"} IN
       IF sleepers = {} THEN UNCHANGED worker
       ELSE \E w \in sleepers : worker' = [worker EXCEPT ![w] = "lock"]
  /\ UNCHANGED <<flagVars, activeCount, job, ran, poolCaller, resuming, pauses, poolStops, lost>>

CallerGoes(from, to) ==
  poolCaller = from /\ poolCaller' = to /\ UNCHANGED <<flagVars, workVars, worker, resuming, callVars, lost>>

WaitAll == CallerGoes("idle", "wait")
WaitAllChecks ==
  MutexFree /\ CallerGoes("wait", IF tasks = <<>> /\ activeCount = 0 THEN "idle" ELSE "toSleep")
WaitAllSleeps == CallerGoes("toSleep", "asleep")

Stop ==
  /\ poolCaller = "idle" /\ poolStops < MaxPoolStops /\ poolStops' = poolStops + 1
  /\ poolRunning' = FALSE /\ poolCaller' = "stop"
  /\ UNCHANGED <<paused, workVars, worker, resuming, submitted, pauses, lost>>

StopNotifies ==
  /\ poolCaller = "stop" /\ poolCaller' = "join" /\ WakeWorkers("stop")
  /\ UNCHANGED <<flagVars, workVars, resuming, callVars>>

StopJoins == (\A w \in Workers : worker[w] = "ended") /\ CallerGoes("join", "idle")

\* start() makes new threads for those that were joined.
Restart ==
  /\ poolCaller = "idle" /\ ~poolRunning /\ poolRunning' = TRUE
  /\ worker' = [w \in Workers |-> "head"]
  /\ UNCHANGED <<paused, workVars, poolCaller, resuming, callVars, lost>>

Pause ==
  /\ pauses < MaxPauses /\ ~resuming /\ pauses' = pauses + 1 /\ paused' = TRUE
  /\ UNCHANGED <<poolRunning, workVars, worker, poolCaller, resuming, submitted, poolStops, lost>>

Resume ==
  /\ paused /\ paused' = FALSE /\ resuming' = TRUE
  /\ UNCHANGED <<poolRunning, workVars, worker, poolCaller, callVars, lost>>

ResumeNotifies ==
  /\ resuming /\ resuming' = FALSE /\ WakeWorkers("resume")
  /\ UNCHANGED <<flagVars, workVars, poolCaller, callVars>>

-----------------------------------------------------------------------------
(* worker_loop.                                                                *)
WorkerGoes(w, from, to) == worker[w] = from /\ worker' = [worker EXCEPT ![w] = to]

WorkerHead(w) ==
  /\ WorkerGoes(w, "head", IF poolRunning THEN "lock" ELSE "ended")
  /\ UNCHANGED <<flagVars, workVars, poolCaller, resuming, callVars, lost>>

WorkerEnds(w) ==
  /\ MutexFree /\ ~poolRunning /\ WorkerGoes(w, "lock", "ended")
  /\ UNCHANGED <<flagVars, workVars, poolCaller, resuming, callVars, lost>>

WorkerTakes(w) ==
  /\ MutexFree /\ poolRunning /\ ~paused /\ tasks # <<>> /\ WorkerGoes(w, "lock", "run")
  /\ job' = [job EXCEPT ![w] = Head(tasks)] /\ tasks' = Tail(tasks) /\ activeCount' = activeCount + 1
  /\ UNCHANGED <<flagVars, ran, poolCaller, resuming, callVars, lost>>

WorkerWaits(w) ==
  /\ \/ MutexFree /\ poolRunning /\ (paused \/ tasks = <<>>) /\ WorkerGoes(w, "lock", "toSleep")
     \/ WorkerGoes(w, "toSleep", "asleep")
  /\ UNCHANGED <<flagVars, workVars, poolCaller, resuming, callVars, lost>>

\* The task ends; an exception stays in its future.
WorkerRuns(w) ==
  /\ WorkerGoes(w, "run", "notify")
  /\ activeCount' = activeCount - 1 /\ ran' = ran \cup {job[w]} /\ job' = [job EXCEPT ![w] = 0]
  /\ UNCHANGED <<flagVars, tasks, poolCaller, resuming, callVars, lost>>

\* Mutant: done_cv_ is notified only by the last worker of an empty queue, as
\* counted before this one counts itself out.
WorkerNotifiesLast(w) ==
  /\ WorkerGoes(w, "notify", "head")
  /\ poolCaller' = IF poolCaller = "asleep" /\ tasks = <<>> /\ activeCount = 1 THEN "wait" ELSE poolCaller
  /\ UNCHANGED <<flagVars, workVars, resuming, callVars, lost>>

WorkerNotifies(w) ==
  /\ WorkerGoes(w, "notify", "head")
  /\ poolCaller' = IF poolCaller = "asleep" THEN "wait" ELSE poolCaller
  /\ lost' = IF poolCaller = "toSleep" THEN lost \cup {"done"} ELSE lost
  /\ UNCHANGED <<flagVars, workVars, resuming, callVars>>

WorkerStep(w) ==
  \/ WorkerHead(w) \/ WorkerEnds(w) \/ WorkerTakes(w) \/ WorkerWaits(w)
  \/ WorkerRuns(w) \/ WorkerNotifies(w)
CallerStep == WaitAllChecks \/ WaitAllSleeps \/ StopNotifies \/ StopJoins

PoolNext ==
  \/ \E w \in Workers : WorkerStep(w)
  \/ CallerStep \/ ResumeNotifies
  \/ Submit \/ WaitAll \/ Stop \/ Restart \/ Pause \/ Resume

\* Threads run on; tasks end.  Nobody owes a resume().
PoolFairness ==
  /\ \A w \in Workers : WF_poolVars(WorkerStep(w))
  /\ WF_poolVars(CallerStep) /\ WF_poolVars(ResumeNotifies)

PoolSpec == PoolInit /\ [][PoolNext]_poolVars /\ PoolFairness
-----------------------------------------------------------------------------
\* wait_all() on a running pool and stop() return and every task is run, through
\* every interleaving of tasks, pauses and restarts, unless the pool is stopped or
\* paused or a notification, sent without the mutex, was missed by a thread about
\* to sleep.
PoolReturns ==
  /\ poolRunning /\ poolCaller = "wait" ~> poolCaller = "idle" \/ paused \/ lost # {}
  /\ poolCaller = "join" ~> poolCaller = "idle" \/ lost # {}
  /\ \A n \in 1..MaxTasks : submitted >= n ~> n \in ran \/ ~poolRunning \/ paused \/ lost # {}
============================================================================
