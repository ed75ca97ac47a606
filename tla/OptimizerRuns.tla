---------------------------- MODULE OptimizerRuns ----------------------------
(* StrategyOptimizer (engine/strategy_optimizer.hpp, .cpp): a backtest per       *)
(* combination of parameters, each in a thread of its own; the caller's thread   *)
(* starts them, takes what is ready and keeps the best.                          *)
EXTENDS Integers, SequencesExt

CONSTANTS
  ParamValues,   \* parameter name -> set of values
  NumThreads,    \* num_threads
  MetricValues,  \* what a backtest's metric may be
  MaxOptimizations  \* bound: calls of optimize()
ASSUME OptimizerAssumption ==
  /\ \A name \in DOMAIN ParamValues : IsFiniteSet(ParamValues[name])
  /\ NumThreads \in Nat \ {0} /\ MetricValues \subseteq Int /\ MaxOptimizations \in Nat

VARIABLES
  optimizations,  \* calls of optimize() so far
  combinations,   \* what is left to start, in order
  futures,        \* the futures the caller holds, in order
  scan,           \* place of the caller's loop over them; 0 while it starts the next
  waiting,        \* all are started: the caller waits for each future
  task,           \* combination -> "none", "running", "counted" or "ready"
  metric,         \* combination -> the metric of its backtest
  currentProgress,  \* current_progress_
  result,         \* all_results, best_metric, best_params
  reported        \* history: combinations whose progress was reported

optimizerVars ==
  <<optimizations, combinations, futures, scan, waiting, task, metric, currentProgress, result, reported>>

\* Mutant: an expansion forgets what there was.
ExpandAnew(name, done) == {[n \in {name} |-> v] : v \in ParamValues[name]}

NoParams == << >>
\* generate_param_combinations: each parameter expands what there is by its values.
\* The map gives the parameters in any order, and so the combinations.
Expand(name, done) ==
  {[n \in DOMAIN c \cup {name} |-> IF n = name THEN v ELSE c[n]] : c \in done, v \in ParamValues[name]}

Combinations == FoldSet(Expand, {NoParams}, DOMAIN ParamValues)

NoResult == [all |-> << >>, bestMetric |-> 0, bestParams |-> NoParams]
OptimizerInit ==
  /\ optimizations = 0 /\ combinations = << >> /\ futures = << >> /\ scan = 0 /\ waiting = TRUE
  /\ task = [c \in Combinations |-> "none"]
  /\ metric \in [Combinations -> MetricValues]
  /\ currentProgress = 0 /\ result = NoResult /\ reported = {}

Returned == combinations = << >> /\ futures = << >> /\ waiting

\* optimize() is called: progress goes on from where it was.
Optimize ==
  /\ Returned /\ optimizations < MaxOptimizations /\ optimizations' = optimizations + 1
  /\ combinations' \in SetToSeqs(Combinations)
  /\ waiting' = FALSE /\ task' = [c \in Combinations |-> "none"] /\ result' = NoResult /\ reported' = {}
  /\ UNCHANGED <<futures, scan, metric, currentProgress>>

\* The next thread.  With as many futures as num_threads the caller looks at each
\* once, and starts one more whether or not one was ready.
LaunchNext ==
  /\ combinations # << >> /\ scan = 0
  /\ combinations' = Tail(combinations)
  /\ futures' = Append(futures, Head(combinations))
  /\ task' = [task EXCEPT ![Head(combinations)] = "running"]
  /\ scan' = IF Len(futures') >= NumThreads THEN 1 ELSE 0
  /\ UNCHANGED <<optimizations, waiting, metric, currentProgress, result, reported>>

AllLaunched ==
  /\ combinations = << >> /\ scan = 0 /\ ~waiting /\ waiting' = TRUE
  /\ UNCHANGED <<optimizations, combinations, futures, scan, task, metric, currentProgress, result, reported>>

\* A backtest ends: progress and its callback are under progress_mutex_, the future
\* becomes ready after it.
ReportProgress(c) ==
  /\ task[c] = "running" /\ task' = [task EXCEPT ![c] = "counted"]
  /\ currentProgress' = currentProgress + 1 /\ reported' = reported \cup {c}
  /\ UNCHANGED <<optimizations, combinations, futures, scan, waiting, metric, result>>
BecomeReady(c) ==
  /\ task[c] = "counted" /\ task' = [task EXCEPT ![c] = "ready"]
  /\ UNCHANGED <<optimizations, combinations, futures, scan, waiting, metric, currentProgress, result, reported>>

\* Mutant: what an earlier scan took is compared with nothing.
WithResultLast(c) ==
  [all |-> Append(result.all, c), bestMetric |-> metric[c],
   bestParams |-> IF metric[c] > 0 THEN c ELSE result.bestParams]

\* The best starts at 0: a metric that is not positive is never the best.
WithResult(c) ==
  LET better == metric[c] > result.bestMetric IN
  [all |-> Append(result.all, c),
   bestMetric |-> IF better THEN metric[c] ELSE result.bestMetric,
   bestParams |-> IF better THEN c ELSE result.bestParams]

\* One future of the scan: taken when ready.  A taken future is erased.
TakeIfReady ==
  /\ scan \in 1..Len(futures)
  /\ IF task[futures[scan]] = "ready"
     THEN result' = WithResult(futures[scan]) /\ futures' = RemoveAt(futures, scan) /\ scan' = scan
     ELSE scan' = scan + 1 /\ UNCHANGED <<result, futures>>
  /\ UNCHANGED <<optimizations, combinations, waiting, task, metric, currentProgress, reported>>
ScanDone ==
  /\ scan > Len(futures) /\ scan # 0 /\ scan' = 0
  /\ UNCHANGED <<optimizations, combinations, futures, waiting, task, metric, currentProgress, result, reported>>

\* The last loop blocks in get() of each future in turn.
GetNext ==
  /\ waiting /\ futures # << >> /\ task[Head(futures)] = "ready"
  /\ result' = WithResult(Head(futures)) /\ futures' = Tail(futures)
  /\ UNCHANGED <<optimizations, combinations, scan, waiting, task, metric, currentProgress, reported>>

OptimizerNext ==
  \/ Optimize \/ LaunchNext \/ AllLaunched \/ TakeIfReady \/ ScanDone \/ GetNext
  \/ \E c \in Combinations : ReportProgress(c) \/ BecomeReady(c)
-----------------------------------------------------------------------------
\* One value of its own for each parameter.
AllCombinations == {c \in [DOMAIN ParamValues -> UNION Range(ParamValues)] :
              \A name \in DOMAIN ParamValues : c[name] \in ParamValues[name]}
\* However the threads end, optimize() returns every combination exactly once, the
\* best of those with a positive metric and none when there is no positive one; by
\* then each was reported, and progress is the number of backtests of all calls.
OptimizerKeepsBest ==
  /\ currentProgress = Cardinality(reported) + (optimizations - 1) * Cardinality(Combinations)
       \/ optimizations = 0
  /\ Returned /\ optimizations > 0 =>
       /\ Range(result.all) = AllCombinations /\ Len(result.all) = Cardinality(AllCombinations) /\ reported = AllCombinations
       /\ IF \A c \in AllCombinations : metric[c] <= 0 THEN result.bestParams = NoParams /\ result.bestMetric = 0
          ELSE /\ result.bestParams \in AllCombinations /\ metric[result.bestParams] = result.bestMetric
               /\ \A c \in AllCombinations : metric[c] <= result.bestMetric
=============================================================================
