---------------------------- MODULE BarGenerator ----------------------------
(* BarGenerator (data/bar_generator.cpp): one generator makes bars of ticks,   *)
(* and its callback feeds them to a second one that makes one bar of every     *)
(* WindowSize.  A tick may be late.  Starts says where the bars of the         *)
(* interval start and BarLength what interval_to_milliseconds() says: for      *)
(* months the two disagree, for every other interval they do not.              *)
EXTENDS Integers, Sequences, SequencesExt, FiniteSetsExt

CONSTANTS
  TickTimes,    \* times of ticks
  TickPrices,   \* last prices
  Starts,       \* sets of bar starts, one of which is the interval's
  BarLength,    \* the length of a bar by interval_to_milliseconds()
  WindowSize,   \* window_size_ of the second generator
  MaxTicks      \* bound: ticks
ASSUME BarAssumption ==
  /\ TickTimes \subseteq Nat /\ TickPrices \subseteq Nat /\ BarLength \in Nat \ {0}
  /\ \A s \in Starts : 0 \in s /\ s \subseteq Nat
  /\ WindowSize \in Nat \ {0} /\ MaxTicks \in Nat

VARIABLES
  starts,               \* where the bars of the interval start
  hasData, currentBar,  \* has_data_, current_bar_
  barBuffer, barCount,  \* bar_buffer_ and bar_count_ of the second generator
  emitted,              \* history: the bars of the second generator
  tickLog               \* history: the ticks since the last reset

barVars == <<starts, hasData, currentBar, barBuffer, barCount, emitted, tickLog>>

NoCurrentBar == [start |-> 0, open |-> 0, high |-> 0, low |-> 0, close |-> 0, volume |-> 0]

BarInit ==
  /\ starts \in Starts
  /\ hasData = FALSE /\ currentBar = NoCurrentBar
  /\ barBuffer = <<>> /\ barCount = 0 /\ emitted = <<>> /\ tickLog = <<>>

BarStart(time) == Max({s \in starts : s <= time})
HighOf(bs) == Max({b.high : b \in bs})
LowOf(bs) == Min({b.low : b \in bs})
VolumeOf(buffer) == FoldLeft(LAMBDA v, b : v + b.volume, 0, buffer)

NewBar(tick) ==
  [start |-> BarStart(tick.time), open |-> tick.price, high |-> tick.price,
   low |-> tick.price, close |-> tick.price, volume |-> 1]

ShouldGenerateNewBar(tick) == tick.time >= currentBar.start + BarLength

UpdateCurrentBar(tick) ==
  [currentBar EXCEPT !.high = Max({@, tick.price}), !.low = Min({@, tick.price}),
                     !.close = tick.price, !.volume = @ + 1]

Synthesized(buffer) ==
  [start |-> Head(buffer).start, open |-> Head(buffer).open, high |-> HighOf(Range(buffer)),
   low |-> LowOf(Range(buffer)), close |-> Last(buffer).close,
   volume |-> VolumeOf(buffer)]

\* Mutant: the window is not emptied.
OnBarKeepsWindow(bar) ==
  /\ barBuffer' = Append(barBuffer, bar) /\ barCount' = barCount + 1
  /\ emitted' = IF Len(barBuffer') >= WindowSize THEN Append(emitted, Synthesized(barBuffer')) ELSE emitted

OnBar(bar) ==
  LET buffer == Append(barBuffer, bar) IN
  /\ barCount' = barCount + 1
  /\ IF Len(buffer) >= WindowSize
     THEN emitted' = Append(emitted, Synthesized(buffer)) /\ barBuffer' = <<>>
     ELSE barBuffer' = buffer /\ UNCHANGED emitted

OnTick(tick) ==
  /\ Len(tickLog) < MaxTicks /\ tickLog' = Append(tickLog, tick)
  /\ hasData' = TRUE
  /\ IF hasData /\ ShouldGenerateNewBar(tick) THEN OnBar(currentBar)
     ELSE UNCHANGED <<barBuffer, barCount, emitted>>
  /\ currentBar' = IF hasData /\ ~ShouldGenerateNewBar(tick) THEN UpdateCurrentBar(tick) ELSE NewBar(tick)
  /\ UNCHANGED starts

\* Both generators; the bar left in current_bar_ is never read again.
Reset ==
  /\ tickLog # <<>> /\ Len(tickLog) < MaxTicks
  /\ hasData' = FALSE /\ currentBar' = NoCurrentBar /\ barBuffer' = <<>> /\ barCount' = 0
  /\ emitted' = <<>> /\ tickLog' = <<>> /\ UNCHANGED starts

BarNext == Reset \/ \E time \in TickTimes, price \in TickPrices : OnTick([time |-> time, price |-> price])
-----------------------------------------------------------------------------
(* What the bars should be, from the ticks alone.                              *)

\* A tick belongs to the latest bar any tick up to it has reached: a late tick
\* counts for the bar that is open when it comes.
BarOf(i) == BarStart(Max({tickLog[j].time : j \in 1..i}))
\* How many bars the ticks up to one have reached, and the ticks of some of them.
BarsUpTo(i) == Cardinality({BarOf(j) : j \in 1..i})
TicksOfBars(from, to) == {i \in DOMAIN tickLog : BarsUpTo(i) \in from .. to}
BarOfTicks(is) ==
  [start |-> BarOf(Min(is)), open |-> tickLog[Min(is)].price,
   high |-> Max({tickLog[i].price : i \in is}), low |-> Min({tickLog[i].price : i \in is}),
   close |-> tickLog[Max(is)].price, volume |-> Cardinality(is)]
\* The ticks' bars are as long as the code takes them to be.  A month of 31 days is
\* not, nor a day on which the local clock is set, which mktime() and gmtime() mix;
\* an interval of TICK has no length and the division by it is undefined.
Regular == \A i \in DOMAIN tickLog : \A t \in TickTimes :
             BarStart(t) > BarStart(tickLog[i].time) <=> t >= BarStart(tickLog[i].time) + BarLength

\* Through both generators no tick is lost, counted twice or put into the wrong
\* bar, whatever bars the market leaves out and however late a tick is: every bar
\* emitted is the bar of the ticks of its window, in a Regular calendar.
BarsMatchTicks ==
  Regular =>
    emitted = [w \in 1 .. (IF tickLog = <<>> THEN 0 ELSE (BarsUpTo(Len(tickLog)) - 1) \div WindowSize) |->
                 BarOfTicks(TicksOfBars(WindowSize * (w - 1) + 1, WindowSize * w))]
=============================================================================
