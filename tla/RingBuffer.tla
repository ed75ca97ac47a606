------------------------------ MODULE RingBuffer ------------------------------
(* RingBuffer and OHLCVRingBuffer (data/ring_buffer.hpp, ring_buffer.cpp).  A  *)
(* bar is a value: its six arrays move together.  Readers get the bars in one  *)
(* array, oldest first, that is copied when it is read after an update.        *)
EXTENDS Naturals, Sequences

CONSTANTS
  Capacity,     \* capacity_
  BarValues,    \* bars
  MaxUpdates    \* bound: updates
ASSUME RingAssumption == Capacity \in Nat \ {0} /\ BarValues \subseteq Nat /\ MaxUpdates \in Nat

VARIABLES
  ohlcv,            \* the arrays with head_ and count_
  ready,            \* inited_
  taData, taValid,  \* the arrays readers get, ta_data_valid_
  updates           \* history: every bar, in order

ringVars == <<ohlcv, ready, taData, taValid, updates>>

Indices == 0 .. Capacity - 1
EmptyRing == [slots |-> [i \in Indices |-> 0], head |-> 0, count |-> 0]

Push(r, value) ==
  [slots |-> [r.slots EXCEPT ![r.head] = value],
   head |-> (r.head + 1) % Capacity,
   count |-> IF r.count < Capacity THEN r.count + 1 ELSE r.count]

\* What is in the slots stays there.
Clear(r) == [r EXCEPT !.head = 0, !.count = 0]

\* at(), latest() as at(0), operator[] and to_array().
FromLatest(r, offset) == r.slots[(r.head + Capacity - 1 - offset) % Capacity]
FromOldest(r, index) == r.slots[(((r.head + Capacity - r.count) % Capacity) + index) % Capacity]
ToArray(r) == [i \in 1 .. r.count |-> FromOldest(r, i - 1)]

RingInit ==
  /\ ohlcv = EmptyRing /\ ready = FALSE
  /\ taData = [i \in 1 .. Capacity |-> 0] /\ taValid = FALSE /\ updates = <<>>

\* Mutant: the copy stays valid.
UpdateKeepsCopy(bar) ==
  /\ Len(updates) < MaxUpdates /\ updates' = Append(updates, bar)
  /\ ohlcv' = Push(ohlcv, bar) /\ ready' = (ready \/ ohlcv'.count = Capacity)
  /\ UNCHANGED <<taData, taValid>>

Update(bar) ==
  /\ Len(updates) < MaxUpdates /\ updates' = Append(updates, bar)
  /\ ohlcv' = Push(ohlcv, bar) /\ ready' = (ready \/ ohlcv'.count = Capacity)
  /\ taValid' = FALSE /\ UNCHANGED taData

\* Readers get nothing before the buffer is full, so head_ is the oldest bar.
UpdateTaData ==
  /\ ready /\ ~taValid /\ taValid' = TRUE
  /\ taData' = [i \in 1 .. Capacity |-> ohlcv.slots[(ohlcv.head + i - 1) % Capacity]]
  /\ UNCHANGED <<ohlcv, ready, updates>>

RingNext == UpdateTaData \/ \E bar \in BarValues : Update(bar)
-----------------------------------------------------------------------------
\* However often the arrays have wrapped and whenever they were read, all four ways
\* to read see the newest bars in the order they came, a reader's array is never
\* an old copy, and it is to be had as soon as the buffer has been full once.
BuffersAgree ==
  LET kept == IF Len(updates) < Capacity THEN Len(updates) ELSE Capacity
      newest == [i \in 1 .. kept |-> updates[Len(updates) - kept + i]] IN
  /\ ToArray(ohlcv) = newest
  /\ \A offset \in 0 .. kept - 1 : FromLatest(ohlcv, offset) = newest[kept - offset]
  /\ taValid => taData = newest
  /\ ready <=> kept = Capacity
=============================================================================
