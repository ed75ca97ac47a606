----------------------------- MODULE ComponentsProofs -----------------------------
(* The components that stand alone: the ring buffer of bars, the database, the  *)
(* maps of the strategy manager, the simulated gateways and the OMS records,    *)
(* and the bars of ticks.                                                       *)
EXTENDS MCComponents, Sums

------------------------------------------------------------------------------
(* The ring buffer *)

Kept == IF Len(updates) < Capacity THEN Len(updates) ELSE Capacity
IsRing(r) ==
  /\ r = [slots |-> r.slots, head |-> r.head, count |-> r.count]
  /\ r.slots \in [Indices -> Nat] /\ r.head \in Indices /\ r.count \in 0 .. Capacity
HoldsNewest ==
  \A offset \in Nat : offset < Kept => FromLatest(ohlcv, offset) = updates[Len(updates) - offset]
CopyIsNewest == taValid => taData = [i \in 1 .. Kept |-> updates[Len(updates) - Kept + i]]
RingInv ==
  /\ updates \in Seq(Nat) /\ IsRing(ohlcv) /\ ohlcv.count = Kept
  /\ HoldsNewest
  /\ ready <=> Kept = Capacity
  /\ taValid \in BOOLEAN /\ CopyIsNewest

\* An index that went past the end of the slots at most once starts again.
LEMMA Wraps ==
  ASSUME NEW x \in 0 .. 2 * Capacity - 1
  PROVE  x % Capacity = IF x < Capacity THEN x ELSE x - Capacity
<1>0. Capacity \in Nat /\ Capacity > 0
  BY RingAssumption
<1>1. CASE x < Capacity
  BY <1>0, <1>1, SMT
<1>2. CASE x >= Capacity
  <2>1. x % Capacity \in 0 .. (Capacity - 1)
    BY <1>0
  <2>2. x = Capacity * (x \div Capacity) + (x % Capacity)
    BY <1>0, SMTT(30)
  <2>3. x \div Capacity \in Nat
    BY <1>0, SMTT(30)
  <2>4. x % Capacity = x - Capacity
    BY <1>0, <1>2, <2>1, <2>2, <2>3, SMTT(30)
  <2> QED
    BY <1>0, <2>4, <1>2
<1> QED
  BY <1>0, <1>1, <1>2

\* Which slot at() and operator[] read.
LEMMA SlotFromLatest ==
  ASSUME NEW r, IsRing(r), NEW offset \in 0 .. Capacity - 1
  PROVE  FromLatest(r, offset)
           = r.slots[IF r.head > offset THEN r.head - 1 - offset ELSE r.head + Capacity - 1 - offset]
<1>0. Capacity \in Nat /\ Capacity > 0
  BY RingAssumption
<1>1. r.head \in 0 .. Capacity - 1
  BY DEF IsRing, Indices
<1>2. r.head + Capacity - 1 - offset \in 0 .. 2 * Capacity - 1
  BY <1>0, <1>1
<1>3. (r.head + Capacity - 1 - offset) % Capacity
        = IF r.head > offset THEN r.head - 1 - offset ELSE r.head + Capacity - 1 - offset
  BY <1>0, <1>1, <1>2, Wraps
<1> QED
  BY <1>3 DEF FromLatest

\* at() counts from the newest bar what operator[] counts from the oldest.
LEMMA OldestIsLatest ==
  ASSUME NEW r, IsRing(r), NEW index \in 0 .. r.count - 1
  PROVE  FromOldest(r, index) = FromLatest(r, r.count - 1 - index)
<1>0. Capacity \in Nat /\ Capacity > 0
  BY RingAssumption
<1>1. r.head \in 0 .. Capacity - 1 /\ r.count \in 0 .. Capacity
  BY DEF IsRing, Indices
<1> DEFINE oldest == (r.head + Capacity - r.count) % Capacity
<1>2. oldest = IF r.head < r.count THEN r.head + Capacity - r.count ELSE r.head - r.count
  <2>1. r.head + Capacity - r.count \in 0 .. 2 * Capacity - 1
    BY <1>0, <1>1
  <2> QED
    BY <1>0, <1>1, <2>1, Wraps
<1> HIDE DEF oldest
<1>3. oldest + index \in 0 .. 2 * Capacity - 1
  BY <1>0, <1>1, <1>2
<1>4. (oldest + index) % Capacity = IF oldest + index < Capacity THEN oldest + index ELSE oldest + index - Capacity
  <2>0. oldest \in Nat /\ index \in Nat
    BY <1>0, <1>1, <1>2
  <2>1. \A x \in 0 .. 2 * Capacity - 1 : x % Capacity = IF x < Capacity THEN x ELSE x - Capacity
    BY Wraps
  <2> QED
    BY <1>0, <1>3, <2>0, <2>1
<1>5. r.count - 1 - index \in 0 .. Capacity - 1
  BY <1>0, <1>1
<1>6. FromLatest(r, r.count - 1 - index) = r.slots[(oldest + index) % Capacity]
  BY <1>0, <1>1, <1>2, <1>4, <1>5, SlotFromLatest
<1> QED
  BY <1>6 DEF FromOldest, oldest

\* A push moves every bar but the one it overwrites one place back.
LEMMA PushShifts ==
  ASSUME NEW r, IsRing(r), NEW value \in Nat
  PROVE  /\ IsRing(Push(r, value))
         /\ FromLatest(Push(r, value), 0) = value
         /\ \A offset \in 1 .. Capacity - 1 :
              FromLatest(Push(r, value), offset) = FromLatest(r, offset - 1)
<1>0. Capacity \in Nat /\ Capacity > 0
  BY RingAssumption
<1> DEFINE p == Push(r, value)
<1>1. /\ p.slots = [r.slots EXCEPT ![r.head] = value]
      /\ p.head = (r.head + 1) % Capacity
      /\ p.count = IF r.count < Capacity THEN r.count + 1 ELSE r.count
      /\ p = [slots |-> p.slots, head |-> p.head, count |-> p.count]
  BY DEF Push
<1>2. r.head \in 0 .. Capacity - 1 /\ r.count \in 0 .. Capacity
      /\ r.slots \in [Indices -> Nat] /\ r.head \in Indices
  BY DEF IsRing, Indices
<1>3. p.head = IF r.head + 1 = Capacity THEN 0 ELSE r.head + 1
  <2>1. r.head + 1 \in 0 .. 2 * Capacity - 1
    BY <1>0, <1>2
  <2> QED
    BY <1>0, <1>1, <1>2, <2>1, Wraps
<1> HIDE DEF p
<1>4. IsRing(p)
  <2>1. p.slots \in [Indices -> Nat]
    BY <1>1, <1>2
  <2>2. p.head \in Indices
    BY <1>0, <1>2, <1>3 DEF Indices
  <2>3. p.count \in 0 .. Capacity
    BY <1>0, <1>1, <1>2
  <2> QED
    BY <1>1, <2>1, <2>2, <2>3 DEF IsRing
<1>5. FromLatest(p, 0) = value
  <2>1. FromLatest(p, 0) = p.slots[r.head]
    BY <1>0, <1>2, <1>3, <1>4, SlotFromLatest
  <2> QED
    BY <1>1, <1>2, <2>1
<1>6. ASSUME NEW offset \in 1 .. Capacity - 1
      PROVE  FromLatest(p, offset) = FromLatest(r, offset - 1)
  <2> DEFINE place == IF r.head > offset - 1 THEN r.head - offset ELSE r.head + Capacity - offset
  <2>1. FromLatest(r, offset - 1) = r.slots[place]
    BY <1>0, <1>2, SlotFromLatest
  <2>2. FromLatest(p, offset) = p.slots[place]
    BY <1>0, <1>2, <1>3, <1>4, SlotFromLatest
  <2>3. place \in Indices /\ place # r.head
    BY <1>0, <1>2 DEF Indices
  <2> QED
    BY <1>1, <1>2, <2>1, <2>2, <2>3
<1> QED
  BY <1>4, <1>5, <1>6 DEF p

LEMMA RingStarts == RingInit => RingInv
<1> SUFFICES ASSUME RingInit PROVE RingInv
  OBVIOUS
<1>0. Capacity \in Nat /\ Capacity > 0
  BY RingAssumption
<1>1. updates = <<>> /\ Len(updates) = 0 /\ Kept = 0
  BY <1>0 DEF RingInit, Kept
<1>2. IsRing(ohlcv) /\ ohlcv.count = 0
  BY <1>0 DEF RingInit, EmptyRing, IsRing, Indices
<1>3. HoldsNewest
  <2>1. \A offset \in Nat : ~(offset < Kept)
    BY <1>1
  <2> QED
    BY <2>1 DEF HoldsNewest
<1>6. CopyIsNewest /\ taValid \in BOOLEAN
  BY DEF CopyIsNewest, RingInit
<1>5. ready <=> Kept = Capacity
  BY <1>0, <1>1 DEF RingInit
<1>4. updates \in Seq(Nat)
  BY <1>1
<1> QED
  BY <1>1, <1>2, <1>3, <1>4, <1>5, <1>6 DEF RingInv

LEMMA UpdateKeeps ==
  ASSUME RingInv, NEW bar \in BarValues, Update(bar)
  PROVE  RingInv'
<1>0. Capacity \in Nat /\ Capacity > 0 /\ bar \in Nat
  BY RingAssumption
<1>1. /\ updates \in Seq(Nat) /\ IsRing(ohlcv) /\ ohlcv.count = Kept
      /\ HoldsNewest /\ (ready <=> Kept = Capacity)
  BY DEF RingInv
<1>2. /\ updates' = Append(updates, bar) /\ ohlcv' = Push(ohlcv, bar)
      /\ ready' = (ready \/ ohlcv'.count = Capacity) /\ taValid' = FALSE
  BY DEF Update
<1>3. updates' \in Seq(Nat) /\ Len(updates') = Len(updates) + 1 /\ Len(updates) \in Nat
  BY <1>0, <1>1, <1>2
<1>4. /\ IsRing(ohlcv') /\ FromLatest(ohlcv', 0) = bar
      /\ \A offset \in 1 .. Capacity - 1 : FromLatest(ohlcv', offset) = FromLatest(ohlcv, offset - 1)
  BY <1>0, <1>1, <1>2, PushShifts
<1>5. Kept' = IF Kept < Capacity THEN Kept + 1 ELSE Kept
  BY <1>0, <1>3 DEF Kept
<1>6. ohlcv'.count = Kept'
  BY <1>1, <1>2, <1>5 DEF Push
<1>7. HoldsNewest'
  <2> SUFFICES ASSUME NEW offset \in Nat, offset < Kept'
               PROVE  FromLatest(ohlcv', offset) = updates'[Len(updates') - offset]
    BY DEF HoldsNewest
  <2>0. Kept \in 0 .. Capacity /\ Kept <= Len(updates) /\ Kept' <= Capacity /\ Kept' <= Kept + 1
    BY <1>0, <1>3, <1>5 DEF Kept
  <2>a. Kept' \in Int /\ Kept \in Int
    BY <1>0, <1>3, <1>5 DEF Kept
  <2>1. CASE offset = 0
    BY <1>1, <1>2, <1>3, <1>4, <2>1
  <2>2. CASE offset > 0
    <3>1. offset \in 1 .. Capacity - 1 /\ offset - 1 \in Nat /\ offset - 1 < Kept
      BY <1>0, <2>0, <2>a, <2>2
    <3>2. FromLatest(ohlcv', offset) = updates[Len(updates) - (offset - 1)]
      BY <1>1, <1>4, <3>1 DEF HoldsNewest
    <3>3. Len(updates) - (offset - 1) \in 1 .. Len(updates)
      BY <1>3, <2>0, <3>1
    <3>4. updates'[Len(updates) - (offset - 1)] = updates[Len(updates) - (offset - 1)]
      BY <1>1, <1>2, <3>3
    <3> QED
      BY <1>3, <3>1, <3>2, <3>4
  <2> QED
    BY <2>1, <2>2
<1>8. ready' <=> Kept' = Capacity
  <2>1. Kept = Capacity => Kept' = Capacity
    BY <1>0, <1>5
  <2> QED
    BY <1>1, <1>2, <1>6, <2>1, Zenon
<1> QED
  BY <1>2, <1>3, <1>4, <1>6, <1>7, <1>8 DEF RingInv, CopyIsNewest

LEMMA CopyKeeps ==
  ASSUME RingInv, UpdateTaData
  PROVE  RingInv'
<1>0. Capacity \in Nat /\ Capacity > 0
  BY RingAssumption
<1>1. /\ updates \in Seq(Nat) /\ IsRing(ohlcv) /\ ohlcv.count = Kept /\ HoldsNewest /\ Kept = Capacity
  BY DEF RingInv, UpdateTaData
<1>2. /\ UNCHANGED <<ohlcv, ready, updates>> /\ taValid' = TRUE
      /\ taData' = [i \in 1 .. Capacity |-> ohlcv.slots[(ohlcv.head + i - 1) % Capacity]]
  BY DEF UpdateTaData
<1>3. ASSUME NEW i \in 1 .. Capacity
      PROVE  ohlcv.slots[(ohlcv.head + i - 1) % Capacity] = updates[Len(updates) - Capacity + i]
  <2>1. FromOldest(ohlcv, i - 1) = FromLatest(ohlcv, Capacity - i)
    BY <1>0, <1>1, OldestIsLatest
  <2>2. ohlcv.head \in 0 .. Capacity - 1
    BY <1>1 DEF IsRing, Indices
  <2>3. (ohlcv.head + Capacity - Capacity) % Capacity = ohlcv.head
    BY <1>0, <2>2, Wraps
  <2>4. FromOldest(ohlcv, i - 1) = ohlcv.slots[(ohlcv.head + i - 1) % Capacity]
    <3>1. ohlcv.head + (i - 1) = ohlcv.head + i - 1
      BY <1>0, <2>2
    <3> QED
      BY <1>1, <2>3, <3>1 DEF FromOldest
  <2>5. Capacity - i \in Nat /\ Capacity - i < Kept
    BY <1>0, <1>1
  <2>6. FromLatest(ohlcv, Capacity - i) = updates[Len(updates) - (Capacity - i)]
    BY <1>1, <2>5 DEF HoldsNewest
  <2>7. Len(updates) - (Capacity - i) = Len(updates) - Capacity + i
    BY <1>0, <1>1
  <2> QED
    BY <2>1, <2>4, <2>6, <2>7
<1>4. Kept' = Kept
  BY <1>2 DEF Kept
<1>5. taData' = [i \in 1 .. Capacity |-> updates[Len(updates) - Capacity + i]]
  BY <1>2, <1>3
<1>6. CopyIsNewest'
  BY <1>1, <1>2, <1>4, <1>5 DEF CopyIsNewest
<1>7. HoldsNewest'
  BY <1>1, <1>2, <1>4 DEF HoldsNewest
<1> QED
  BY <1>1, <1>2, <1>4, <1>6, <1>7 DEF RingInv

LEMMA RingAgrees == RingInv => BuffersAgree
<1> SUFFICES ASSUME RingInv PROVE BuffersAgree
  OBVIOUS
<1>0. Capacity \in Nat /\ Capacity > 0
  BY RingAssumption
<1>1. /\ updates \in Seq(Nat) /\ IsRing(ohlcv) /\ ohlcv.count = Kept /\ HoldsNewest
      /\ (ready <=> Kept = Capacity) /\ CopyIsNewest
  BY DEF RingInv
<1> DEFINE tail == [i \in 1 .. Kept |-> updates[Len(updates) - Kept + i]]
<1>2. Kept \in 0 .. Capacity /\ Len(updates) \in Nat /\ Kept <= Len(updates)
  BY <1>0, <1>1 DEF Kept
<1>3. ASSUME NEW offset \in 0 .. Kept - 1
      PROVE  FromLatest(ohlcv, offset) = tail[Kept - offset]
  <2>1. FromLatest(ohlcv, offset) = updates[Len(updates) - offset]
    BY <1>1, <1>2 DEF HoldsNewest
  <2>2. Kept - offset \in 1 .. Kept /\ Len(updates) - Kept + (Kept - offset) = Len(updates) - offset
    BY <1>2
  <2> QED
    BY <2>1, <2>2
<1>4. ASSUME NEW i \in 1 .. Kept
      PROVE  FromOldest(ohlcv, i - 1) = tail[i]
  <2>1. i - 1 \in 0 .. ohlcv.count - 1
    BY <1>1, <1>2
  <2>2. FromOldest(ohlcv, i - 1) = FromLatest(ohlcv, Kept - 1 - (i - 1))
    BY <1>1, <2>1, OldestIsLatest
  <2>3. Kept - 1 - (i - 1) = Kept - i /\ Kept - i \in 0 .. Kept - 1 /\ Kept - (Kept - i) = i
    BY <1>2
  <2> QED
    BY <1>3, <2>2, <2>3
<1>5. ToArray(ohlcv) = tail
  BY <1>1, <1>4 DEF ToArray
<1> QED
  BY <1>1, <1>3, <1>5 DEF BuffersAgree, Kept, CopyIsNewest

LEMMA RingAlone == [Next]_mcVars => [RingNext]_ringVars
  BY DEF Next, mcVars, dataVars, Pool, Logger, BarsRun, RingRuns, Smoother, DatabaseRuns, RoutingRuns,
         UsdtRuns, OkxRuns, OmsRuns, OthersThanThreads, OthersThanData, OthersThanTrading

\* However far the arrays have wrapped and whenever they were read, at(), operator[],
\* to_array() and the readers' copy give the newest bars, oldest first, and the
\* buffer is ready as soon as it has been full: for every capacity, any bars and
\* any number of updates.
THEOREM Buffers == Spec => []BuffersAgree
<1>1. Init => RingInv
  BY RingStarts DEF Init
<1>2. RingInv /\ [Next]_mcVars => RingInv'
  <2> SUFFICES ASSUME RingInv, [RingNext]_ringVars PROVE RingInv'
    BY RingAlone
  <2>1. CASE UpdateTaData
    BY <2>1, CopyKeeps
  <2>2. ASSUME NEW bar \in BarValues, Update(bar) PROVE RingInv'
    BY <2>2, UpdateKeeps
  <2>3. CASE UNCHANGED ringVars
    BY <2>3 DEF ringVars, RingInv, HoldsNewest, CopyIsNewest, Kept, IsRing, FromLatest
  <2> QED
    BY <2>1, <2>2, <2>3 DEF RingNext
<1>3. Spec => []RingInv
  BY <1>1, <1>2, PTL DEF Spec
<1> QED
  BY <1>3, RingAgrees, PTL

------------------------------------------------------------------------------
(* The database *)

IsTable(table) == table = [r \in DOMAIN table |-> table[r]]
Values(table) == {table[r] : r \in DOMAIN table}
SameAt(r, a, b) == (r \in DOMAIN a <=> r \in DOMAIN b) /\ (r \in DOMAIN a => a[r] = b[r])

TablesInv ==
  /\ saves \in Nat /\ transaction \in 0 .. saves
  /\ IsTable(rows) /\ IsTable(disk)
  /\ Values(rows) \subseteq 1 .. saves /\ Values(disk) \subseteq 1 .. saves
\* Every call that writes has a number of its own; an idle thread has none.
ClientsInv ==
  /\ client \in [Clients -> [at : {"idle", "saving", "rollback"}, call : Nat, left : Seq({"bar", "tick"} \X RowTimes)]]
  /\ \A c \in Clients : client[c].call <= saves /\ (client[c].at = "idle" <=> client[c].call = 0)
  /\ \A c, d \in Clients : client[c].call = client[d].call /\ client[c].call # 0 => c = d
\* The open transaction is some thread's; whoever saves without it has lost it.
OwnersInv ==
  /\ transaction # 0 => \E c \in Clients : client[c].call = transaction
  /\ \A c \in Clients : client[c].at = "saving" => client[c].call \in undone \cup {transaction}
\* What the connection sees and the disk differ in what was written since.
DirtyInv ==
  /\ transaction = 0 => dirty = {}
  /\ \A r : r \notin dirty => SameAt(r, rows, disk)
AckedInv == \A r \in DOMAIN acked : r \in DOMAIN disk /\ disk[r] = acked[r]
Harmless(v) ==
  v \in undone \/ (v \notin refused /\ \A c \in Clients : v # client[c].call)
RowsInv == \A v \in Values(rows) : Harmless(v) \/ (v = transaction /\ v \notin refused)
DiskInv == \A v \in Values(disk) : Harmless(v)
RefusedInv == refused \subseteq 0 .. saves /\ \A c \in Clients : client[c].call # 0 => client[c].call \notin refused

StoreInv ==
  /\ TablesInv /\ ClientsInv /\ OwnersInv
  /\ DirtyInv /\ AckedInv
  /\ RowsInv /\ DiskInv /\ RefusedInv

LEMMA StoreStarts == DatabaseInit => StoreInv
<1> SUFFICES ASSUME DatabaseInit PROVE StoreInv
  OBVIOUS
<1>1. /\ rows = NoRows /\ disk = NoRows /\ transaction = 0 /\ client = [c \in Clients |-> Idle]
      /\ saves = 0 /\ acked = NoRows /\ dirty = {} /\ undone = {} /\ refused = {}
  BY DEF DatabaseInit
<1>2. DOMAIN NoRows = {} /\ IsTable(NoRows) /\ Values(NoRows) = {}
  BY DEF NoRows, IsTable, Values
<1>3. TablesInv
  BY <1>1, <1>2 DEF TablesInv
<1>4. ClientsInv
  BY <1>1 DEF ClientsInv, Idle
<1>5. OwnersInv /\ DirtyInv /\ AckedInv
  BY <1>1, <1>2 DEF OwnersInv, DirtyInv, AckedInv, SameAt, Idle
<1>6. RowsInv /\ DiskInv /\ RefusedInv
  BY <1>1, <1>2 DEF RowsInv, DiskInv, RefusedInv
<1> QED
  BY <1>3, <1>4, <1>5, <1>6 DEF StoreInv

\* A statement, alone or in whoever's transaction.
LEMMA ExecutedKeeps ==
  ASSUME TablesInv, DirtyInv, AckedInv, NEW after, NEW touched, NEW acknowledged,
         Executed(after, touched, acknowledged), transaction' = transaction,
         IsTable(after), \A x : x \notin touched => SameAt(x, after, rows),
         \A x \in DOMAIN acknowledged : x \in DOMAIN after /\ after[x] = acknowledged[x]
  PROVE  /\ rows' = after /\ disk' = (IF transaction = 0 THEN after ELSE disk)
         /\ IsTable(rows') /\ IsTable(disk')
         /\ DirtyInv' /\ AckedInv'
<1>1. rows' = after
  BY DEF Executed
<1>2. CASE transaction = 0
  <2>1. /\ disk' = after /\ dirty' = {} /\ \A r : SameAt(r, rows, disk)
        /\ acked' = [x \in (DOMAIN acked \ touched) \cup DOMAIN acknowledged |->
                       IF x \in DOMAIN acknowledged THEN acknowledged[x] ELSE acked[x]]
    BY <1>2 DEF Executed, DirtyInv
  <2>2. DirtyInv'
    BY <1>1, <2>1 DEF DirtyInv, SameAt
  <2>3. ASSUME NEW r \in DOMAIN acked' PROVE r \in DOMAIN after /\ after[r] = acked'[r]
    <3>1. CASE r \in DOMAIN acknowledged
      BY <2>1, <3>1
    <3>2. CASE r \notin DOMAIN acknowledged
      <4>1. r \in DOMAIN acked /\ r \notin touched /\ acked'[r] = acked[r]
        BY <2>1, <3>2
      <4>2. SameAt(r, after, rows) /\ SameAt(r, rows, disk) /\ r \in DOMAIN disk /\ disk[r] = acked[r]
        BY <2>1, <4>1 DEF AckedInv
      <4> QED
        BY <4>1, <4>2 DEF SameAt
    <3> QED
      BY <3>1, <3>2
  <2>4. AckedInv'
    BY <2>1, <2>3 DEF AckedInv
  <2> QED
    BY <1>1, <1>2, <2>1, <2>2, <2>4
<1>3. CASE transaction # 0
  <2>1. disk' = disk /\ acked' = acked /\ dirty' = dirty \cup touched
    BY <1>3 DEF Executed
  <2>2. ASSUME NEW r, r \notin dirty' PROVE SameAt(r, rows', disk')
    <3>1. SameAt(r, after, rows) /\ SameAt(r, rows, disk)
      BY <2>1, <2>2 DEF DirtyInv
    <3> QED
      BY <1>1, <2>1, <3>1 DEF SameAt
  <2>3. DirtyInv'
    BY <1>3, <2>2 DEF DirtyInv
  <2>4. AckedInv'
    BY <2>1 DEF AckedInv
  <2>5. IsTable(disk)
    BY DEF TablesInv
  <2> QED
    BY <1>1, <1>3, <2>1, <2>3, <2>4, <2>5
<1> QED
  BY <1>2, <1>3

LEMMA RolledBackKeeps ==
  ASSUME TablesInv, AckedInv, RolledBack
  PROVE  /\ rows' = disk /\ disk' = disk /\ transaction' = 0
         /\ DirtyInv' /\ AckedInv'
<1>1. rows' = disk /\ disk' = disk /\ transaction' = 0 /\ dirty' = {} /\ acked' = acked
  BY DEF RolledBack
<1> QED
  BY <1>1 DEF DirtyInv, AckedInv, SameAt

\* What is harmless stays so while nobody takes its number.
LEMMA HarmlessKept ==
  ASSUME NEW v, Harmless(v), undone \subseteq undone',
         v \in refused' => v \in refused \/ \E c \in Clients : v = client[c].call,
         \A c \in Clients : client'[c].call = v => \E d \in Clients : client[d].call = v
  PROVE  Harmless(v)'
  BY DEF Harmless

LEMMA StoredTable ==
  ASSUME NEW table, NEW r, NEW value, IsTable(table)
  PROVE  /\ IsTable(Stored(table, r, value)) /\ r \in DOMAIN Stored(table, r, value)
         /\ Stored(table, r, value)[r] = value
         /\ \A x : x # r => SameAt(x, Stored(table, r, value), table)
         /\ Values(Stored(table, r, value)) \subseteq Values(table) \cup {value}
  BY DEF Stored, IsTable, SameAt, Values

LEMMA WithoutTable ==
  ASSUME NEW table, NEW gone, IsTable(table)
  PROVE  /\ IsTable(Without(table, gone)) 
         /\ \A x : x \notin gone => SameAt(x, Without(table, gone), table)
         /\ Values(Without(table, gone)) \subseteq Values(table)
  BY DEF Without, IsTable, SameAt, Values

LEMMA SaveRowKeeps ==
  ASSUME StoreInv, NEW c \in Clients, NEW r, SaveRow(c, r)
  PROVE  StoreInv'
<1> DEFINE after == Stored(rows, r, saves + 1)
           acknowledged == Stored(NoRows, r, saves + 1)
<1>1. TablesInv /\ ClientsInv /\ OwnersInv /\ DirtyInv /\ AckedInv /\ RowsInv /\ DiskInv /\ RefusedInv
  BY DEF StoreInv
<1>2. /\ saves' = saves + 1 /\ Executed(after, {r}, acknowledged)
      /\ UNCHANGED <<transaction, client, undone, refused>>
  BY DEF SaveRow
<1>3. saves \in Nat /\ transaction \in 0 .. saves /\ IsTable(rows) /\ IsTable(disk)
      /\ Values(rows) \subseteq 1 .. saves /\ Values(disk) \subseteq 1 .. saves
  BY <1>1 DEF TablesInv
<1>4. /\ IsTable(after) /\ r \in DOMAIN after /\ after[r] = saves + 1
      /\ \A x : x # r => SameAt(x, after, rows)
      /\ Values(after) \subseteq Values(rows) \cup {saves + 1}
  BY <1>3, StoredTable
<1> HIDE DEF after
<1>5. /\ rows' = after /\ disk' = (IF transaction = 0 THEN after ELSE disk)
      /\ IsTable(rows') /\ IsTable(disk') /\ DirtyInv' /\ AckedInv'
  <2>1. DOMAIN acknowledged = {r} /\ acknowledged[r] = saves + 1
    BY DEF NoRows, Stored
  <2> HIDE DEF acknowledged
  <2>2. \A x \in DOMAIN acknowledged : x \in DOMAIN after /\ after[x] = acknowledged[x]
    BY <1>4, <2>1
  <2>3. \A x : x \notin {r} => SameAt(x, after, rows)
    BY <1>4
  <2> HIDE DEF SameAt
  <2> QED
    BY <1>1, <1>2, <1>4, <2>2, <2>3, ExecutedKeeps
<1>6. TablesInv'
  BY <1>2, <1>3, <1>4, <1>5 DEF TablesInv
<1>7. ClientsInv' /\ OwnersInv' /\ RefusedInv'
  <2>1. \A c1_ \in Clients : client[c1_].call \in Nat /\ client[c1_].call <= saves + 1
    BY <1>1, <1>3 DEF ClientsInv
  <2> QED
    BY <1>1, <1>2, <1>3, <2>1 DEF ClientsInv, OwnersInv, RefusedInv
<1>8. Harmless(saves + 1)
  BY <1>1, <1>3 DEF Harmless, ClientsInv, RefusedInv
<1>9. \A v : Harmless(v)' <=> Harmless(v)
  BY <1>2 DEF Harmless
<1>10. RowsInv'
  BY <1>1, <1>2, <1>4, <1>5, <1>8, <1>9 DEF RowsInv
<1>11. DiskInv'
  <2>1. CASE transaction = 0
    <3>1. \A v \in Values(rows) : Harmless(v)
      BY <1>1, <1>3, <2>1 DEF RowsInv
    <3> QED
      BY <1>4, <1>5, <1>8, <1>9, <2>1, <3>1 DEF DiskInv
  <2>2. CASE transaction # 0
    BY <1>1, <1>5, <1>9, <2>2 DEF DiskInv
  <2> QED
    BY <2>1, <2>2
<1> QED
  BY <1>5, <1>6, <1>7, <1>10, <1>11 DEF StoreInv

LEMMA DeleteKeeps ==
  ASSUME StoreInv, NEW c \in Clients, NEW table, DeleteTable(c, table)
  PROVE  StoreInv'
<1> DEFINE gone == {r \in DOMAIN rows : r[1] = table}
           after == Without(rows, gone)
<1>1. TablesInv /\ ClientsInv /\ OwnersInv /\ DirtyInv /\ AckedInv /\ RowsInv /\ DiskInv /\ RefusedInv
  BY DEF StoreInv
<1>2. Executed(after, gone, NoRows) /\ UNCHANGED <<saves, transaction, client, undone, refused>>
  BY DEF DeleteTable, boundVars
<1>3. saves \in Nat /\ transaction \in 0 .. saves /\ IsTable(rows) /\ IsTable(disk)
      /\ Values(rows) \subseteq 1 .. saves /\ Values(disk) \subseteq 1 .. saves
  BY <1>1 DEF TablesInv
<1> HIDE DEF gone
<1>4. /\ IsTable(after) /\ \A x : x \notin gone => SameAt(x, after, rows)
      /\ Values(after) \subseteq Values(rows)
  BY <1>3, WithoutTable
<1> HIDE DEF after
<1>5. /\ rows' = after /\ disk' = (IF transaction = 0 THEN after ELSE disk)
      /\ IsTable(rows') /\ IsTable(disk') /\ DirtyInv' /\ AckedInv'
  <2>1. DOMAIN NoRows = {}
    BY DEF NoRows
  <2> QED
    BY <1>1, <1>2, <1>4, <2>1, ExecutedKeeps
<1>6. TablesInv'
  BY <1>2, <1>3, <1>4, <1>5 DEF TablesInv
<1>7. ClientsInv' /\ OwnersInv' /\ RefusedInv'
  BY <1>1, <1>2 DEF ClientsInv, OwnersInv, RefusedInv
<1>8. \A v : Harmless(v)' <=> Harmless(v)
  BY <1>2 DEF Harmless
<1>9. RowsInv'
  BY <1>1, <1>2, <1>4, <1>5, <1>8 DEF RowsInv
<1>10. DiskInv'
  <2>1. CASE transaction = 0
    <3>1. \A v \in Values(rows) : Harmless(v)
      BY <1>1, <1>3, <2>1 DEF RowsInv
    <3> QED
      BY <1>4, <1>5, <1>8, <2>1, <3>1 DEF DiskInv
  <2>2. CASE transaction # 0
    BY <1>1, <1>5, <1>8, <2>2 DEF DiskInv
  <2> QED
    BY <2>1, <2>2
<1> QED
  BY <1>5, <1>6, <1>7, <1>9, <1>10 DEF StoreInv

\* What the calls with a transaction of their own save.
LEMMA BatchRows ==
  ASSUME NEW table \in {"bar", "tick"}, NEW times \in Batches
  PROVE  [i \in DOMAIN times |-> <<table, times[i]>>] \in Seq({"bar", "tick"} \X RowTimes)
<1>1. CASE \E t \in RowTimes : times = <<t>>
  BY <1>1
<1>2. CASE times \in RowTimes \X RowTimes
  <2>1. PICK t \in RowTimes, u \in RowTimes : times = <<t, u>>
    BY <1>2
  <2>2. [i \in DOMAIN times |-> <<table, times[i]>>] = <<<<table, t>>, <<table, u>>>>
    BY <2>1
  <2> QED
    BY <2>2
<1> QED
  BY <1>1, <1>2 DEF Batches

LEMMA BeginKeeps ==
  ASSUME StoreInv, NEW c \in Clients, NEW left \in Seq({"bar", "tick"} \X RowTimes), Begin(c, left)
  PROVE  StoreInv'
<1>1. TablesInv /\ ClientsInv /\ OwnersInv /\ DirtyInv /\ AckedInv /\ RowsInv /\ DiskInv /\ RefusedInv
  BY DEF StoreInv
<1>2. saves' = saves + 1 /\ client[c] = Idle /\ UNCHANGED <<rows, disk, acked, dirty, undone>>
  BY DEF Begin
<1>3. saves \in Nat /\ transaction \in 0 .. saves
      /\ Values(rows) \subseteq 1 .. saves /\ Values(disk) \subseteq 1 .. saves
      /\ \A d \in Clients : client[d].call \in Nat /\ client[d].call <= saves
  BY <1>1 DEF TablesInv, ClientsInv
<1>4. left \in Seq({"bar", "tick"} \X RowTimes)
  OBVIOUS
<1>6. CASE transaction = 0
  <2>1. /\ transaction' = saves + 1 /\ refused' = refused
        /\ client' = [client EXCEPT ![c] = [at |-> "saving", call |-> saves + 1, left |-> left]]
    BY <1>2, <1>6 DEF Begin
  <2>2. /\ client'[c] = [at |-> "saving", call |-> saves + 1, left |-> left]
        /\ \A d \in Clients : d # c => client'[d] = client[d]
    BY <1>1, <2>1 DEF ClientsInv
  <2>3. ClientsInv'
    <3>1. client' \in [Clients -> [at : {"idle", "saving", "rollback"}, call : Nat, left : Seq({"bar", "tick"} \X RowTimes)]]
      BY <1>1, <1>3, <1>4, <2>1 DEF ClientsInv
    <3>2. \A d \in Clients : client'[d].call <= saves' /\ (client'[d].at = "idle" <=> client'[d].call = 0)
      BY <1>1, <1>2, <1>3, <2>2 DEF ClientsInv
    <3>3. \A d, e \in Clients : client'[d].call = client'[e].call /\ client'[d].call # 0 => d = e
      <4> SUFFICES ASSUME NEW d \in Clients, NEW e \in Clients,
                          client'[d].call = client'[e].call, client'[d].call # 0, d # e
                   PROVE  FALSE
        OBVIOUS
      <4>1. d # c /\ e # c
        <5>1. \A f \in Clients : f # c => client'[f].call <= saves
          BY <1>3, <2>2
        <5>2. client'[c].call = saves + 1
          BY <2>2
        <5> QED
          BY <1>3, <5>1, <5>2
      <4> QED
        BY <1>1, <2>2, <4>1 DEF ClientsInv
    <3> QED
      BY <3>1, <3>2, <3>3 DEF ClientsInv
  <2>4. OwnersInv'
    <3>1. \A d \in Clients : d # c /\ client[d].at = "saving" => client[d].call \in undone
      BY <1>1, <1>6 DEF OwnersInv, ClientsInv
    <3> QED
      BY <1>2, <2>1, <2>2, <3>1 DEF OwnersInv
  <2>5. RefusedInv'
    BY <1>1, <1>2, <1>3, <2>1, <2>2 DEF RefusedInv
  <2>6. ASSUME NEW v \in 1 .. saves, Harmless(v) PROVE Harmless(v)'
    BY <1>2, <1>3, <2>1, <2>2, <2>6 DEF Harmless
  <2>7. \A v \in Values(rows) : Harmless(v)
    BY <1>1, <1>3, <1>6 DEF RowsInv
  <2>8. RowsInv' /\ DiskInv'
    BY <1>1, <1>2, <1>3, <2>6, <2>7 DEF RowsInv, DiskInv
  <2>9. TablesInv'
    BY <1>1, <1>2, <1>3, <2>1 DEF TablesInv
  <2>10. DirtyInv' /\ AckedInv'
    BY <1>1, <1>2, <1>3, <2>1 DEF DirtyInv, AckedInv
  <2> QED
    BY <2>3, <2>4, <2>5, <2>8, <2>9, <2>10 DEF StoreInv
<1>7. CASE transaction # 0
  <2>1. refused' = refused \cup {saves + 1} /\ UNCHANGED <<transaction, client>>
    BY <1>2, <1>7 DEF Begin
  <2>2. TablesInv' /\ DirtyInv' /\ AckedInv' /\ OwnersInv'
    BY <1>1, <1>2, <1>3, <2>1 DEF TablesInv, DirtyInv, AckedInv, OwnersInv
  <2>3. ClientsInv'
    <3>1. \A d \in Clients : client[d].call <= saves'
      BY <1>2, <1>3
    <3> QED
      BY <1>1, <2>1, <3>1 DEF ClientsInv
  <2>6. RefusedInv'
    <3>1. refused' \subseteq 0 .. saves'
      <4>1. saves \in Nat /\ saves' = saves + 1
        BY <1>1, <1>2 DEF TablesInv
      <4>2. \A v \in refused : v \in 0 .. saves
        BY <1>1 DEF RefusedInv
      <4>3. \A v \in refused' : v \in refused \/ v = saves + 1
        BY <2>1
      <4>4. \A v \in 0 .. saves : v \in 0 .. saves'
        BY <4>1
      <4>5. saves + 1 \in 0 .. saves'
        BY <4>1
      <4> QED
        BY <4>2, <4>3, <4>4, <4>5
    <3>2. \A d \in Clients : client[d].call # saves + 1
      BY <1>3
    <3> QED
      BY <1>1, <2>1, <3>1, <3>2 DEF RefusedInv
  <2>4. ASSUME NEW v \in 1 .. saves, Harmless(v) PROVE Harmless(v)'
    BY <1>2, <1>3, <2>1, <2>4 DEF Harmless
  <2>5. RowsInv' /\ DiskInv'
    BY <1>1, <1>2, <1>3, <2>1, <2>4 DEF RowsInv, DiskInv
  <2> QED
    BY <2>2, <2>3, <2>5, <2>6 DEF StoreInv
<1> QED
  BY <1>6, <1>7

LEMMA SaveNextKeeps ==
  ASSUME StoreInv, NEW c \in Clients, SaveNext(c)
  PROVE  StoreInv'
<1> DEFINE call == client[c].call
           r == Head(client[c].left)
           after == Stored(rows, r, call)
<1>1. TablesInv /\ ClientsInv /\ OwnersInv /\ DirtyInv /\ AckedInv /\ RowsInv /\ DiskInv /\ RefusedInv
  BY DEF StoreInv
<1>2. /\ client[c].at = "saving" /\ client[c].left # <<>> /\ Executed(after, {r}, NoRows)
      /\ client' = [client EXCEPT ![c].left = Tail(@)]
      /\ UNCHANGED <<saves, transaction, undone, refused>>
  BY DEF SaveNext, boundVars
<1>3. saves \in Nat /\ transaction \in 0 .. saves /\ IsTable(rows) /\ IsTable(disk)
      /\ Values(rows) \subseteq 1 .. saves /\ Values(disk) \subseteq 1 .. saves
  BY <1>1 DEF TablesInv
<1>4. call \in 1 .. saves /\ call \notin refused /\ call \in undone \cup {transaction}
  BY <1>1, <1>2, <1>3 DEF ClientsInv, OwnersInv, RefusedInv
<1>5. \A d \in Clients : client'[d].call = client[d].call /\ client'[d].at = client[d].at
  BY <1>1, <1>2 DEF ClientsInv
<1>6. client' \in [Clients -> [at : {"idle", "saving", "rollback"}, call : Nat, left : Seq({"bar", "tick"} \X RowTimes)]]
  <2>1. Tail(client[c].left) \in Seq({"bar", "tick"} \X RowTimes)
    BY <1>1, <1>2 DEF ClientsInv
  <2> QED
    BY <1>1, <1>2, <2>1 DEF ClientsInv
<1> HIDE DEF call, r
<1>7. /\ IsTable(after) /\ r \in DOMAIN after /\ after[r] = call
      /\ \A x : x # r => SameAt(x, after, rows)
      /\ Values(after) \subseteq Values(rows) \cup {call}
  BY <1>3, StoredTable
<1> HIDE DEF after
<1>8. /\ rows' = after /\ disk' = (IF transaction = 0 THEN after ELSE disk)
      /\ IsTable(rows') /\ IsTable(disk') /\ DirtyInv' /\ AckedInv'
  <2>1. DOMAIN NoRows = {}
    BY DEF NoRows
  <2>2. \A x : x \notin {r} => SameAt(x, after, rows)
    BY <1>7
  <2> QED
    BY <1>1, <1>2, <1>7, <2>1, <2>2, ExecutedKeeps
<1>9. TablesInv'
  BY <1>2, <1>3, <1>4, <1>7, <1>8 DEF TablesInv
<1>10. ClientsInv' /\ OwnersInv' /\ RefusedInv'
  BY <1>1, <1>2, <1>5, <1>6 DEF ClientsInv, OwnersInv, RefusedInv
<1>11. \A v : Harmless(v)' <=> Harmless(v)
  BY <1>2, <1>5 DEF Harmless
<1>12. Harmless(call) \/ (call = transaction /\ call \notin refused)
  BY <1>4 DEF Harmless
<1>13. RowsInv'
  BY <1>1, <1>2, <1>7, <1>8, <1>11, <1>12 DEF RowsInv
<1>14. DiskInv'
  <2>1. CASE transaction = 0
    <3>1. \A v \in Values(rows) : Harmless(v)
      BY <1>1, <1>3, <2>1 DEF RowsInv
    <3>2. Harmless(call)
      BY <1>3, <1>4, <2>1 DEF Harmless
    <3> QED
      BY <1>7, <1>8, <1>11, <2>1, <3>1, <3>2 DEF DiskInv
  <2>2. CASE transaction # 0
    BY <1>1, <1>8, <1>11, <2>2 DEF DiskInv
  <2> QED
    BY <2>1, <2>2
<1> QED
  BY <1>8, <1>9, <1>10, <1>13, <1>14 DEF StoreInv

\* A transaction that is taken back, by whomever: its thread has lost it if it still saves.
LEMMA RollingBackKeeps ==
  ASSUME StoreInv, RolledBack, saves' = saves,
         client' \in [Clients -> [at : {"idle", "saving", "rollback"}, call : Nat, left : Seq({"bar", "tick"} \X RowTimes)]],
         \A d \in Clients : \/ client'[d].call = client[d].call /\ (client'[d].at = "idle" <=> client[d].at = "idle")
                            \/ client'[d].call = 0 /\ client'[d].at = "idle",
         undone \subseteq undone',
         \A d \in Clients : client'[d].at = "saving" => client[d].at = "saving" /\ client[d].call \in undone',
         refused \subseteq refused',
         \A v \in refused' : v \in refused \/ \E d \in Clients : v = client[d].call /\ client'[d].call = 0
  PROVE  StoreInv'
<1>1. TablesInv /\ ClientsInv /\ OwnersInv /\ DirtyInv /\ AckedInv /\ RowsInv /\ DiskInv /\ RefusedInv
  BY DEF StoreInv
<1>2. rows' = disk /\ disk' = disk /\ transaction' = 0 /\ DirtyInv' /\ AckedInv'
  BY <1>1, RolledBackKeeps
<1>3. TablesInv'
  BY <1>1, <1>2 DEF TablesInv
<1>4. ClientsInv'
  <2>1. \A d \in Clients : client'[d].call <= saves' /\ (client'[d].at = "idle" <=> client'[d].call = 0)
    BY <1>1 DEF ClientsInv, TablesInv
  <2>2. \A d, e \in Clients : client'[d].call = client'[e].call /\ client'[d].call # 0 => d = e
    BY <1>1 DEF ClientsInv
  <2> QED
    BY <2>1, <2>2 DEF ClientsInv
<1>5. OwnersInv'
  BY <1>1, <1>2 DEF OwnersInv
<1>6. ASSUME NEW v \in Values(disk) PROVE Harmless(v)'
  <2>1. Harmless(v) /\ v # 0
    BY <1>1 DEF DiskInv, TablesInv
  <2>2. \A d \in Clients : client'[d].call = v => client[d].call = v
    BY <2>1
  <2> QED
    BY <2>1, <2>2, HarmlessKept
<1>7. RowsInv' /\ DiskInv'
  BY <1>2, <1>6 DEF RowsInv, DiskInv
<1>8. RefusedInv'
  <2>1. refused' \subseteq 0 .. saves'
    BY <1>1 DEF RefusedInv, ClientsInv, TablesInv
  <2>2. ASSUME NEW d \in Clients, client'[d].call # 0 PROVE client'[d].call \notin refused'
    <3>1. client'[d].call = client[d].call /\ client[d].call \notin refused
      BY <1>1, <2>2 DEF RefusedInv
    <3>2. \A e \in Clients : client[e].call = client[d].call => e = d
      BY <1>1, <2>2, <3>1 DEF ClientsInv
    <3>3. ASSUME NEW e \in Clients, client[e].call = client[d].call, client'[e].call = 0 PROVE FALSE
      BY <2>2, <3>2, <3>3
    <3> QED
      BY <3>1, <3>3
  <2> QED
    BY <2>1, <2>2 DEF RefusedInv
<1> QED
  BY <1>2, <1>3, <1>4, <1>5, <1>7, <1>8 DEF StoreInv

\* Threads move on and nothing else happens.
LEMMA MovingKeeps ==
  ASSUME StoreInv, UNCHANGED <<rows, disk, transaction, acked, dirty, saves, undone, refused>>,
         client' \in [Clients -> [at : {"idle", "saving", "rollback"}, call : Nat, left : Seq({"bar", "tick"} \X RowTimes)]],
         \A d \in Clients : /\ client'[d].call = client[d].call
                            /\ client'[d].at = "idle" <=> client[d].at = "idle"
                            /\ client'[d].at = "saving" => client[d].at = "saving"
  PROVE  StoreInv'
<1>1. TablesInv /\ ClientsInv /\ OwnersInv /\ DirtyInv /\ AckedInv /\ RowsInv /\ DiskInv /\ RefusedInv
  BY DEF StoreInv
<1>2. TablesInv' /\ DirtyInv' /\ AckedInv'
  BY <1>1 DEF TablesInv, DirtyInv, AckedInv
<1>3. ClientsInv' /\ RefusedInv'
  BY <1>1 DEF ClientsInv, RefusedInv
<1>4. OwnersInv'
  BY <1>1 DEF OwnersInv
<1>5. \A v : Harmless(v)' <=> Harmless(v)
  BY DEF Harmless
<1>6. RowsInv' /\ DiskInv'
  BY <1>1, <1>5 DEF RowsInv, DiskInv
<1> QED
  BY <1>2, <1>3, <1>4, <1>6 DEF StoreInv

LEMMA SaveNextFailsKeeps ==
  ASSUME StoreInv, NEW c \in Clients, SaveNextFails(c)
  PROVE  StoreInv'
<1>1. ClientsInv /\ OwnersInv /\ TablesInv
  BY DEF StoreInv
<1>2. /\ client[c].at = "saving" /\ client[c].left # <<>> /\ client' = [client EXCEPT ![c].left = Tail(@)]
      /\ UNCHANGED <<saves, refused>>
  BY DEF SaveNextFails, boundVars
<1>3. \A d \in Clients : client'[d].call = client[d].call /\ client'[d].at = client[d].at
  BY <1>1, <1>2 DEF ClientsInv
<1>4. client' \in [Clients -> [at : {"idle", "saving", "rollback"}, call : Nat, left : Seq({"bar", "tick"} \X RowTimes)]]
  <2>1. Tail(client[c].left) \in Seq({"bar", "tick"} \X RowTimes)
    BY <1>1, <1>2 DEF ClientsInv
  <2> QED
    BY <1>1, <1>2, <2>1 DEF ClientsInv
<1>5. CASE UNCHANGED <<rows, disk, transaction, acked, dirty, undone>>
  BY <1>2, <1>3, <1>4, <1>5, MovingKeeps
<1>6. CASE transaction # 0 /\ RolledBack /\ undone' = undone \cup {transaction}
  <2>1. \A d \in Clients : client[d].at = "saving" => client[d].call \in undone'
    BY <1>1, <1>6 DEF OwnersInv
  <2> QED
    BY <1>2, <1>3, <1>4, <1>6, <2>1, RollingBackKeeps
<1> QED
  BY <1>5, <1>6 DEF SaveNextFails

\* Whoever saves and is not c, which ends the transaction, has lost it.
LEMMA OthersHaveLost ==
  ASSUME StoreInv, NEW c \in Clients, transaction # 0, undone' = EndedBy(c),
         NEW d \in Clients, d # c, client[d].at = "saving"
  PROVE  client[d].call \in undone'
<1>1. /\ client[d].call \in undone \cup {transaction} /\ client[d].call # 0
      /\ client[d].call # client[c].call
  BY DEF StoreInv, ClientsInv, OwnersInv
<1> QED
  BY <1>1 DEF EndedBy

LEMMA CommitFailsKeeps ==
  ASSUME StoreInv, NEW c \in Clients, CommitFails(c)
  PROVE  StoreInv'
<1>1. ClientsInv /\ OwnersInv /\ TablesInv
  BY DEF StoreInv
<1>2. /\ client[c].at = "saving" /\ client' = [client EXCEPT ![c].at = "rollback"]
      /\ UNCHANGED <<saves, refused>>
  BY DEF CommitFails, Goes, boundVars
<1>3. /\ \A d \in Clients : client'[d].call = client[d].call /\ (client'[d].at = "idle" <=> client[d].at = "idle")
      /\ \A d \in Clients : client'[d].at = "saving" => client[d].at = "saving" /\ d # c
  BY <1>1, <1>2 DEF ClientsInv
<1>4. client' \in [Clients -> [at : {"idle", "saving", "rollback"}, call : Nat, left : Seq({"bar", "tick"} \X RowTimes)]]
  BY <1>1, <1>2 DEF ClientsInv
<1>5. CASE UNCHANGED <<rows, disk, transaction, acked, dirty, undone>>
  BY <1>2, <1>3, <1>4, <1>5, MovingKeeps
<1>6. CASE transaction # 0 /\ RolledBack /\ undone' = EndedBy(c)
  <2>1. undone \subseteq undone'
    BY <1>6 DEF EndedBy
  <2>2. \A d \in Clients : client'[d].at = "saving" => client[d].at = "saving" /\ client[d].call \in undone'
    BY <1>3, <1>6, OthersHaveLost
  <2> QED
    BY <1>2, <1>3, <1>4, <1>6, <2>1, <2>2, RollingBackKeeps
<1> QED
  BY <1>5, <1>6 DEF CommitFails

LEMMA RollbackKeeps ==
  ASSUME StoreInv, NEW c \in Clients, Rollback(c)
  PROVE  StoreInv'
<1>1. TablesInv /\ ClientsInv /\ OwnersInv /\ DirtyInv /\ AckedInv /\ RowsInv /\ DiskInv /\ RefusedInv
  BY DEF StoreInv
<1>2. /\ client[c].at = "rollback" /\ client' = [client EXCEPT ![c] = Idle] /\ saves' = saves
      /\ undone' = EndedBy(c) /\ refused' = refused \cup {client[c].call}
  BY DEF Rollback, boundVars
<1>3. client'[c] = Idle /\ \A d \in Clients : d # c => client'[d] = client[d]
  BY <1>1, <1>2 DEF ClientsInv
<1>4. client' \in [Clients -> [at : {"idle", "saving", "rollback"}, call : Nat, left : Seq({"bar", "tick"} \X RowTimes)]]
  BY <1>1, <1>2 DEF ClientsInv, Idle
<1>5. /\ \A d \in Clients : \/ client'[d].call = client[d].call /\ (client'[d].at = "idle" <=> client[d].at = "idle")
                            \/ client'[d].call = 0 /\ client'[d].at = "idle"
      /\ client'[c].call = 0 /\ undone \subseteq undone'
      /\ \A d \in Clients : client'[d].at = "saving" => client[d].at = "saving" /\ d # c
  BY <1>2, <1>3 DEF Idle, EndedBy
<1>6. CASE transaction # 0
  <2>1. RolledBack
    BY <1>6 DEF Rollback
  <2>2. \A d \in Clients : client'[d].at = "saving" => client[d].at = "saving" /\ client[d].call \in undone'
    BY <1>2, <1>5, <1>6, OthersHaveLost
  <2>3. \A v \in refused' : v \in refused \/ \E d \in Clients : v = client[d].call /\ client'[d].call = 0
    BY <1>2, <1>5
  <2> QED
    BY <1>2, <1>4, <1>5, <2>1, <2>2, <2>3, RollingBackKeeps
<1>7. CASE transaction = 0
  <2>1. UNCHANGED <<rows, disk, transaction, acked, dirty, undone>>
    BY <1>2, <1>7 DEF Rollback, EndedBy
  <2>2. rows = disk
    <3>1. \A r : SameAt(r, rows, disk)
      BY <1>1, <1>7 DEF DirtyInv
    <3>2. DOMAIN rows = DOMAIN disk
      BY <3>1 DEF SameAt
    <3> QED
      BY <1>1, <3>1, <3>2 DEF SameAt, TablesInv, IsTable
  <2>3. \A d \in Clients : client'[d].at = "saving" => client[d].at = "saving" /\ client[d].call \in undone'
    BY <1>1, <1>5, <1>7, <2>1 DEF OwnersInv, ClientsInv
  <2>4. RolledBack
    BY <1>1, <1>7, <2>1, <2>2 DEF RolledBack, DirtyInv
  <2>5. \A v \in refused' : v \in refused \/ \E d \in Clients : v = client[d].call /\ client'[d].call = 0
    BY <1>2, <1>5
  <2> QED
    BY <1>2, <1>4, <1>5, <2>1, <2>3, <2>4, <2>5, RollingBackKeeps
<1> QED
  BY <1>6, <1>7

LEMMA CrashKeeps ==
  ASSUME StoreInv, Crash
  PROVE  StoreInv'
<1>1. RolledBack /\ client' = [c \in Clients |-> Idle] /\ saves' = saves /\ undone' = undone
      /\ refused' = refused \cup {client[c].call : c \in {c \in Clients : client[c].at = "saving"}}
  BY DEF Crash
<1>2. client' \in [Clients -> [at : {"idle", "saving", "rollback"}, call : Nat, left : Seq({"bar", "tick"} \X RowTimes)]]
  BY <1>1 DEF Idle
<1>3. \A d \in Clients : client'[d].call = 0 /\ client'[d].at = "idle"
  BY <1>1 DEF Idle
<1>4. \A v \in refused' : v \in refused \/ \E d \in Clients : v = client[d].call /\ client'[d].call = 0
  BY <1>1, <1>3
<1> QED
  BY <1>1, <1>2, <1>3, <1>4, RollingBackKeeps

LEMMA CommitKeeps ==
  ASSUME StoreInv, NEW c \in Clients, Commit(c)
  PROVE  StoreInv'
<1>1. TablesInv /\ ClientsInv /\ OwnersInv /\ DirtyInv /\ AckedInv /\ RowsInv /\ DiskInv /\ RefusedInv
  BY DEF StoreInv
<1>2. /\ client[c].at = "saving" /\ transaction # 0
      /\ disk' = rows /\ rows' = rows /\ transaction' = 0 /\ dirty' = {}
      /\ acked' = [x \in (DOMAIN acked \ dirty) \cup {x \in DOMAIN rows : rows[x] = client[c].call} |-> rows[x]]
      /\ undone' = EndedBy(c) /\ client' = [client EXCEPT ![c] = Idle]
      /\ saves' = saves /\ refused' = refused
  BY DEF Commit, boundVars
<1>3. client'[c] = Idle /\ \A d \in Clients : d # c => client'[d] = client[d]
  BY <1>1, <1>2 DEF ClientsInv
<1>4. undone \subseteq undone'
  BY <1>2 DEF EndedBy
<1>5. TablesInv' /\ DirtyInv'
  BY <1>1, <1>2 DEF TablesInv, DirtyInv, SameAt
<1>6. AckedInv'
  <2>1. ASSUME NEW r \in DOMAIN acked' PROVE r \in DOMAIN rows /\ acked'[r] = rows[r]
    <3>1. CASE r \in DOMAIN acked /\ r \notin dirty
      <4>1. SameAt(r, rows, disk) /\ r \in DOMAIN disk
        BY <1>1, <3>1 DEF DirtyInv, AckedInv
      <4> QED
        BY <1>2, <4>1 DEF SameAt
    <3>2. CASE r \in DOMAIN rows
      BY <1>2, <3>2
    <3> QED
      BY <1>2, <3>1, <3>2
  <2> QED
    BY <1>2, <2>1 DEF AckedInv
<1>7. ClientsInv'
  <2>1. client' \in [Clients -> [at : {"idle", "saving", "rollback"}, call : Nat, left : Seq({"bar", "tick"} \X RowTimes)]]
    BY <1>1, <1>2 DEF ClientsInv, Idle
  <2>2. \A d \in Clients : client'[d].call <= saves' /\ (client'[d].at = "idle" <=> client'[d].call = 0)
    BY <1>1, <1>2, <1>3 DEF ClientsInv, TablesInv, Idle
  <2>3. \A d, e \in Clients : client'[d].call = client'[e].call /\ client'[d].call # 0 => d = e
    <3>1. client'[c].call = 0
      BY <1>3 DEF Idle
    <3>2. \A d \in Clients : client'[d].call # 0 => client'[d].call = client[d].call
      BY <1>3, <3>1
    <3> QED
      BY <1>1, <3>2 DEF ClientsInv
  <2> QED
    BY <2>1, <2>2, <2>3 DEF ClientsInv
<1>8. OwnersInv'
  <2>1. ASSUME NEW d \in Clients, client'[d].at = "saving" PROVE client'[d].call \in undone'
    <3>1. d # c /\ client'[d] = client[d]
      BY <1>3, <2>1 DEF Idle
    <3> QED
      BY <1>2, <2>1, <3>1, OthersHaveLost
  <2> QED
    BY <1>2, <2>1 DEF OwnersInv
<1>9. ASSUME NEW v \in Values(rows) PROVE Harmless(v)'
  <2>1. v # 0
    BY <1>1 DEF TablesInv
  <2>2. CASE Harmless(v)
    <3>1. \A d \in Clients : client'[d].call = v => client[d].call = v
      BY <1>3, <2>1 DEF Idle
    <3> QED
      BY <1>2, <1>4, <2>2, <3>1, HarmlessKept
  <2>3. CASE v = transaction /\ v \notin refused
    <3>1. CASE transaction = client[c].call
      <4>1. \A d \in Clients : client'[d].call # v
        BY <1>1, <1>3, <2>1, <2>3, <3>1 DEF ClientsInv, Idle
      <4> QED
        BY <1>2, <2>3, <4>1 DEF Harmless
    <3>2. CASE transaction # client[c].call
      BY <1>2, <2>3, <3>2 DEF EndedBy, Harmless
    <3> QED
      BY <3>1, <3>2
  <2> QED
    BY <1>1, <2>2, <2>3 DEF RowsInv
<1>10. RowsInv' /\ DiskInv'
  BY <1>2, <1>9 DEF RowsInv, DiskInv
<1>11. RefusedInv'
  BY <1>1, <1>2, <1>3 DEF RefusedInv, Idle
<1> QED
  BY <1>5, <1>6, <1>7, <1>8, <1>10, <1>11 DEF StoreInv

LEMMA StoreKeeps == StoreInv /\ [DatabaseNext]_databaseVars => StoreInv'
<1> SUFFICES ASSUME StoreInv, [DatabaseNext]_databaseVars PROVE StoreInv'
  OBVIOUS
<1>1. ASSUME NEW c \in Clients, NEW r, SaveRow(c, r) PROVE StoreInv'
  BY <1>1, SaveRowKeeps
<1>2. ASSUME NEW c \in Clients, NEW table, DeleteTable(c, table) PROVE StoreInv'
  BY <1>2, DeleteKeeps
<1>3. ASSUME NEW c \in Clients, NEW times \in Batches, SaveBars(c, times) \/ SaveTicks(c, times) PROVE StoreInv'
  <2>1. ASSUME NEW table \in {"bar", "tick"}, Begin(c, [i \in DOMAIN times |-> <<table, times[i]>>]) PROVE StoreInv'
    <3>1. PICK left \in Seq({"bar", "tick"} \X RowTimes) : left = [i \in DOMAIN times |-> <<table, times[i]>>]
      BY BatchRows
    <3>2. Begin(c, left)
      BY <2>1, <3>1
    <3> QED
      BY <3>2, BeginKeeps
  <2> QED
    BY <1>3, <2>1 DEF SaveBars, SaveTicks
<1>12. ASSUME NEW c \in Clients, NEW time \in RowTimes, OwnTransaction(c, time) PROVE StoreInv'
  <2>1. PICK left \in Seq({"bar", "tick"} \X RowTimes) : left = <<<<"bar", time>>, <<"tick", time>>>>
    <3>1. PICK one \in {"bar", "tick"} \X RowTimes : one = <<"bar", time>>
      OBVIOUS
    <3>2. PICK two \in {"bar", "tick"} \X RowTimes : two = <<"tick", time>>
      OBVIOUS
    <3>3. <<one, two>> \in Seq({"bar", "tick"} \X RowTimes)
      OBVIOUS
    <3> QED
      BY <3>1, <3>2, <3>3
  <2>2. Begin(c, left)
    BY <1>12, <2>1 DEF OwnTransaction
  <2> QED
    BY <2>2, BeginKeeps
<1>13. ASSUME NEW c \in Clients, SingleFails(c) PROVE StoreInv'
  <2>1. /\ RolledBack /\ transaction # 0 /\ undone' = undone \cup {transaction} /\ saves' = saves
        /\ client' = client /\ refused' = refused
    BY <1>13 DEF SingleFails, boundVars
  <2>2. /\ client' \in [Clients -> [at : {"idle", "saving", "rollback"}, call : Nat, left : Seq({"bar", "tick"} \X RowTimes)]]
        /\ \A d \in Clients : client'[d].at = "saving" => client[d].at = "saving" /\ client[d].call \in undone'
    BY <2>1 DEF StoreInv, ClientsInv, OwnersInv
  <2> QED
    BY <2>1, <2>2, RollingBackKeeps
<1>4. ASSUME NEW c \in Clients, SaveNext(c) PROVE StoreInv'
  BY <1>4, SaveNextKeeps
<1>5. ASSUME NEW c \in Clients, SaveNextFails(c) PROVE StoreInv'
  BY <1>5, SaveNextFailsKeeps
<1>6. ASSUME NEW c \in Clients, Commit(c) PROVE StoreInv'
  BY <1>6, CommitKeeps
<1>7. ASSUME NEW c \in Clients, CommitFails(c) PROVE StoreInv'
  BY <1>7, CommitFailsKeeps
<1>8. ASSUME NEW c \in Clients, Rollback(c) PROVE StoreInv'
  BY <1>8, RollbackKeeps
<1>9. CASE Crash
  BY <1>9, CrashKeeps
<1>10. CASE UNCHANGED databaseVars
  <2>1. UNCHANGED <<rows, disk, transaction, client, saves, acked, dirty, undone, refused>>
    BY <1>10 DEF databaseVars
  <2> QED
    BY <2>1 DEF StoreInv, TablesInv, ClientsInv, OwnersInv, DirtyInv, AckedInv, RowsInv, DiskInv, RefusedInv, Harmless
<1>11. CASE DatabaseNext
  BY <1>1, <1>2, <1>3, <1>4, <1>5, <1>6, <1>7, <1>8, <1>9, <1>11, <1>12, <1>13
     DEF DatabaseNext, SaveBar, SaveTick, SaveStrategyState, DeleteBars, DeleteStrategyState
<1> QED
  BY <1>10, <1>11

LEMMA StoreLasts == StoreInv => WritesLast
<1> SUFFICES ASSUME StoreInv PROVE WritesLast
  OBVIOUS
<1>1. TablesInv /\ ClientsInv /\ OwnersInv /\ DirtyInv /\ AckedInv /\ DiskInv
  BY DEF StoreInv
<1>2. ASSUME NEW r \in DOMAIN disk
      PROVE  /\ disk[r] \in refused => disk[r] \in undone
             /\ \A c \in Clients : disk[r] = client[c].call => disk[r] \in undone
  BY <1>1 DEF DiskInv, Values, Harmless
<1>3. (\A c \in Clients : client[c] = Idle) => transaction = 0
  BY <1>1 DEF OwnersInv, Idle
<1>4. ASSUME transaction = 0 PROVE rows = disk
  <2>1. \A r : SameAt(r, rows, disk)
    BY <1>1, <1>4 DEF DirtyInv
  <2>2. DOMAIN rows = DOMAIN disk
    BY <2>1 DEF SameAt
  <2> QED
    BY <1>1, <2>1, <2>2 DEF SameAt, TablesInv, IsTable
<1> QED
  BY <1>1, <1>2, <1>3, <1>4 DEF WritesLast, AckedInv

LEMMA DatabaseAlone == [Next]_mcVars => [DatabaseNext]_databaseVars
  BY DEF Next, mcVars, dataVars, Pool, Logger, BarsRun, RingRuns, Smoother, DatabaseRuns, RoutingRuns,
         UsdtRuns, OkxRuns, OmsRuns, OthersThanThreads, OthersThanData, OthersThanTrading

------------------------------------------------------------------------------
(* The queries *)

\* A sequence of all elements of a set, the least first, and how its places count them.
Climbs(order, S) ==
  /\ order \in [1 .. Cardinality(S) -> S]
  /\ \A i, j \in 1 .. Cardinality(S) : i < j => order[i] < order[j]

LEMMA PlacesCount ==
  ASSUME NEW S, IsFiniteSet(S), \A x \in S : x \in Nat, NEW order, Climbs(order, S)
  PROVE  /\ \A i \in 1 .. Cardinality(S) : Cardinality({x \in S : x <= order[i]}) = i
         /\ \A x \in S : \E i \in 1 .. Cardinality(S) : order[i] = x
<1> DEFINE n == Cardinality(S)
<1>1. n \in Nat /\ IsFiniteSet(1 .. n) /\ Cardinality(1 .. n) = n
  BY FS_CardinalityType, FS_Interval
<1>2. order \in [1 .. n -> S] /\ \A i, j \in 1 .. n : i < j => order[i] < order[j]
  BY DEF Climbs
<1>3. n = Cardinality(S)
  OBVIOUS
<1> HIDE DEF n
<1>4. \A i \in 1 .. n : order[i] \in S /\ order[i] \in Nat
  BY <1>2
<1>5. \A i, j \in 1 .. n : order[i] = order[j] => i = j
  <2> SUFFICES ASSUME NEW i \in 1 .. n, NEW j \in 1 .. n, i # j PROVE order[i] # order[j]
    OBVIOUS
  <2>1. i < j \/ j < i
    OBVIOUS
  <2> QED BY <1>2, <1>4, <2>1
<1>6. \A x \in S : \E i \in 1 .. n : order[i] = x
  <2>1. order \in Injection(1 .. n, S)
    BY <1>2, <1>5 DEF Injection, IsInjective
  <2>2. order \in Surjection(1 .. n, S)
    BY <1>1, <1>3, <2>1, FS_Injection
  <2> QED BY <2>2 DEF Surjection
<1>7. ASSUME NEW i \in 1 .. n PROVE Cardinality({x \in S : x <= order[i]}) = i
  <2>1. PICK upTo : upTo = {x \in S : x <= order[i]}
    OBVIOUS
  <2>2. IsFiniteSet(1 .. i) /\ Cardinality(1 .. i) = i
    BY <1>1, FS_Interval
  <2>3. \A j \in 1 .. i : j \in 1 .. n /\ order[j] \in upTo
    <3> SUFFICES ASSUME NEW j \in 1 .. i PROVE j \in 1 .. n /\ order[j] \in upTo
      OBVIOUS
    <3>1. j \in 1 .. n /\ (j = i \/ j < i)
      BY <1>1
    <3> QED BY <1>2, <1>4, <2>1, <3>1
  <2>4. PICK f : f = [j \in 1 .. i |-> order[j]]
    OBVIOUS
  <2>5. f \in [1 .. i -> upTo] /\ \A j \in 1 .. i : f[j] = order[j]
    BY <2>3, <2>4
  <2>6. f \in Injection(1 .. i, upTo)
    BY <1>5, <2>3, <2>5 DEF Injection, IsInjective
  <2>7. \A x \in upTo : \E j \in 1 .. i : f[j] = x
    <3> SUFFICES ASSUME NEW x \in upTo PROVE \E j \in 1 .. i : f[j] = x
      OBVIOUS
    <3>1. x \in S /\ x <= order[i]
      BY <2>1
    <3>2. PICK j \in 1 .. n : order[j] = x
      BY <1>6, <3>1
    <3>3. ~(i < j)
      BY <1>2, <1>4, <3>1, <3>2
    <3>4. j \in 1 .. i
      BY <1>1, <3>3
    <3> QED BY <2>5, <3>2, <3>4
  <2>8. f \in Bijection(1 .. i, upTo)
    BY <2>5, <2>6, <2>7 DEF Bijection, Surjection
  <2>9. Cardinality(upTo) = Cardinality(1 .. i)
    BY <2>2, <2>8, FS_Bijection DEF ExistsBijection
  <2> QED BY <2>1, <2>2, <2>9
<1> QED BY <1>3, <1>6, <1>7

\* There is one such sequence only.
LEMMA ClimbsOnce ==
  ASSUME NEW S, IsFiniteSet(S), \A x \in S : x \in Nat, NEW s, Climbs(s, S), NEW t, Climbs(t, S)
  PROVE  s = t
<1>1. PICK n \in Nat : n = Cardinality(S)
  BY FS_CardinalityType
<1>2. s \in [1 .. n -> S] /\ t \in [1 .. n -> S]
  BY <1>1 DEF Climbs
<1>3. ASSUME NEW i \in 1 .. n PROVE s[i] = t[i]
  <2>1. /\ Cardinality({x \in S : x <= s[i]}) = i /\ Cardinality({x \in S : x <= t[i]}) = i
        /\ \A x \in S : \E j \in 1 .. n : t[j] = x
    BY <1>1, PlacesCount
  <2>2. PICK j \in 1 .. n : t[j] = s[i]
    BY <1>2, <2>1
  <2>3. Cardinality({x \in S : x <= t[j]}) = j
    BY <1>1, PlacesCount
  <2>4. j = i
    BY <2>1, <2>2, <2>3
  <2> QED BY <2>2, <2>4
<1> QED BY <1>2, <1>3

\* And there is one: number each element by those not above it.
LEMMA ClimbsExists ==
  ASSUME NEW S, IsFiniteSet(S), \A x \in S : x \in Nat
  PROVE  \E order : Climbs(order, S)
<1> DEFINE NotAbove(g) == {h \in S : h <= g}
           rank == [g \in S |-> Cardinality(NotAbove(g))]
<1>1. PICK n \in Nat : n = Cardinality(S) /\ IsFiniteSet(1 .. n) /\ Cardinality(1 .. n) = n
  BY FS_CardinalityType, FS_Interval
<1>2. ASSUME NEW g \in S
      PROVE  IsFiniteSet(NotAbove(g)) /\ Cardinality(NotAbove(g)) \in 1 .. n
  <2>1. NotAbove(g) \in SUBSET S /\ g \in NotAbove(g)
    OBVIOUS
  <2>2. IsFiniteSet(NotAbove(g)) /\ Cardinality(NotAbove(g)) <= n
    BY <1>1, <2>1, FS_Subset
  <2>3. Cardinality(NotAbove(g)) \in Nat /\ Cardinality(NotAbove(g)) # 0
    BY <2>1, <2>2, FS_CardinalityType, FS_EmptySet
  <2> HIDE DEF NotAbove
  <2> QED BY <1>1, <2>2, <2>3
<1>3. ASSUME NEW g \in S, NEW h \in S, g < h
      PROVE  Cardinality(NotAbove(g)) < Cardinality(NotAbove(h))
  <2>1. NotAbove(g) \in SUBSET NotAbove(h) /\ h \in NotAbove(h) /\ h \notin NotAbove(g)
    <3>1. \A x \in S : x <= g => x <= h
      BY <1>3
    <3>2. h <= h /\ ~(h <= g)
      BY <1>3
    <3> QED BY <3>1, <3>2
  <2>2. /\ Cardinality(NotAbove(g)) <= Cardinality(NotAbove(h))
        /\ Cardinality(NotAbove(g)) # Cardinality(NotAbove(h))
    BY <1>2, <2>1, FS_Subset
  <2>3. Cardinality(NotAbove(h)) \in 1 .. n /\ Cardinality(NotAbove(g)) \in 1 .. n
    BY <1>2
  <2> HIDE DEF NotAbove
  <2> QED BY <2>2, <2>3
<1>4. rank \in [S -> 1 .. n]
  BY <1>2
<1>5. \A g, h \in S : rank[g] = rank[h] => g = h
  <2> SUFFICES ASSUME NEW g \in S, NEW h \in S, g # h PROVE rank[g] # rank[h]
    OBVIOUS
  <2>1. g < h \/ h < g
    OBVIOUS
  <2>2. rank[g] = Cardinality(NotAbove(g)) /\ rank[h] = Cardinality(NotAbove(h))
    OBVIOUS
  <2>3. rank[g] \in 1 .. n /\ rank[h] \in 1 .. n
    BY <1>4
  <2> HIDE DEF NotAbove, rank
  <2> QED BY <1>3, <2>1, <2>2, <2>3
<1> HIDE DEF rank
<1>6. \A i \in 1 .. n : \E g \in S : rank[g] = i
  <2>1. rank \in Injection(S, 1 .. n)
    BY <1>4, <1>5 DEF Injection, IsInjective
  <2>2. rank \in Surjection(S, 1 .. n)
    BY <1>1, <2>1, FS_Injection
  <2> QED BY <2>2 DEF Surjection
<1> DEFINE order == [i \in 1 .. n |-> CHOOSE g \in S : rank[g] = i]
<1>7. \A i \in 1 .. n : order[i] \in S /\ rank[order[i]] = i
  BY <1>6
<1>8. order \in [1 .. n -> S]
  BY <1>7
<1> HIDE DEF order
<1>9. ASSUME NEW i \in 1 .. n, NEW j \in 1 .. n, i < j PROVE order[i] < order[j]
  <2>1. order[i] \in S /\ order[j] \in S /\ rank[order[i]] = i /\ rank[order[j]] = j
    BY <1>7
  <2>2. order[i] \in Nat /\ order[j] \in Nat /\ order[i] # order[j]
    BY <1>9, <2>1
  <2>3. CASE order[j] < order[i]
    <3>1. rank[order[j]] < rank[order[i]]
      BY <1>3, <2>1, <2>3 DEF rank
    <3> QED BY <1>9, <2>1, <3>1
  <2> QED BY <2>2, <2>3
<1> QED BY <1>1, <1>8, <1>9 DEF Climbs

\* What a query in time order returns, and one in the reverse order.
LEMMA AscendingClimbs ==
  ASSUME NEW S, IsFiniteSet(S), \A x \in S : x \in Nat
  PROVE  Climbs(Ascending(S), S)
<1>1. PICK order : Climbs(order, S)
  BY ClimbsExists
<1>2. PICK n \in Nat : n = Cardinality(S)
  BY FS_CardinalityType
<1>3. order \in [1 .. n -> S] /\ \A i, j \in 1 .. n : i < j => order[i] < order[j]
  BY <1>1, <1>2 DEF Climbs
<1>4. order \in SetToSeqs(S)
  <2> SUFFICES ASSUME NEW i \in 1 .. n, NEW j \in 1 .. n, i # j PROVE order[i] # order[j]
    BY <1>2, <1>3 DEF SetToSeqs
  <2>1. order[i] \in Nat /\ order[j] \in Nat /\ (i < j \/ j < i)
    BY <1>3
  <2> QED BY <1>3, <2>1
<1>5. \E s \in SetToSeqs(S) : \A i, j \in DOMAIN s : i < j => s[i] < s[j]
  BY <1>3, <1>4
<1>6. PICK s : s = Ascending(S)
  OBVIOUS
<1>7. s \in SetToSeqs(S) /\ \A i, j \in DOMAIN s : i < j => s[i] < s[j]
  BY <1>5, <1>6 DEF Ascending
<1>8. s \in [1 .. n -> S]
  BY <1>2, <1>7 DEF SetToSeqs
<1> QED BY <1>2, <1>6, <1>7, <1>8 DEF Climbs

LEMMA DescendingFalls ==
  ASSUME NEW S, IsFiniteSet(S), \A x \in S : x \in Nat
  PROVE  /\ Descending(S) \in [1 .. Cardinality(S) -> S]
         /\ \A i, j \in 1 .. Cardinality(S) : i < j => Descending(S)[i] > Descending(S)[j]
<1>1. PICK up : Climbs(up, S)
  BY ClimbsExists
<1>2. PICK n \in Nat : n = Cardinality(S)
  BY FS_CardinalityType
<1>3. up \in [1 .. n -> S] /\ \A i, j \in 1 .. n : i < j => up[i] < up[j]
  BY <1>1, <1>2 DEF Climbs
<1>4. PICK down : down = [i \in 1 .. n |-> up[n - i + 1]]
  OBVIOUS
<1>5. \A i \in 1 .. n : n - i + 1 \in 1 .. n
  OBVIOUS
<1>6. down \in [1 .. n -> S] /\ DOMAIN down = 1 .. n
  BY <1>3, <1>4, <1>5
<1>7. ASSUME NEW i \in 1 .. n, NEW j \in 1 .. n, i < j PROVE down[i] > down[j]
  <2>1. n - j + 1 < n - i + 1
    BY <1>7
  <2>2. up[n - j + 1] < up[n - i + 1]
    BY <1>3, <1>5, <2>1
  <2>3. down[i] = up[n - i + 1] /\ down[j] = up[n - j + 1] /\ down[i] \in Nat /\ down[j] \in Nat
    BY <1>4, <1>6
  <2> QED BY <2>2, <2>3
<1>8. down \in SetToSeqs(S)
  <2> SUFFICES ASSUME NEW i \in 1 .. n, NEW j \in 1 .. n, i # j PROVE down[i] # down[j]
    BY <1>2, <1>6 DEF SetToSeqs
  <2>1. down[i] \in Nat /\ down[j] \in Nat /\ (i < j \/ j < i)
    BY <1>6
  <2> QED BY <1>7, <2>1
<1>9. \E s \in SetToSeqs(S) : \A i, j \in DOMAIN s : i < j => s[i] > s[j]
  BY <1>6, <1>7, <1>8
<1>10. PICK s : s = Descending(S)
  OBVIOUS
<1>11. s \in SetToSeqs(S) /\ \A i, j \in DOMAIN s : i < j => s[i] > s[j]
  BY <1>9, <1>10 DEF Descending
<1>12. s \in [1 .. n -> S]
  BY <1>2, <1>11 DEF SetToSeqs
<1> QED BY <1>2, <1>10, <1>11, <1>12

(* What the queries find: only rows of their tables, as many as were written.     *)
Rows == ({"bar", "tick"} \X RowTimes) \cup {<<"state", 0>>}
IsFinite(table) == IsFiniteSet(DOMAIN table) /\ DOMAIN table \subseteq Rows
RowsKnown == IsFinite(rows) /\ IsFinite(disk)

LEMMA StoredIsFinite ==
  ASSUME NEW table, IsFinite(table), NEW r \in Rows, NEW value
  PROVE  IsFinite(Stored(table, r, value))
<1>1. DOMAIN Stored(table, r, value) = DOMAIN table \cup {r}
  BY DEF Stored
<1>2. IsFiniteSet(DOMAIN table \cup {r})
  BY FS_AddElement DEF IsFinite
<1> QED BY <1>1, <1>2 DEF IsFinite

LEMMA WithoutIsFinite ==
  ASSUME NEW table, IsFinite(table), NEW gone
  PROVE  IsFinite(Without(table, gone))
<1>1. DOMAIN Without(table, gone) = DOMAIN table \ gone
  BY DEF Without
<1>2. IsFiniteSet(DOMAIN table \ gone)
  BY FS_Subset DEF IsFinite
<1> QED BY <1>1, <1>2 DEF IsFinite

LEMMA RowsStart == DatabaseInit => RowsKnown
<1>1. DOMAIN NoRows = {}
  BY DEF NoRows
<1> QED BY <1>1, FS_EmptySet DEF DatabaseInit, RowsKnown, IsFinite

\* Every step leaves each of the two as it was, as the other was, or as a statement made it.
LEMMA RowsKeep == ASSUME StoreInv, RowsKnown, [DatabaseNext]_databaseVars PROVE RowsKnown'
<1>1. ASSUME NEW after, NEW touched, NEW acknowledged, IsFinite(after),
             Executed(after, touched, acknowledged)
      PROVE  RowsKnown'
  <2>1. rows' = after /\ (disk' = after \/ disk' = disk)
    BY <1>1 DEF Executed
  <2> QED BY <1>1, <2>1 DEF RowsKnown
<1>2. ASSUME NEW c \in Clients, NEW r \in Rows, SaveRow(c, r) PROVE RowsKnown'
  <2>1. PICK value : Executed(Stored(rows, r, value), {r}, Stored(NoRows, r, value))
    BY <1>2 DEF SaveRow
  <2> QED BY <1>1, <2>1, StoredIsFinite DEF RowsKnown
<1>3. ASSUME NEW c \in Clients, NEW table, DeleteTable(c, table) PROVE RowsKnown'
  <2>1. PICK gone : Executed(Without(rows, gone), gone, NoRows)
    BY <1>3 DEF DeleteTable
  <2> QED BY <1>1, <2>1, WithoutIsFinite DEF RowsKnown
<1>4. ASSUME NEW c \in Clients, SaveNext(c) PROVE RowsKnown'
  <2>1. PICK left \in Seq({"bar", "tick"} \X RowTimes) : left = client[c].left
    BY DEF StoreInv, ClientsInv
  <2>2. left # << >>
    BY <1>4, <2>1 DEF SaveNext
  <2>3. Head(left) \in Rows
    BY <2>1, <2>2 DEF Rows
  <2>4. Executed(Stored(rows, Head(left), client[c].call), {Head(left)}, NoRows)
    BY <1>4, <2>1 DEF SaveNext
  <2> QED BY <1>1, <2>3, <2>4, StoredIsFinite DEF RowsKnown
<1>5. ASSUME rows' \in {rows, disk}, disk' \in {rows, disk} PROVE RowsKnown'
  BY <1>5 DEF RowsKnown
<1>6. ASSUME NEW c \in Clients,
             \/ SingleFails(c)
             \/ \E times \in Batches : SaveBars(c, times) \/ SaveTicks(c, times)
             \/ \E time \in RowTimes : OwnTransaction(c, time)
             \/ SaveNextFails(c) \/ Commit(c) \/ CommitFails(c) \/ Rollback(c)
      PROVE  RowsKnown'
  BY <1>5, <1>6 DEF SaveBars, SaveTicks, OwnTransaction, SingleFails, Begin, SaveNextFails, Commit, CommitFails, Rollback, RolledBack
<1>7. CASE Crash \/ UNCHANGED databaseVars
  BY <1>5, <1>7 DEF Crash, RolledBack, databaseVars
<1>8. ASSUME NEW c \in Clients, NEW time \in RowTimes, SaveBar(c, time) \/ SaveTick(c, time)
      PROVE  RowsKnown'
  <2>1. <<"bar", time>> \in Rows /\ <<"tick", time>> \in Rows
    BY DEF Rows
  <2> QED BY <1>2, <1>8, <2>1 DEF SaveBar, SaveTick
<1>9. ASSUME NEW c \in Clients, SaveStrategyState(c) \/ DeleteBars(c) \/ DeleteStrategyState(c)
      PROVE  RowsKnown'
  <2>1. <<"state", 0>> \in Rows
    BY DEF Rows
  <2> QED BY <1>2, <1>3, <1>9, <2>1 DEF SaveStrategyState, DeleteBars, DeleteStrategyState
<1>10. CASE DatabaseNext
  BY <1>4, <1>6, <1>7, <1>8, <1>9, <1>10 DEF DatabaseNext
<1> QED BY <1>7, <1>10

LEMMA TimesKnown ==
  ASSUME RowsKnown, NEW table \in {"bar", "tick"}
  PROVE  IsFiniteSet(TimesOf(table)) /\ \A t \in TimesOf(table) : t \in Nat
<1>1. PICK own : own = {r \in DOMAIN rows : r[1] = table}
  OBVIOUS
<1>2. IsFiniteSet(own)
  BY <1>1, FS_Subset DEF RowsKnown, IsFinite
<1>3. TimesOf(table) = {r[2] : r \in own}
  BY <1>1 DEF TimesOf
<1>4. IsFiniteSet({r[2] : r \in own})
  <2>1. PICK image : image = {r[2] : r \in own}
    OBVIOUS
  <2>2. PICK f : f = [r \in own |-> r[2]]
    OBVIOUS
  <2>3. f \in Surjection(own, image)
    BY <2>1, <2>2 DEF Surjection
  <2> QED BY <1>2, <2>1, <2>3, FS_Surjection
<1>5. ASSUME NEW r \in own PROVE r[2] \in Nat
  <2>1. r \in Rows /\ r[1] = table
    BY <1>1 DEF RowsKnown, IsFinite
  <2>2. r \in {"bar", "tick"} \X RowTimes
    BY <2>1 DEF Rows
  <2> QED BY <2>2, DatabaseAssumption
<1> QED BY <1>3, <1>4, <1>5

\* The range, the limit and the overview of a table, whatever times it holds.
LEMMA TableAgrees ==
  ASSUME RowsKnown, NEW table \in {"bar", "tick"}, TimesOf(table) # {}
  PROVE  /\ LoadByTime(table, Overview(table).start, Overview(table).end)
              = LoadLatest(table, Overview(table).count)
         /\ LoadLatest(table, 1) = LoadByTime(table, Overview(table).end, Overview(table).end)
<1>1. PICK S : S = TimesOf(table)
  OBVIOUS
<1>2. IsFiniteSet(S) /\ (\A x \in S : x \in Nat) /\ S # {}
  BY <1>1, TimesKnown
<1>3. PICK n \in Nat : n = Cardinality(S) /\ n >= 1
  BY <1>2, FS_CardinalityType, FS_EmptySet
<1>4. PICK up : up = Ascending(S)
  OBVIOUS
<1>5. PICK down : down = Descending(S)
  OBVIOUS
<1>6. Climbs(up, S) /\ up \in [1 .. n -> S] /\ \A i, j \in 1 .. n : i < j => up[i] < up[j]
  BY <1>2, <1>3, <1>4, AscendingClimbs DEF Climbs
<1>7. down \in [1 .. n -> S] /\ \A i, j \in 1 .. n : i < j => down[i] > down[j]
  BY <1>2, <1>3, <1>5, DescendingFalls
<1>8. up \in Seq(S) /\ Len(up) = n /\ down \in Seq(S) /\ Len(down) = n
  BY <1>6, <1>7
<1>9. PICK start, end : start = up[1] /\ end = up[n]
  OBVIOUS
<1>10. Overview(table) = [count |-> n, start |-> start, end |-> end]
  <2>1. Head(up) = up[1] /\ Last(up) = up[n]
    BY <1>3, <1>8 DEF Last
  <2> QED BY <1>1, <1>4, <1>8, <1>9, <2>1 DEF Overview
<1>11. /\ start \in S /\ end \in S /\ start \in Nat /\ end \in Nat
       /\ \A x \in S : start <= x /\ x <= end
  <2>1. 1 \in 1 .. n /\ n \in 1 .. n
    BY <1>3
  <2>2. start \in S /\ end \in S
    BY <1>6, <1>9, <2>1
  <2>3. ASSUME NEW x \in S PROVE start <= x /\ x <= end
    <3>1. PICK i \in 1 .. n : up[i] = x
      BY <1>2, <1>3, <1>6, PlacesCount
    <3>2. i = 1 \/ 1 < i
      BY <3>1
    <3>3. i = n \/ i < n
      BY <3>1
    <3>4. start <= x
      BY <1>2, <1>6, <1>9, <2>1, <2>2, <3>1, <3>2
    <3>5. x <= end
      BY <1>2, <1>6, <1>9, <2>1, <2>2, <3>1, <3>3
    <3> QED BY <3>4, <3>5
  <2> QED BY <1>2, <2>2, <2>3
<1>12. LoadByTime(table, start, end) = up
  <2>1. {t \in S : start <= t /\ t <= end} = S
    BY <1>11
  <2> QED BY <1>1, <1>4, <2>1 DEF LoadByTime
<1>13. PICK turned : turned = [i \in 1 .. n |-> down[(n - i) + 1]]
  OBVIOUS
<1>14. turned = up
  <2>1. \A i \in 1 .. n : (n - i) + 1 \in 1 .. n
    OBVIOUS
  <2>2. turned \in [1 .. n -> S]
    BY <1>7, <1>13, <2>1
  <2>3. ASSUME NEW i \in 1 .. n, NEW j \in 1 .. n, i < j PROVE turned[i] < turned[j]
    <3>1. (n - j) + 1 < (n - i) + 1
      BY <2>3
    <3>2. down[(n - j) + 1] > down[(n - i) + 1]
      BY <1>7, <2>1, <3>1
    <3>3. turned[i] = down[(n - i) + 1] /\ turned[j] = down[(n - j) + 1]
          /\ turned[i] \in Nat /\ turned[j] \in Nat
      BY <1>2, <1>13, <2>2
    <3> QED BY <3>2, <3>3
  <2>4. Climbs(turned, S)
    BY <1>3, <2>2, <2>3 DEF Climbs
  <2> QED BY <1>2, <1>6, <2>4, ClimbsOnce
<1>15. LoadLatest(table, n) = up
  <2>1. SubSeq(down, 1, n) = down
    BY <1>3, <1>8
  <2>2. Reverse(down) = turned
    BY <1>8, <1>13 DEF Reverse
  <2>3. LoadLatest(table, n) = Reverse(SubSeq(down, 1, n))
    BY <1>1, <1>5, <1>8 DEF LoadLatest
  <2> QED BY <1>14, <2>1, <2>2, <2>3
<1>16. LoadLatest(table, 1) = [i \in 1 .. 1 |-> end]
  <2>1. down[1] = end
    <3>1. up[n] = down[(n - n) + 1] /\ (n - n) + 1 = 1
      BY <1>3, <1>13, <1>14
    <3> QED BY <1>9, <3>1
  <2>2. PICK one : one = SubSeq(down, 1, 1)
    OBVIOUS
  <2>3. Len(one) = 1 /\ one[1] = end
    BY <1>3, <1>8, <2>1, <2>2
  <2>4. Reverse(one) = [i \in 1 .. 1 |-> end]
    BY <2>3 DEF Reverse
  <2>5. LoadLatest(table, 1) = Reverse(SubSeq(down, 1, IF 1 < n THEN 1 ELSE n))
    BY <1>1, <1>5, <1>8 DEF LoadLatest
  <2>6. (IF 1 < n THEN 1 ELSE n) = 1
    BY <1>3
  <2> QED BY <2>2, <2>4, <2>5, <2>6
<1>17. LoadByTime(table, end, end) = [i \in 1 .. 1 |-> end]
  <2>1. {t \in S : end <= t /\ t <= end} = {end}
    <3>1. \A t \in S : end <= t /\ t <= end => t = end
      BY <1>2, <1>11
    <3>2. end <= end
      BY <1>11
    <3> QED BY <1>11, <3>1, <3>2
  <2>2. LoadByTime(table, end, end) = Ascending({end})
    BY <1>1, <2>1 DEF LoadByTime
  <2>3. IsFiniteSet({end}) /\ Cardinality({end}) = 1
    BY FS_Singleton
  <2>4. PICK only : only = [i \in 1 .. 1 |-> end]
    OBVIOUS
  <2>5. Climbs(only, {end})
    BY <2>3, <2>4 DEF Climbs
  <2>6. Climbs(Ascending({end}), {end})
    BY <1>11, <2>3, AscendingClimbs
  <2>7. Ascending({end}) = only
    BY <1>11, <2>3, <2>5, <2>6, ClimbsOnce
  <2> QED BY <2>2, <2>4, <2>7
<1>18. Overview(table).start = start /\ Overview(table).end = end /\ Overview(table).count = n
  BY <1>10
<1> QED BY <1>12, <1>15, <1>16, <1>17, <1>18

LEMMA QueriesSeeAll == ASSUME RowsKnown PROVE QueriesAgree
<1>1. ASSUME TimesOf("bar") # {}
      PROVE  /\ LoadBarsByTime(BarOverview.start, BarOverview.end) = LoadBars(BarOverview.count)
             /\ LoadBars(1) = LoadBarsByTime(BarOverview.end, BarOverview.end)
  BY <1>1, TableAgrees DEF LoadBarsByTime, LoadBars, BarOverview
<1>2. ASSUME TimesOf("tick") # {}
      PROVE  /\ LoadTicksByTime(TickOverview.start, TickOverview.end) = LoadTicks(TickOverview.count)
             /\ LoadTicks(1) = LoadTicksByTime(TickOverview.end, TickOverview.end)
  BY <1>2, TableAgrees DEF LoadTicksByTime, LoadTicks, TickOverview
<1> QED BY <1>1, <1>2 DEF QueriesAgree

\* What save_*() acknowledged outside anybody else's transaction lasts through failures
\* and crashes, nothing of a batch that returned 0 is on disk but for the batches whose
\* transaction another thread or SQLite ended, an idle database holds nothing back, and
\* the three queries of a table return the same rows: for any number of threads, rows,
\* calls and crashes.
THEOREM Durability == Spec => []StoreSurvives
<1>1. Init => StoreInv /\ RowsKnown
  BY StoreStarts, RowsStart DEF Init
<1>2. StoreInv /\ RowsKnown /\ [Next]_mcVars => StoreInv' /\ RowsKnown'
  <2> SUFFICES ASSUME StoreInv, RowsKnown, [Next]_mcVars PROVE StoreInv' /\ RowsKnown'
    OBVIOUS
  <2>1. [DatabaseNext]_databaseVars
    BY DatabaseAlone
  <2>2. StoreInv'
    BY <2>1, StoreKeeps
  <2>3. RowsKnown'
    BY <2>1, RowsKeep
  <2> QED BY <2>2, <2>3
<1>3. StoreInv /\ RowsKnown => StoreSurvives
  BY StoreLasts, QueriesSeeAll DEF StoreSurvives
<1> QED BY <1>1, <1>2, <1>3, PTL DEF Spec


------------------------------------------------------------------------------
(* Lists *)

\* Where the elements of a \o b come from.
LEMMA Concatenation ==
  ASSUME NEW S, NEW a \in Seq(S), NEW b \in Seq(S)
  PROVE  /\ a \o b \in Seq(S) /\ Len(a \o b) = Len(a) + Len(b)
         /\ \A i \in 1 .. Len(a) : (a \o b)[i] = a[i]
         /\ \A i \in 1 .. Len(b) : (a \o b)[Len(a) + i] = b[i]
<1>1. a \o b \in Seq(S) /\ Len(a \o b) = Len(a) + Len(b) /\ Len(a) \in Nat /\ Len(b) \in Nat
  OBVIOUS
<1>2. \A i \in 1 .. Len(a) : (a \o b)[i] = a[i]
  OBVIOUS
<1>3. \A i \in 1 .. Len(b) : (a \o b)[Len(a) + i] = b[i]
  BY <1>1
<1> QED
  BY <1>1, <1>2, <1>3

LEMMA RangeOfConcatenation ==
  ASSUME NEW S, NEW a \in Seq(S), NEW b \in Seq(S)
  PROVE  Range(a \o b) = Range(a) \cup Range(b)
<1>1. a \o b \in Seq(S) /\ Len(a \o b) = Len(a) + Len(b) /\ Len(a) \in Nat /\ Len(b) \in Nat
  BY Concatenation
<1>2. \A i \in 1 .. Len(a) : (a \o b)[i] = a[i]
  BY Concatenation
<1>3. \A i \in 1 .. Len(b) : (a \o b)[Len(a) + i] = b[i]
  BY Concatenation
<1>4. ASSUME NEW x \in Range(a \o b) PROVE x \in Range(a) \cup Range(b)
  <2>1. PICK i \in 1 .. Len(a) + Len(b) : x = (a \o b)[i]
    BY <1>1 DEF Range
  <2>2. CASE i <= Len(a)
    BY <1>1, <1>2, <2>1, <2>2 DEF Range
  <2>3. CASE i > Len(a)
    <3>1. i - Len(a) \in 1 .. Len(b) /\ Len(a) + (i - Len(a)) = i
      BY <1>1, <2>1, <2>3
    <3>2. x = b[i - Len(a)]
      BY <1>3, <2>1, <3>1
    <3> QED
      BY <3>1, <3>2 DEF Range
  <2> QED
    BY <1>1, <2>1, <2>2, <2>3
<1>5. ASSUME NEW x \in Range(a) PROVE x \in Range(a \o b)
  <2>1. PICK i \in 1 .. Len(a) : x = a[i]
    BY DEF Range
  <2>2. i \in DOMAIN (a \o b)
    BY <1>1, <2>1
  <2>3. x = (a \o b)[i]
    BY <1>2, <2>1
  <2> QED
    BY <2>2, <2>3 DEF Range
<1>6. ASSUME NEW x \in Range(b) PROVE x \in Range(a \o b)
  <2>1. PICK i \in 1 .. Len(b) : x = b[i]
    BY DEF Range
  <2>2. Len(a) + i \in DOMAIN (a \o b)
    BY <1>1, <2>1
  <2>3. x = (a \o b)[Len(a) + i]
    BY <1>3, <2>1
  <2> QED
    BY <2>2, <2>3 DEF Range
<1> QED
  BY <1>4, <1>5, <1>6

LEMMA EmptyList == Range(<<>>) = {} /\ IsInjective(<<>>)
<1>1. DOMAIN <<>> = {}
  OBVIOUS
<1> QED
  BY <1>1 DEF Range, IsInjective

LEMMA AppendToDistinct ==
  ASSUME NEW S, NEW list \in Seq(S), IsInjective(list), NEW name \in S, name \notin Range(list)
  PROVE  /\ Append(list, name) \in Seq(S) /\ IsInjective(Append(list, name)) /\ Append(list, name) # <<>>
         /\ Range(Append(list, name)) = Range(list) \cup {name}
<1> DEFINE n == Len(list)
           longer == Append(list, name)
<1>1. n \in Nat /\ longer \in Seq(S) /\ Len(longer) = n + 1 /\ longer[n + 1] = name
      /\ \A i \in 1 .. n : longer[i] = list[i]
  OBVIOUS
<1>2. DOMAIN longer = 1 .. n + 1 /\ DOMAIN list = 1 .. n
  BY <1>1
<1> HIDE DEF longer
<1>3. \A i \in 1 .. n : list[i] # name
  BY <1>2 DEF Range
<1>4. IsInjective(longer)
  <2> SUFFICES ASSUME NEW a \in 1 .. n + 1, NEW b \in 1 .. n + 1, longer[a] = longer[b] PROVE a = b
    BY <1>2 DEF IsInjective
  <2>1. CASE a \in 1 .. n /\ b \in 1 .. n
    BY <1>1, <1>2, <2>1 DEF IsInjective
  <2>2. CASE ~(a \in 1 .. n /\ b \in 1 .. n)
    BY <1>1, <1>3, <2>2
  <2> QED
    BY <2>1, <2>2
<1>5. Range(longer) = Range(list) \cup {name}
  <2>1. ASSUME NEW i \in 1 .. n + 1 PROVE longer[i] \in Range(list) \cup {name}
    <3>1. CASE i = n + 1
      BY <1>1, <3>1
    <3>2. CASE i # n + 1
      BY <1>1, <1>2, <3>2 DEF Range
    <3> QED
      BY <3>1, <3>2
  <2>2. ASSUME NEW i \in 1 .. n PROVE list[i] \in Range(longer)
    <3>1. i \in 1 .. n + 1 /\ longer[i] = list[i]
      BY <1>1
    <3> QED
      BY <1>2, <3>1 DEF Range
  <2>3. name \in Range(longer)
    BY <1>1, <1>2 DEF Range
  <2> QED
    BY <1>2, <2>1, <2>2, <2>3 DEF Range
<1>6. longer # <<>>
  BY <1>1
<1> QED
  BY <1>1, <1>4, <1>5, <1>6 DEF longer

\* A name goes out of a list it is in once, and the others stay.
LEMMA RemoveFirstOfDistinct ==
  ASSUME NEW S, NEW list \in Seq(S), IsInjective(list), NEW name \in Range(list)
  PROVE  /\ RemoveFirst(list, name) \in Seq(S) /\ IsInjective(RemoveFirst(list, name))
         /\ Range(RemoveFirst(list, name)) = Range(list) \ {name}
<1> DEFINE n == Len(list)
<1>1. PICK p \in 1 .. n : list[p] = name
  BY DEF Range
<1>2. \A i \in 1 .. n : list[i] = name => i = p
  BY <1>1 DEF IsInjective
<1>3. RemoveFirst(list, name) = RemoveAt(list, p)
  <2>1. {i \in 1 .. n : list[i] = name} = {p}
    BY <1>1, <1>2
  <2>2. Min({p}) = p
    BY <1>1 DEF Min
  <2>3. SelectInSeq(list, LAMBDA v : v = name) = p
    BY <2>1, <2>2 DEF SelectInSeq
  <2> QED
    BY <1>1, <2>3 DEF RemoveFirst
<1> DEFINE left == RemoveAt(list, p)
<1>4. n \in Nat /\ p \in Nat
  BY <1>1
<1>5. /\ left \in Seq(S) /\ Len(left) = n - 1
      /\ \A j \in 1 .. n - 1 : left[j] = list[IF j < p THEN j ELSE j + 1]
  <2>1. SubSeq(list, 1, p - 1) \in Seq(S) /\ Len(SubSeq(list, 1, p - 1)) = p - 1
        /\ \A j \in 1 .. p - 1 : SubSeq(list, 1, p - 1)[j] = list[j]
    BY <1>1, <1>4
  <2>2. SubSeq(list, p + 1, n) \in Seq(S) /\ Len(SubSeq(list, p + 1, n)) = n - p
        /\ \A j \in 1 .. n - p : SubSeq(list, p + 1, n)[j] = list[p + j]
    BY <1>1, <1>4
  <2>3. PICK before \in Seq(S), after \in Seq(S) :
          /\ before = SubSeq(list, 1, p - 1) /\ after = SubSeq(list, p + 1, n)
    BY <2>1, <2>2
  <2>4. left = before \o after
    BY <2>3 DEF RemoveAt
  <2> HIDE DEF left
  <2>5. /\ left \in Seq(S) /\ Len(left) = Len(before) + Len(after)
        /\ \A j \in 1 .. Len(before) : left[j] = before[j]
        /\ \A j \in 1 .. Len(after) : left[Len(before) + j] = after[j]
    BY <2>4, Concatenation
  <2>6. Len(before) = p - 1 /\ Len(after) = n - p
    BY <2>1, <2>2, <2>3
  <2>7. ASSUME NEW j \in 1 .. n - 1 PROVE left[j] = list[IF j < p THEN j ELSE j + 1]
    <3>1. CASE j < p
      <4>1. j \in 1 .. p - 1 /\ j \in 1 .. Len(before)
        BY <1>1, <1>4, <2>6, <3>1
      <4>2. left[j] = list[j]
        BY <2>1, <2>3, <2>5, <4>1
      <4> QED
        BY <3>1, <4>2
    <3>2. CASE j >= p
      <4>1. j - (p - 1) \in 1 .. n - p /\ (p - 1) + (j - (p - 1)) = j /\ p + (j - (p - 1)) = j + 1
        BY <1>1, <1>4, <3>2
      <4>2. left[j] = after[j - (p - 1)]
        BY <2>5, <2>6, <4>1
      <4> QED
        BY <1>4, <2>2, <2>3, <3>2, <4>1, <4>2
    <3> QED
      BY <1>1, <1>4, <3>1, <3>2
  <2>8. Len(left) = n - 1
    BY <1>1, <1>4, <2>5, <2>6
  <2> QED
    BY <2>5, <2>7, <2>8
<1> HIDE DEF left
<1>6. DOMAIN left = 1 .. n - 1 /\ DOMAIN list = 1 .. n
  BY <1>5
<1>7. IsInjective(left)
  <2> SUFFICES ASSUME NEW a \in 1 .. n - 1, NEW b \in 1 .. n - 1, left[a] = left[b] PROVE a = b
    BY <1>6 DEF IsInjective
  <2> DEFINE from(j) == IF j < p THEN j ELSE j + 1
  <2>1. from(a) \in 1 .. n /\ from(b) \in 1 .. n /\ list[from(a)] = list[from(b)]
    BY <1>4, <1>5
  <2>2. from(a) = from(b)
    BY <1>6, <2>1 DEF IsInjective
  <2> QED
    BY <1>4, <2>2
<1>8. Range(left) = Range(list) \ {name}
  <2>1. ASSUME NEW j \in 1 .. n - 1 PROVE left[j] \in Range(list) \ {name}
    <3> DEFINE i == IF j < p THEN j ELSE j + 1
    <3>1. i \in 1 .. n /\ i # p /\ left[j] = list[i]
      BY <1>4, <1>5
    <3> QED
      BY <1>2, <1>6, <3>1 DEF Range
  <2>2. ASSUME NEW i \in 1 .. n, list[i] # name PROVE list[i] \in Range(left)
    <3> DEFINE j == IF i < p THEN i ELSE i - 1
    <3>1. i # p
      BY <1>1, <2>2
    <3>2. j \in 1 .. n - 1 /\ left[j] = list[i]
      BY <1>1, <1>4, <1>5, <3>1
    <3> QED
      BY <1>6, <3>2 DEF Range
  <2> QED
    BY <1>6, <2>1, <2>2 DEF Range
<1> QED
  BY <1>3, <1>5, <1>7, <1>8 DEF left

------------------------------------------------------------------------------
(* The strategy manager's maps *)

Wrapper ==
  [symbol : DataSymbols, status : {"CREATED", "READY", "RUNNING", "STOPPED", "ERROR"},
   inited : BOOLEAN, trading : BOOLEAN, active : SUBSET (StrategyNames \X Nat), trades : Nat, serial : Nat]
Present(wrappers, sender) == sender[1] \in DOMAIN wrappers /\ wrappers[sender[1]].serial = sender[2]
IdsOf(sender, k) == {ManagerId(sender[1], k), BrokerId(k)}

ManagerTyped ==
  /\ DOMAIN strategies \subseteq StrategyNames /\ strategies \in [DOMAIN strategies -> Wrapper]
  /\ nextOrderId \in Nat /\ added \in Nat
  /\ sentBy \in Seq(StrategyNames \X Nat) /\ Len(sentBy) = nextOrderId
  /\ \A n \in DOMAIN strategies : strategies[n].serial <= added
  /\ \A k \in DOMAIN sentBy : sentBy[k][2] <= added
ListsInv ==
  /\ \A n \in DOMAIN strategies : strategies[n].symbol # "" => strategies[n].symbol \in DOMAIN symbolMap
  /\ \A s \in DOMAIN symbolMap :
       /\ symbolMap[s] \in Seq(StrategyNames) /\ symbolMap[s] # <<>> /\ IsInjective(symbolMap[s])
       /\ s # "" /\ Range(symbolMap[s]) = {n \in DOMAIN strategies : strategies[n].symbol = s}
\* Whose an order is, for as long as the strategy that sent it is there.
OwnerInv ==
  /\ \A id \in DOMAIN orderMap : \E k \in DOMAIN sentBy : id \in IdsOf(sentBy[k], k)
  /\ \A k \in DOMAIN sentBy :
       /\ Present(strategies, sentBy[k]) =>
            \A id \in IdsOf(sentBy[k], k) : id \in DOMAIN orderMap /\ orderMap[id] = sentBy[k][1]
       /\ IdsOf(sentBy[k], k) \cap DOMAIN orderMap # {} => Present(strategies, sentBy[k])
RestingInv ==
  \A k \in DOMAIN sentBy :
    Present(strategies, sentBy[k]) /\ k \notin unheard =>
      k \in brokerOpen /\ ManagerId(sentBy[k][1], k) \in strategies[sentBy[k][1]].active
StatesInv ==
  \A n \in DOMAIN strategies :
    /\ strategies[n].trading <=> strategies[n].status = "RUNNING"
    /\ \A id \in strategies[n].active : id \in DOMAIN orderMap /\ orderMap[id] = n
RoutingInv == ManagerTyped /\ ListsInv /\ OwnerInv /\ RestingInv /\ StatesInv

LEMMA RoutingStarts == RoutingInit => RoutingInv
<1> SUFFICES ASSUME RoutingInit PROVE RoutingInv
  OBVIOUS
<1>1. /\ DOMAIN strategies = {} /\ strategies \in [{} -> Wrapper] /\ DOMAIN symbolMap = {} /\ DOMAIN orderMap = {}
      /\ nextOrderId = 0 /\ added = 0 /\ sentBy = <<>>
  BY DEF RoutingInit, NoStrategies
<1>2. ManagerTyped
  BY <1>1 DEF ManagerTyped
<1> QED
  BY <1>1, <1>2 DEF RoutingInv, ListsInv, OwnerInv, RestingInv, StatesInv

------------------------------------------------------------------------------

\* The lists follow who is there and for which symbol.
LEMMA AddKeepsLists ==
  ASSUME RoutingInv, NEW name \in StrategyNames, NEW symbol \in DataSymbols, AddStrategy(name, symbol)
  PROVE  ListsInv'
<1>1. ManagerTyped /\ ListsInv
  BY DEF RoutingInv
<1> DEFINE new == [symbol |-> symbol, status |-> "CREATED", inited |-> FALSE,
                   trading |-> FALSE, active |-> {}, trades |-> 0, serial |-> added + 1]
           before == IF symbol \in DOMAIN symbolMap THEN symbolMap[symbol] ELSE <<>>
           list == Append(before, name)
<1>2. /\ name \notin DOMAIN strategies
      /\ DOMAIN strategies' = DOMAIN strategies \cup {name} /\ strategies'[name].symbol = symbol
      /\ \A n \in DOMAIN strategies : strategies'[n] = strategies[n]
  BY DEF AddStrategy, With
<1>3. CASE symbol = ""
  <2>1. symbolMap' = symbolMap
    BY <1>3 DEF AddStrategy
  <2>2. ASSUME NEW s \in DOMAIN symbolMap
        PROVE  Range(symbolMap[s]) = {n \in DOMAIN strategies' : strategies'[n].symbol = s}
    <3>1. Range(symbolMap[s]) = {n \in DOMAIN strategies : strategies[n].symbol = s} /\ s # ""
      BY <1>1 DEF ListsInv
    <3> QED
      BY <1>2, <1>3, <3>1
  <2> QED
    BY <1>1, <1>2, <1>3, <2>1, <2>2 DEF ListsInv
<1>4. CASE symbol # ""
  <2>1. /\ DOMAIN symbolMap' = DOMAIN symbolMap \cup {symbol} /\ symbolMap'[symbol] = list
        /\ \A s \in DOMAIN symbolMap : s # symbol => symbolMap'[s] = symbolMap[s]
    BY <1>4 DEF AddStrategy, With
  <2>2. /\ before \in Seq(StrategyNames) /\ IsInjective(before)
        /\ Range(before) = {n \in DOMAIN strategies : strategies[n].symbol = symbol}
    <3>1. CASE symbol \in DOMAIN symbolMap
      BY <1>1, <3>1 DEF ListsInv
    <3>2. CASE symbol \notin DOMAIN symbolMap
      <4>1. before = <<>> /\ Range(before) = {} /\ IsInjective(before)
        BY <3>2 DEF Range, IsInjective
      <4>2. \A n \in DOMAIN strategies : strategies[n].symbol # symbol
        BY <1>1, <1>4, <3>2 DEF ListsInv
      <4>3. {n \in DOMAIN strategies : strategies[n].symbol = symbol} = {}
        BY <4>2
      <4>4. <<>> \in Seq(StrategyNames)
        OBVIOUS
      <4> HIDE DEF before
      <4> QED
        BY <4>1, <4>3, <4>4
    <3> QED
      BY <3>1, <3>2
  <2>3. name \notin Range(before)
    BY <1>2, <2>2
  <2> HIDE DEF before
  <2>4. /\ list \in Seq(StrategyNames) /\ IsInjective(list) /\ list # <<>>
        /\ Range(list) = Range(before) \cup {name}
    BY <2>2, <2>3, AppendToDistinct
  <2> HIDE DEF list
  <2>5. ASSUME NEW s \in DOMAIN symbolMap'
        PROVE  /\ symbolMap'[s] \in Seq(StrategyNames) /\ symbolMap'[s] # <<>> /\ IsInjective(symbolMap'[s])
               /\ s # "" /\ Range(symbolMap'[s]) = {n \in DOMAIN strategies' : strategies'[n].symbol = s}
    <3>1. CASE s = symbol
      <4>1. {n \in DOMAIN strategies' : strategies'[n].symbol = symbol}
              = {n \in DOMAIN strategies : strategies[n].symbol = symbol} \cup {name}
        BY <1>2
      <4> QED
        BY <1>4, <2>1, <2>2, <2>4, <3>1, <4>1
    <3>2. CASE s # symbol
      <4>1. s \in DOMAIN symbolMap /\ symbolMap'[s] = symbolMap[s]
        BY <2>1, <3>2
      <4>2. {n \in DOMAIN strategies' : strategies'[n].symbol = s} = {n \in DOMAIN strategies : strategies[n].symbol = s}
        BY <1>2, <3>2
      <4> QED
        BY <1>1, <4>1, <4>2 DEF ListsInv
    <3> QED
      BY <3>1, <3>2
  <2>6. \A n \in DOMAIN strategies' : strategies'[n].symbol # "" => strategies'[n].symbol \in DOMAIN symbolMap'
    BY <1>1, <1>2, <2>1 DEF ListsInv
  <2> QED
    BY <2>5, <2>6 DEF ListsInv
<1> QED
  BY <1>3, <1>4

LEMMA AddKeeps ==
  ASSUME RoutingInv, NEW name \in StrategyNames, NEW symbol \in DataSymbols, AddStrategy(name, symbol)
  PROVE  RoutingInv'
<1>1. ManagerTyped /\ ListsInv /\ OwnerInv /\ RestingInv /\ StatesInv
  BY DEF RoutingInv
<1> DEFINE new == [symbol |-> symbol, status |-> "CREATED", inited |-> FALSE,
                   trading |-> FALSE, active |-> {}, trades |-> 0, serial |-> added + 1]
<1>2. /\ name \notin DOMAIN strategies /\ added' = added + 1
      /\ strategies' = [k \in DOMAIN strategies \cup {name} |-> IF k = name THEN new ELSE strategies[k]]
      /\ UNCHANGED <<orderMap, brokerOpen, nextOrderId, sentBy, unheard>>
  BY DEF AddStrategy, With, orderVars
<1>3. new \in Wrapper
  BY <1>1 DEF Wrapper, ManagerTyped
<1>4. /\ DOMAIN strategies' = DOMAIN strategies \cup {name} /\ strategies'[name] = new
      /\ \A n \in DOMAIN strategies : strategies'[n] = strategies[n]
  BY <1>2
<1>5. ManagerTyped'
  <2>1. strategies' \in [DOMAIN strategies' -> Wrapper]
    BY <1>1, <1>2, <1>3, <1>4 DEF ManagerTyped
  <2>2. \A n \in DOMAIN strategies' : strategies'[n].serial <= added'
    <3>1. \A n \in DOMAIN strategies : strategies[n].serial \in Nat /\ strategies[n].serial <= added
      BY <1>1 DEF ManagerTyped, Wrapper
    <3>2. added \in Nat
      BY <1>1 DEF ManagerTyped
    <3> QED
      BY <1>2, <1>4, <3>1, <3>2
  <2>3. \A k \in DOMAIN sentBy : sentBy[k][2] <= added'
    <3>1. \A k \in DOMAIN sentBy : sentBy[k][2] \in Nat /\ sentBy[k][2] <= added
      BY <1>1 DEF ManagerTyped
    <3>2. added \in Nat
      BY <1>1 DEF ManagerTyped
    <3> QED
      BY <1>2, <3>1, <3>2
  <2>4. DOMAIN strategies' \subseteq StrategyNames /\ added' \in Nat
    BY <1>1, <1>2, <1>4 DEF ManagerTyped
  <2>5. nextOrderId' \in Nat /\ sentBy' \in Seq(StrategyNames \X Nat) /\ Len(sentBy') = nextOrderId'
    BY <1>1, <1>2 DEF ManagerTyped
  <2> QED
    BY <1>2, <2>1, <2>2, <2>3, <2>4, <2>5 DEF ManagerTyped
<1>6. \A k \in DOMAIN sentBy : Present(strategies', sentBy[k]) <=> Present(strategies, sentBy[k])
  <2> SUFFICES ASSUME NEW k \in DOMAIN sentBy
               PROVE  Present(strategies', sentBy[k]) <=> Present(strategies, sentBy[k])
    OBVIOUS
  <2>1. CASE sentBy[k][1] = name
    <3>1. sentBy[k][2] \in Nat /\ sentBy[k][2] <= added /\ added \in Nat
      BY <1>1 DEF ManagerTyped
    <3> QED
      BY <1>2, <1>4, <2>1, <3>1 DEF Present
  <2>2. CASE sentBy[k][1] # name
    BY <1>4, <2>2 DEF Present
  <2> QED
    BY <2>1, <2>2
<1>7. OwnerInv'
  BY <1>1, <1>2, <1>6 DEF OwnerInv, IdsOf
<1>8. RestingInv'
  <2>1. \A k \in DOMAIN sentBy : Present(strategies, sentBy[k]) => strategies'[sentBy[k][1]] = strategies[sentBy[k][1]]
    BY <1>4 DEF Present
  <2> QED
    BY <1>1, <1>2, <1>6, <2>1 DEF RestingInv
<1>9. StatesInv'
  BY <1>1, <1>2, <1>4 DEF StatesInv
<1> QED
  BY <1>5, <1>7, <1>8, <1>9, AddKeepsLists DEF RoutingInv

\* A strategy's state changes, its orders do not.
LEMMA LivesKeep ==
  ASSUME RoutingInv, UNCHANGED <<symbolMap, orderVars, added>>,
         strategies' \in [DOMAIN strategies -> Wrapper],
         \A n \in DOMAIN strategies :
           /\ strategies'[n].symbol = strategies[n].symbol /\ strategies'[n].serial = strategies[n].serial
           /\ strategies'[n].active = strategies[n].active
           /\ strategies'[n].trading <=> strategies'[n].status = "RUNNING"
  PROVE  RoutingInv'
<1>1. ManagerTyped /\ ListsInv /\ OwnerInv /\ RestingInv /\ StatesInv
  BY DEF RoutingInv
<1>2. UNCHANGED <<symbolMap, orderMap, brokerOpen, nextOrderId, sentBy, unheard, added>>
  BY DEF orderVars
<1>3. DOMAIN strategies' = DOMAIN strategies
  OBVIOUS
<1>4. ManagerTyped'
  BY <1>1, <1>2, <1>3 DEF ManagerTyped
<1>5. ListsInv'
  <2>1. \A s : {n \in DOMAIN strategies' : strategies'[n].symbol = s} = {n \in DOMAIN strategies : strategies[n].symbol = s}
    BY <1>3
  <2> QED
    BY <1>1, <1>2, <1>3, <2>1 DEF ListsInv
<1>6. \A x : Present(strategies', x) <=> Present(strategies, x)
  BY <1>3 DEF Present
<1>7. OwnerInv'
  BY <1>1, <1>2, <1>6 DEF OwnerInv, IdsOf
<1>8. RestingInv'
  BY <1>1, <1>2, <1>6 DEF RestingInv, Present
<1>9. StatesInv'
  BY <1>1, <1>2, <1>3 DEF StatesInv
<1> QED
  BY <1>4, <1>5, <1>7, <1>8, <1>9 DEF RoutingInv

LEMMA InitKeeps ==
  ASSUME RoutingInv, NEW name \in DOMAIN strategies, NEW throws \in BOOLEAN, InitStrategy(name, throws)
  PROVE  RoutingInv'
<1>1. strategies \in [DOMAIN strategies -> Wrapper] /\ StatesInv
  BY DEF RoutingInv, ManagerTyped
<1>2. strategies[name] \in Wrapper /\ strategies[name].status # "RUNNING"
  BY <1>1 DEF InitStrategy
<1>3. /\ strategies' = [strategies EXCEPT ![name].inited = @ \/ ~throws,
                                         ![name].status = IF throws THEN "ERROR" ELSE "READY"]
      /\ UNCHANGED <<symbolMap, orderVars, added>>
  BY DEF InitStrategy
<1>4. /\ strategies'[name] = [strategies[name] EXCEPT !.inited = @ \/ ~throws,
                                                       !.status = IF throws THEN "ERROR" ELSE "READY"]
      /\ \A n \in DOMAIN strategies : n # name => strategies'[n] = strategies[n]
      /\ strategies' = [n \in DOMAIN strategies |-> strategies'[n]]
  BY <1>1, <1>3
<1>5. /\ strategies'[name] \in Wrapper
      /\ strategies'[name].symbol = strategies[name].symbol /\ strategies'[name].serial = strategies[name].serial
      /\ strategies'[name].active = strategies[name].active
      /\ strategies'[name].trading = strategies[name].trading /\ strategies'[name].status # "RUNNING"
  <2>1. (strategies[name].inited \/ ~throws) \in BOOLEAN
    BY <1>2 DEF Wrapper
  <2> QED
    BY <1>2, <1>4, <2>1 DEF Wrapper
<1>6. strategies' \in [DOMAIN strategies -> Wrapper]
  BY <1>1, <1>4, <1>5
<1>7. ~strategies[name].trading
  BY <1>1, <1>2 DEF StatesInv
<1> QED
  BY <1>1, <1>3, <1>4, <1>5, <1>6, <1>7, LivesKeep DEF StatesInv

LEMMA StartKeeps ==
  ASSUME RoutingInv, NEW name \in DOMAIN strategies, NEW throws \in BOOLEAN, StartStrategy(name, throws)
  PROVE  RoutingInv'
<1>1. strategies \in [DOMAIN strategies -> Wrapper] /\ StatesInv
  BY DEF RoutingInv, ManagerTyped
<1>2. strategies[name] \in Wrapper /\ strategies[name].status # "RUNNING" /\ ~strategies[name].trading
  BY <1>1 DEF StartStrategy, StatesInv
<1>3. /\ strategies' = [strategies EXCEPT ![name].trading = @ \/ ~throws,
                                         ![name].status = IF throws THEN "ERROR" ELSE "RUNNING"]
      /\ UNCHANGED <<symbolMap, orderVars, added>>
  BY DEF StartStrategy
<1>4. /\ strategies'[name] = [strategies[name] EXCEPT !.trading = @ \/ ~throws,
                                                       !.status = IF throws THEN "ERROR" ELSE "RUNNING"]
      /\ \A n \in DOMAIN strategies : n # name => strategies'[n] = strategies[n]
      /\ strategies' = [n \in DOMAIN strategies |-> strategies'[n]]
  BY <1>1, <1>3
<1>5. /\ strategies'[name] \in Wrapper
      /\ strategies'[name].symbol = strategies[name].symbol /\ strategies'[name].serial = strategies[name].serial
      /\ strategies'[name].active = strategies[name].active
      /\ strategies'[name].trading <=> strategies'[name].status = "RUNNING"
  <2>1. (strategies[name].trading \/ ~throws) \in BOOLEAN /\ ((strategies[name].trading \/ ~throws) <=> ~throws)
    BY <1>2 DEF Wrapper
  <2>2. /\ strategies'[name].trading = (strategies[name].trading \/ ~throws)
        /\ strategies'[name].status = IF throws THEN "ERROR" ELSE "RUNNING"
    BY <1>2, <1>4 DEF Wrapper
  <2>3. strategies'[name].trading <=> strategies'[name].status = "RUNNING"
    BY <2>1, <2>2
  <2> QED
    BY <1>2, <1>4, <2>1, <2>3 DEF Wrapper
<1>6. strategies' \in [DOMAIN strategies -> Wrapper]
  BY <1>1, <1>4, <1>5
<1> QED
  BY <1>1, <1>3, <1>4, <1>5, <1>6, LivesKeep DEF StatesInv

LEMMA StopKeeps ==
  ASSUME RoutingInv, NEW name \in DOMAIN strategies, StopStrategy(name)
  PROVE  RoutingInv'
<1>1. strategies \in [DOMAIN strategies -> Wrapper] /\ StatesInv
  BY DEF RoutingInv, ManagerTyped
<1>2. strategies[name] \in Wrapper
  BY <1>1
<1>3. /\ strategies' = [strategies EXCEPT ![name].trading = FALSE, ![name].status = "STOPPED"]
      /\ UNCHANGED <<symbolMap, orderVars, added>>
  BY DEF StopStrategy
<1>4. /\ strategies'[name] = [strategies[name] EXCEPT !.trading = FALSE, !.status = "STOPPED"]
      /\ \A n \in DOMAIN strategies : n # name => strategies'[n] = strategies[n]
      /\ strategies' = [n \in DOMAIN strategies |-> strategies'[n]]
  BY <1>1, <1>3
<1>5. /\ strategies'[name] \in Wrapper
      /\ strategies'[name].symbol = strategies[name].symbol /\ strategies'[name].serial = strategies[name].serial
      /\ strategies'[name].active = strategies[name].active
      /\ strategies'[name].trading = FALSE /\ strategies'[name].status = "STOPPED"
  BY <1>2, <1>4 DEF Wrapper
<1>6. strategies' \in [DOMAIN strategies -> Wrapper]
  BY <1>1, <1>4, <1>5
<1> QED
  BY <1>1, <1>3, <1>4, <1>5, <1>6, LivesKeep DEF StatesInv

\* An order's ids carry its number, and no report is about one the map knows.
LEMMA IdsCarryNumber ==
  ASSUME NEW sender \in StrategyNames \X Nat, NEW k, NEW id \in IdsOf(sender, k)
  PROVE  id[2] = k /\ id[1] # "PAPER"
<1>1. sender[1] \in StrategyNames /\ sender[1] # "PAPER"
  BY RoutingAssumption
<1>2. CASE id = ManagerId(sender[1], k)
  <2>1. id = <<sender[1], k>>
    BY <1>2 DEF ManagerId
  <2>2. id[1] = sender[1] /\ id[2] = k
    BY <2>1
  <2> QED
    BY <1>1, <2>2
<1>3. CASE id = BrokerId(k)
  <2>1. id = <<"", k>>
    BY <1>3 DEF BrokerId
  <2>2. id[1] = "" /\ id[2] = k
    BY <2>1
  <2> QED
    BY <2>2
<1> QED
  BY <1>2, <1>3 DEF IdsOf

LEMMA MappedIds ==
  ASSUME ManagerTyped, OwnerInv, NEW id \in DOMAIN orderMap
  PROVE  /\ id[2] \in DOMAIN sentBy /\ id \in IdsOf(sentBy[id[2]], id[2]) /\ id[1] # "PAPER"
         /\ Present(strategies, sentBy[id[2]]) /\ orderMap[id] = sentBy[id[2]][1]
<1>1. PICK k \in DOMAIN sentBy : id \in IdsOf(sentBy[k], k)
  BY DEF OwnerInv
<1>2. sentBy[k] \in StrategyNames \X Nat
  BY DEF ManagerTyped
<1>3. id[2] = k /\ id[1] # "PAPER"
  BY <1>1, <1>2, IdsCarryNumber
<1>4. Present(strategies, sentBy[k])
  BY <1>1 DEF OwnerInv
<1>5. orderMap[id] = sentBy[k][1]
  BY <1>1, <1>4 DEF OwnerInv
<1> QED
  BY <1>1, <1>3, <1>4, <1>5

\* What the strategies' lists and identities rest on stays when a strategy's orders change.
LEMMA ActiveKeepsLists ==
  ASSUME RoutingInv, NEW name \in DOMAIN strategies, NEW active \in SUBSET (StrategyNames \X Nat),
         strategies' = [strategies EXCEPT ![name].active = active],
         UNCHANGED <<symbolMap, added>>
  PROVE  /\ DOMAIN strategies' = DOMAIN strategies /\ strategies' \in [DOMAIN strategies -> Wrapper]
         /\ strategies'[name].active = active
         /\ \A n \in DOMAIN strategies :
              /\ strategies'[n].serial = strategies[n].serial /\ strategies'[n].trading = strategies[n].trading
              /\ strategies'[n].status = strategies[n].status
              /\ n # name => strategies'[n] = strategies[n]
         /\ \A n \in DOMAIN strategies' : strategies'[n].serial <= added'
         /\ \A sender : Present(strategies', sender) <=> Present(strategies, sender)
         /\ ListsInv'
<1>1. ManagerTyped /\ ListsInv
  BY DEF RoutingInv
<1>2. strategies \in [DOMAIN strategies -> Wrapper] /\ strategies[name] \in Wrapper
  BY <1>1 DEF ManagerTyped
<1>3. /\ DOMAIN strategies' = DOMAIN strategies
      /\ strategies'[name] = [strategies[name] EXCEPT !.active = active]
      /\ \A n \in DOMAIN strategies : n # name => strategies'[n] = strategies[n]
      /\ strategies' = [n \in DOMAIN strategies |-> strategies'[n]]
  BY <1>2
<1>4. /\ strategies'[name] \in Wrapper /\ strategies'[name].active = active
      /\ strategies'[name].symbol = strategies[name].symbol
      /\ strategies'[name].serial = strategies[name].serial /\ strategies'[name].trading = strategies[name].trading
      /\ strategies'[name].status = strategies[name].status
  BY <1>2, <1>3 DEF Wrapper
<1>5. strategies' \in [DOMAIN strategies -> Wrapper]
  BY <1>2, <1>3, <1>4
<1>6. \A n \in DOMAIN strategies :
        /\ strategies'[n].serial = strategies[n].serial /\ strategies'[n].trading = strategies[n].trading
        /\ strategies'[n].status = strategies[n].status /\ strategies'[n].symbol = strategies[n].symbol
  BY <1>3, <1>4
<1>7. ListsInv'
  <2>1. \A s : {n \in DOMAIN strategies' : strategies'[n].symbol = s} = {n \in DOMAIN strategies : strategies[n].symbol = s}
    BY <1>3, <1>6
  <2>2. symbolMap' = symbolMap
    OBVIOUS
  <2>3. \A n \in DOMAIN strategies' : strategies'[n].symbol # "" => strategies'[n].symbol \in DOMAIN symbolMap'
    BY <1>1, <1>3, <1>6, <2>2 DEF ListsInv
  <2>4. ASSUME NEW s \in DOMAIN symbolMap'
        PROVE  /\ symbolMap'[s] \in Seq(StrategyNames) /\ symbolMap'[s] # <<>> /\ IsInjective(symbolMap'[s])
               /\ s # "" /\ Range(symbolMap'[s]) = {n \in DOMAIN strategies' : strategies'[n].symbol = s}
    BY <1>1, <2>1, <2>2 DEF ListsInv
  <2> QED
    BY <2>3, <2>4 DEF ListsInv
<1>8. \A sender : Present(strategies', sender) <=> Present(strategies, sender)
  BY <1>3, <1>6 DEF Present
<1>9. \A n \in DOMAIN strategies' : strategies'[n].serial <= added'
  BY <1>1, <1>3, <1>6 DEF ManagerTyped
<1> QED
  BY <1>3, <1>4, <1>5, <1>6, <1>7, <1>8, <1>9

\* Whose an order is does not change with the orders a strategy counts as its own.
LEMMA OwnerKept ==
  ASSUME OwnerInv, UNCHANGED <<orderMap, sentBy>>,
         \A sender : Present(strategies', sender) <=> Present(strategies, sender)
  PROVE  OwnerInv'
<1>1. orderMap' = orderMap /\ sentBy' = sentBy
  OBVIOUS
<1>2. \A id \in DOMAIN orderMap' : \E k \in DOMAIN sentBy' : id \in IdsOf(sentBy'[k], k)
  BY <1>1 DEF OwnerInv
<1>3. ASSUME NEW k \in DOMAIN sentBy'
      PROVE  /\ Present(strategies', sentBy'[k]) =>
                   \A id \in IdsOf(sentBy'[k], k) : id \in DOMAIN orderMap' /\ orderMap'[id] = sentBy'[k][1]
             /\ IdsOf(sentBy'[k], k) \cap DOMAIN orderMap' # {} => Present(strategies', sentBy'[k])
  BY <1>1 DEF OwnerInv
<1> QED
  BY <1>2, <1>3 DEF OwnerInv

LEMMA SendKeeps ==
  ASSUME RoutingInv, NEW name \in DOMAIN strategies, SendStrategyOrder(name)
  PROVE  RoutingInv'
<1>1. ManagerTyped /\ ListsInv /\ OwnerInv /\ RestingInv /\ StatesInv
  BY DEF RoutingInv
<1>2. PICK last, mine, theirs, sender, active :
        /\ last = nextOrderId + 1 /\ mine = ManagerId(name, last) /\ theirs = BrokerId(last)
        /\ sender = <<name, strategies[name].serial>> /\ active = strategies[name].active \cup {mine}
  OBVIOUS
<1>3. /\ nextOrderId' = last /\ orderMap' = With(With(orderMap, mine, name), theirs, name)
      /\ strategies' = [strategies EXCEPT ![name].active = active]
      /\ brokerOpen' = brokerOpen \cup {last} /\ sentBy' = Append(sentBy, sender)
      /\ UNCHANGED <<symbolMap, added, unheard>>
  BY <1>2 DEF SendStrategyOrder
<1>4. /\ name \in StrategyNames /\ strategies[name] \in Wrapper /\ nextOrderId \in Nat /\ Len(sentBy) = nextOrderId
      /\ sentBy \in Seq(StrategyNames \X Nat)
  BY <1>1 DEF ManagerTyped
<1>5. sender \in StrategyNames \X Nat /\ sender[1] = name /\ strategies[name].serial \in Nat
  BY <1>2, <1>4 DEF Wrapper
<1>6. last \in Nat /\ mine = <<name, last>>
  BY <1>2, <1>4 DEF ManagerId
<1>7. active \in SUBSET (StrategyNames \X Nat)
  <2>1. strategies[name].active \in SUBSET (StrategyNames \X Nat)
    BY <1>4 DEF Wrapper
  <2>2. mine \in StrategyNames \X Nat
    BY <1>4, <1>6
  <2> QED
    BY <1>2, <2>1, <2>2
<1>8. /\ DOMAIN strategies' = DOMAIN strategies /\ strategies' \in [DOMAIN strategies -> Wrapper]
      /\ strategies'[name].active = active
      /\ \A n \in DOMAIN strategies :
           /\ strategies'[n].serial = strategies[n].serial /\ strategies'[n].trading = strategies[n].trading
           /\ strategies'[n].status = strategies[n].status
           /\ n # name => strategies'[n] = strategies[n]
      /\ \A n \in DOMAIN strategies' : strategies'[n].serial <= added'
      /\ \A x : Present(strategies', x) <=> Present(strategies, x)
      /\ ListsInv'
  <2>1. UNCHANGED <<symbolMap, added>>
    BY <1>3
  <2> QED
    BY <1>3, <1>7, <2>1, ActiveKeepsLists
<1>9. /\ sentBy' \in Seq(StrategyNames \X Nat) /\ Len(sentBy') = last /\ sentBy'[last] = sender
      /\ DOMAIN sentBy' = DOMAIN sentBy \cup {last} /\ last \notin DOMAIN sentBy
      /\ \A k \in DOMAIN sentBy : sentBy'[k] = sentBy[k]
  BY <1>2, <1>3, <1>4, <1>5
<1>10. IdsOf(sender, last) = {mine, theirs} /\ mine[2] = last /\ theirs[2] = last
  <2>1. IdsOf(sender, last) = {mine, theirs}
    BY <1>2, <1>5 DEF IdsOf
  <2> QED
    BY <1>5, <2>1, IdsCarryNumber
<1>11. /\ DOMAIN orderMap' = DOMAIN orderMap \cup {mine, theirs}
       /\ orderMap'[mine] = name /\ orderMap'[theirs] = name
       /\ \A id \in DOMAIN orderMap : id \notin {mine, theirs} => orderMap'[id] = orderMap[id]
  BY <1>3 DEF With
<1>12. ASSUME NEW id \in DOMAIN orderMap PROVE id \notin {mine, theirs} /\ orderMap'[id] = orderMap[id]
  <2>1. id[2] \in DOMAIN sentBy
    BY <1>1, MappedIds
  <2>2. id[2] # last
    BY <1>9, <2>1
  <2>3. id \notin {mine, theirs}
    BY <1>10, <2>2
  <2> QED
    BY <1>11, <2>3
<1>13. Present(strategies, sender)
  BY <1>2, <1>5 DEF Present
<1>14. ManagerTyped'
  <2>1. \A k \in DOMAIN sentBy' : sentBy'[k][2] <= added'
    <3>1. sender[2] <= added
      BY <1>1, <1>2 DEF ManagerTyped
    <3>2. \A k \in DOMAIN sentBy : sentBy[k][2] <= added
      BY <1>1 DEF ManagerTyped
    <3> QED
      BY <1>3, <1>9, <3>1, <3>2
  <2>2. DOMAIN strategies' \subseteq StrategyNames /\ added' \in Nat
    BY <1>1, <1>3, <1>8 DEF ManagerTyped
  <2>3. strategies' \in [DOMAIN strategies' -> Wrapper]
    BY <1>8
  <2> QED
    BY <1>3, <1>6, <1>8, <1>9, <2>1, <2>2, <2>3 DEF ManagerTyped
<1>15. OwnerInv'
  <2>1. ASSUME NEW id \in DOMAIN orderMap' PROVE \E k \in DOMAIN sentBy' : id \in IdsOf(sentBy'[k], k)
    <3>1. CASE id \in {mine, theirs}
      BY <1>9, <1>10, <3>1
    <3>2. CASE id \in DOMAIN orderMap
      <4>1. id[2] \in DOMAIN sentBy /\ id \in IdsOf(sentBy[id[2]], id[2])
        BY <1>1, <3>2, MappedIds
      <4> QED
        BY <1>9, <4>1
    <3> QED
      BY <1>11, <3>1, <3>2
  <2>2. ASSUME NEW k \in DOMAIN sentBy'
        PROVE  /\ Present(strategies', sentBy'[k]) =>
                    \A id \in IdsOf(sentBy'[k], k) : id \in DOMAIN orderMap' /\ orderMap'[id] = sentBy'[k][1]
               /\ IdsOf(sentBy'[k], k) \cap DOMAIN orderMap' # {} => Present(strategies', sentBy'[k])
    <3>1. CASE k = last
      BY <1>5, <1>8, <1>9, <1>10, <1>11, <1>13, <3>1
    <3>2. CASE k \in DOMAIN sentBy
      <4>1. /\ Present(strategies, sentBy[k]) =>
                 \A id \in IdsOf(sentBy[k], k) : id \in DOMAIN orderMap /\ orderMap[id] = sentBy[k][1]
            /\ IdsOf(sentBy[k], k) \cap DOMAIN orderMap # {} => Present(strategies, sentBy[k])
        BY <1>1, <3>2 DEF OwnerInv
      <4>2. \A id \in IdsOf(sentBy[k], k) : id \notin {mine, theirs}
        <5>1. sentBy[k] \in StrategyNames \X Nat /\ k # last
          BY <1>4, <1>9, <3>2
        <5> QED
          BY <1>10, <5>1, IdsCarryNumber
      <4>3. sentBy'[k] = sentBy[k]
        BY <1>9, <3>2
      <4>4. IdsOf(sentBy[k], k) \cap DOMAIN orderMap' = IdsOf(sentBy[k], k) \cap DOMAIN orderMap
        BY <1>11, <4>2
      <4> QED
        BY <1>8, <1>11, <1>12, <4>1, <4>3, <4>4
    <3> QED
      BY <1>9, <3>1, <3>2
  <2> QED
    BY <2>1, <2>2 DEF OwnerInv
<1>16. RestingInv'
  <2> SUFFICES ASSUME NEW k \in DOMAIN sentBy', Present(strategies', sentBy'[k]), k \notin unheard'
               PROVE  k \in brokerOpen' /\ ManagerId(sentBy'[k][1], k) \in strategies'[sentBy'[k][1]].active
    BY DEF RestingInv
  <2>1. CASE k = last
    BY <1>2, <1>3, <1>5, <1>8, <1>9, <2>1
  <2>2. CASE k \in DOMAIN sentBy
    <3>1. sentBy'[k] = sentBy[k] /\ Present(strategies, sentBy[k]) /\ k \notin unheard
      BY <1>3, <1>8, <1>9, <2>2
    <3>2. k \in brokerOpen /\ ManagerId(sentBy[k][1], k) \in strategies[sentBy[k][1]].active
      BY <1>1, <2>2, <3>1 DEF RestingInv
    <3>3. sentBy[k][1] \in DOMAIN strategies
      BY <3>1 DEF Present
    <3>4. strategies[sentBy[k][1]].active \subseteq strategies'[sentBy[k][1]].active
      <4>1. CASE sentBy[k][1] = name
        BY <1>2, <1>8, <4>1
      <4>2. CASE sentBy[k][1] # name
        BY <1>8, <3>3, <4>2
      <4> QED
        BY <4>1, <4>2
    <3> QED
      BY <1>3, <3>1, <3>2, <3>4
  <2> QED
    BY <1>9, <2>1, <2>2
<1>17. StatesInv'
  <2> SUFFICES ASSUME NEW n \in DOMAIN strategies
               PROVE  /\ strategies'[n].trading <=> strategies'[n].status = "RUNNING"
                      /\ \A id \in strategies'[n].active : id \in DOMAIN orderMap' /\ orderMap'[id] = n
    BY <1>8 DEF StatesInv
  <2>1. strategies'[n].trading <=> strategies'[n].status = "RUNNING"
    <3>1. strategies[n].trading <=> strategies[n].status = "RUNNING"
      BY <1>1 DEF StatesInv
    <3> QED
      BY <1>8, <3>1
  <2>2. ASSUME NEW id \in strategies'[n].active PROVE id \in DOMAIN orderMap' /\ orderMap'[id] = n
    <3>1. CASE id \in strategies[n].active
      BY <1>1, <1>11, <1>12, <3>1 DEF StatesInv
    <3>2. CASE id \notin strategies[n].active
      <4>1. n = name /\ id = mine
        BY <1>2, <1>8, <2>2, <3>2
      <4> QED
        BY <1>11, <4>1
    <3> QED
      BY <3>1, <3>2
  <2> QED
    BY <2>1, <2>2
<1> QED
  BY <1>8, <1>14, <1>15, <1>16, <1>17 DEF RoutingInv

LEMMA CancelKeeps ==
  ASSUME RoutingInv, NEW name \in DOMAIN strategies, NEW n \in 1 .. nextOrderId, CancelStrategyOrder(name, n)
  PROVE  RoutingInv'
<1>1. ManagerTyped /\ ListsInv /\ OwnerInv /\ RestingInv /\ StatesInv
  BY DEF RoutingInv
<1>2. PICK mine, active : mine = ManagerId(name, n) /\ active = strategies[name].active \ {mine}
  OBVIOUS
<1>3. /\ mine \in DOMAIN orderMap /\ orderMap[mine] = name
      /\ strategies' = [strategies EXCEPT ![name].active = active] /\ unheard' = unheard \cup {n}
      /\ UNCHANGED <<symbolMap, orderMap, brokerOpen, nextOrderId, added, sentBy>>
  BY <1>2 DEF CancelStrategyOrder
<1>4. active \in SUBSET (StrategyNames \X Nat) /\ active \subseteq strategies[name].active
  <2>1. strategies[name] \in Wrapper
    BY <1>1 DEF ManagerTyped
  <2>2. strategies[name].active \in SUBSET (StrategyNames \X Nat)
    BY <2>1 DEF Wrapper
  <2> QED
    BY <1>2, <2>2
<1>5. /\ DOMAIN strategies' = DOMAIN strategies /\ strategies' \in [DOMAIN strategies -> Wrapper]
      /\ strategies'[name].active = active
      /\ \A x \in DOMAIN strategies :
           /\ strategies'[x].serial = strategies[x].serial /\ strategies'[x].trading = strategies[x].trading
           /\ strategies'[x].status = strategies[x].status
           /\ x # name => strategies'[x] = strategies[x]
      /\ \A x \in DOMAIN strategies' : strategies'[x].serial <= added'
      /\ \A x : Present(strategies', x) <=> Present(strategies, x)
      /\ ListsInv'
  <2>1. UNCHANGED <<symbolMap, added>>
    BY <1>3
  <2> QED
    BY <1>3, <1>4, <2>1, ActiveKeepsLists
<1>6. ManagerTyped'
  BY <1>1, <1>3, <1>5 DEF ManagerTyped
<1>7. OwnerInv'
  BY <1>1, <1>3, <1>5, OwnerKept
<1>8. \A x \in DOMAIN strategies : strategies'[x].active \subseteq strategies[x].active
  BY <1>4, <1>5
<1>9. RestingInv'
  <2> SUFFICES ASSUME NEW k \in DOMAIN sentBy, Present(strategies', sentBy[k]), k \notin unheard'
               PROVE  k \in brokerOpen /\ ManagerId(sentBy[k][1], k) \in strategies'[sentBy[k][1]].active
    BY <1>3 DEF RestingInv
  <2>1. Present(strategies, sentBy[k]) /\ k \notin unheard /\ k # n
    BY <1>3, <1>5
  <2>2. k \in brokerOpen /\ ManagerId(sentBy[k][1], k) \in strategies[sentBy[k][1]].active
    BY <1>1, <2>1 DEF RestingInv
  <2>3. ManagerId(sentBy[k][1], k) # mine
    <3>1. <<sentBy[k][1], k>> # <<name, n>>
      BY <2>1
    <3> QED
      BY <1>2, <3>1 DEF ManagerId
  <2>4. sentBy[k][1] \in DOMAIN strategies
    BY <2>1 DEF Present
  <2> QED
    BY <1>2, <1>5, <2>2, <2>3, <2>4
<1>10. StatesInv'
  <2> SUFFICES ASSUME NEW x \in DOMAIN strategies
               PROVE  /\ strategies'[x].trading <=> strategies'[x].status = "RUNNING"
                      /\ \A id \in strategies'[x].active : id \in DOMAIN orderMap /\ orderMap[id] = x
    BY <1>3, <1>5 DEF StatesInv
  <2>1. /\ strategies[x].trading <=> strategies[x].status = "RUNNING"
        /\ \A id \in strategies[x].active : id \in DOMAIN orderMap /\ orderMap[id] = x
    BY <1>1 DEF StatesInv
  <2> QED
    BY <1>5, <1>8, <2>1
<1> QED
  BY <1>5, <1>6, <1>7, <1>9, <1>10 DEF RoutingInv

\* The report of a fill reaches no strategy: the map does not know its id.
LEMMA FillKeeps ==
  ASSUME RoutingInv, NEW n \in brokerOpen, BrokerFills(n)
  PROVE  RoutingInv'
<1>1. ManagerTyped /\ ListsInv /\ OwnerInv /\ RestingInv /\ StatesInv
  BY DEF RoutingInv
<1>2. VtOrderid(n) \notin DOMAIN orderMap
  <2>1. VtOrderid(n)[1] = "PAPER"
    BY DEF VtOrderid
  <2> QED
    BY <1>1, <2>1, MappedIds
<1>3. /\ brokerOpen' = brokerOpen \ {n} /\ unheard' = unheard \cup {n}
      /\ UNCHANGED <<strategies, symbolMap, orderMap, nextOrderId, added, sentBy>>
  BY <1>2 DEF BrokerFills, OnOrderAndTrade
<1>4. ManagerTyped' /\ ListsInv' /\ StatesInv'
  BY <1>1, <1>3 DEF ManagerTyped, ListsInv, StatesInv
<1>5. OwnerInv'
  BY <1>1, <1>3, OwnerKept
<1>6. RestingInv'
  BY <1>1, <1>3 DEF RestingInv
<1> QED
  BY <1>4, <1>5, <1>6 DEF RoutingInv

LEMMA RemoveKeepsLists ==
  ASSUME RoutingInv, NEW name \in DOMAIN strategies, RemoveStrategy(name)
  PROVE  ListsInv'
<1>1. ListsInv
  BY DEF RoutingInv
<1>2. /\ DOMAIN strategies' = DOMAIN strategies \ {name} /\ symbolMap' = Unlisted(name)
      /\ \A n \in DOMAIN strategies' : strategies'[n] = strategies[n]
  BY DEF RemoveStrategy, WithoutKeys
<1>3. PICK symbol : symbol = strategies[name].symbol
  OBVIOUS
<1>4. \A s : s # symbol =>
        {n \in DOMAIN strategies' : strategies'[n].symbol = s} = {n \in DOMAIN strategies : strategies[n].symbol = s}
  BY <1>2, <1>3
<1>5. {n \in DOMAIN strategies' : strategies'[n].symbol = symbol}
        = {n \in DOMAIN strategies : strategies[n].symbol = symbol} \ {name}
  BY <1>2
<1>6. CASE symbol = ""
  <2>1. symbolMap' = symbolMap
    BY <1>2, <1>3, <1>6 DEF Unlisted
  <2>2. \A n \in DOMAIN strategies' : strategies'[n].symbol # "" => strategies'[n].symbol \in DOMAIN symbolMap'
    BY <1>1, <1>2, <2>1 DEF ListsInv
  <2>3. ASSUME NEW s \in DOMAIN symbolMap'
        PROVE  /\ symbolMap'[s] \in Seq(StrategyNames) /\ symbolMap'[s] # <<>> /\ IsInjective(symbolMap'[s])
               /\ s # "" /\ Range(symbolMap'[s]) = {n \in DOMAIN strategies' : strategies'[n].symbol = s}
    BY <1>1, <1>4, <1>6, <2>1 DEF ListsInv
  <2> QED
    BY <2>2, <2>3 DEF ListsInv
<1>7. CASE symbol # ""
  <2>1. /\ symbol \in DOMAIN symbolMap /\ symbolMap[symbol] \in Seq(StrategyNames) /\ IsInjective(symbolMap[symbol])
        /\ Range(symbolMap[symbol]) = {n \in DOMAIN strategies : strategies[n].symbol = symbol}
    BY <1>1, <1>3, <1>7 DEF ListsInv
  <2>2. name \in Range(symbolMap[symbol])
    BY <1>3, <2>1
  <2>3. PICK list : list = RemoveFirst(symbolMap[symbol], name)
    OBVIOUS
  <2>4. /\ list \in Seq(StrategyNames) /\ IsInjective(list)
        /\ Range(list) = {n \in DOMAIN strategies' : strategies'[n].symbol = symbol}
    BY <1>5, <2>1, <2>2, <2>3, RemoveFirstOfDistinct
  <2>5. symbolMap' = IF list = <<>> THEN WithoutKeys(symbolMap, {symbol}) ELSE With(symbolMap, symbol, list)
    BY <1>2, <1>3, <1>7, <2>3 DEF Unlisted
  <2>6. \A s : s # symbol => /\ s \in DOMAIN symbolMap' <=> s \in DOMAIN symbolMap
                             /\ s \in DOMAIN symbolMap => symbolMap'[s] = symbolMap[s]
    BY <2>5 DEF With, WithoutKeys
  <2>7. symbol \in DOMAIN symbolMap' => symbolMap'[symbol] = list /\ list # <<>>
    BY <2>5 DEF With, WithoutKeys
  <2>8. symbol \notin DOMAIN symbolMap' => list = <<>>
    BY <2>5 DEF With
  <2>9. ASSUME NEW n \in DOMAIN strategies', strategies'[n].symbol # "" PROVE strategies'[n].symbol \in DOMAIN symbolMap'
    <3>1. CASE strategies'[n].symbol = symbol
      <4>1. n \in Range(list)
        BY <2>4, <3>1
      <4>2. list # <<>>
        BY <4>1 DEF Range
      <4> QED
        BY <2>8, <3>1, <4>2
    <3>2. CASE strategies'[n].symbol # symbol
      BY <1>1, <1>2, <2>6, <2>9, <3>2 DEF ListsInv
    <3> QED
      BY <3>1, <3>2
  <2>10. ASSUME NEW s \in DOMAIN symbolMap'
         PROVE  /\ symbolMap'[s] \in Seq(StrategyNames) /\ symbolMap'[s] # <<>> /\ IsInjective(symbolMap'[s])
                /\ s # "" /\ Range(symbolMap'[s]) = {n \in DOMAIN strategies' : strategies'[n].symbol = s}
    <3>1. CASE s = symbol
      BY <1>7, <2>4, <2>7, <3>1
    <3>2. CASE s # symbol
      <4>1. s \in DOMAIN symbolMap /\ symbolMap'[s] = symbolMap[s]
        BY <2>6, <3>2
      <4> QED
        BY <1>1, <1>4, <3>2, <4>1 DEF ListsInv
    <3> QED
      BY <3>1, <3>2
  <2> QED
    BY <2>9, <2>10 DEF ListsInv
<1> QED
  BY <1>6, <1>7

LEMMA RemoveKeeps ==
  ASSUME RoutingInv, NEW name \in DOMAIN strategies, RemoveStrategy(name)
  PROVE  RoutingInv'
<1>1. ManagerTyped /\ ListsInv /\ OwnerInv /\ RestingInv /\ StatesInv
  BY DEF RoutingInv
<1>2. /\ DOMAIN strategies' = DOMAIN strategies \ {name}
      /\ strategies' = [n \in DOMAIN strategies \ {name} |-> strategies[n]]
      /\ \A n \in DOMAIN strategies' : strategies'[n] = strategies[n]
      /\ DOMAIN orderMap' = {id \in DOMAIN orderMap : orderMap[id] # name}
      /\ \A id \in DOMAIN orderMap' : orderMap'[id] = orderMap[id]
      /\ brokerOpen' = brokerOpen /\ nextOrderId' = nextOrderId /\ added' = added /\ sentBy' = sentBy
      /\ unheard' = unheard
  BY DEF RemoveStrategy, WithoutKeys
<1>3. ManagerTyped'
  <2>1. strategies' \in [DOMAIN strategies' -> Wrapper]
    BY <1>1, <1>2 DEF ManagerTyped
  <2>2. \A n \in DOMAIN strategies' : strategies'[n].serial <= added'
    BY <1>1, <1>2 DEF ManagerTyped
  <2> QED
    BY <1>1, <1>2, <2>1, <2>2 DEF ManagerTyped
<1>4. \A sender : Present(strategies', sender) <=> Present(strategies, sender) /\ sender[1] # name
  BY <1>2 DEF Present
<1>5. OwnerInv'
  <2>1. ASSUME NEW id \in DOMAIN orderMap' PROVE \E k \in DOMAIN sentBy' : id \in IdsOf(sentBy'[k], k)
    <3>1. id \in DOMAIN orderMap
      BY <1>2
    <3> QED
      BY <1>1, <1>2, <3>1 DEF OwnerInv
  <2>2. ASSUME NEW k \in DOMAIN sentBy, Present(strategies', sentBy[k]), NEW id \in IdsOf(sentBy[k], k)
        PROVE  id \in DOMAIN orderMap' /\ orderMap'[id] = sentBy[k][1]
    <3>1. Present(strategies, sentBy[k]) /\ sentBy[k][1] # name
      BY <1>4, <2>2
    <3>2. id \in DOMAIN orderMap /\ orderMap[id] = sentBy[k][1]
      BY <1>1, <3>1 DEF OwnerInv
    <3> QED
      BY <1>2, <3>1, <3>2
  <2>3. ASSUME NEW k \in DOMAIN sentBy, NEW id \in IdsOf(sentBy[k], k), id \in DOMAIN orderMap'
        PROVE  Present(strategies', sentBy[k])
    <3>1. id \in DOMAIN orderMap /\ orderMap[id] # name
      BY <1>2, <2>3
    <3>2. sentBy[k] \in StrategyNames \X Nat
      BY <1>1 DEF ManagerTyped
    <3>3. id[2] = k
      BY <3>2, IdsCarryNumber
    <3>4. Present(strategies, sentBy[k]) /\ orderMap[id] = sentBy[k][1]
      BY <1>1, <3>1, <3>3, MappedIds
    <3> QED
      BY <1>4, <3>1, <3>4
  <2>4. \A k \in DOMAIN sentBy' :
          /\ Present(strategies', sentBy'[k]) =>
               \A id \in IdsOf(sentBy'[k], k) : id \in DOMAIN orderMap' /\ orderMap'[id] = sentBy'[k][1]
          /\ IdsOf(sentBy'[k], k) \cap DOMAIN orderMap' # {} => Present(strategies', sentBy'[k])
    BY <1>2, <2>2, <2>3
  <2> QED
    BY <2>1, <2>4 DEF OwnerInv
<1>6. RestingInv'
  <2> SUFFICES ASSUME NEW k \in DOMAIN sentBy, Present(strategies', sentBy[k]), k \notin unheard
               PROVE  k \in brokerOpen /\ ManagerId(sentBy[k][1], k) \in strategies'[sentBy[k][1]].active
    BY <1>2 DEF RestingInv
  <2>1. Present(strategies, sentBy[k])
    BY <1>4
  <2>2. k \in brokerOpen /\ ManagerId(sentBy[k][1], k) \in strategies[sentBy[k][1]].active
    BY <1>1, <2>1 DEF RestingInv
  <2>3. sentBy[k][1] \in DOMAIN strategies'
    BY DEF Present
  <2> QED
    BY <1>2, <2>2, <2>3
<1>7. StatesInv'
  <2> SUFFICES ASSUME NEW n \in DOMAIN strategies'
               PROVE  /\ strategies'[n].trading <=> strategies'[n].status = "RUNNING"
                      /\ \A id \in strategies'[n].active : id \in DOMAIN orderMap' /\ orderMap'[id] = n
    BY DEF StatesInv
  <2>1. n \in DOMAIN strategies /\ n # name /\ strategies'[n] = strategies[n]
    BY <1>2
  <2>2. /\ strategies[n].trading <=> strategies[n].status = "RUNNING"
        /\ \A id \in strategies[n].active : id \in DOMAIN orderMap /\ orderMap[id] = n
    BY <1>1, <2>1 DEF StatesInv
  <2> QED
    BY <1>2, <2>1, <2>2
<1> QED
  BY <1>3, <1>5, <1>6, <1>7, RemoveKeepsLists DEF RoutingInv

LEMMA RoutingKeeps == RoutingInv /\ [RoutingNext]_routingVars => RoutingInv'
<1> SUFFICES ASSUME RoutingInv, [RoutingNext]_routingVars PROVE RoutingInv'
  OBVIOUS
<1>1. ASSUME NEW name \in StrategyNames, NEW symbol \in DataSymbols, AddStrategy(name, symbol) PROVE RoutingInv'
  BY <1>1, AddKeeps
<1>2. ASSUME NEW name \in DOMAIN strategies, NEW throws \in BOOLEAN, InitStrategy(name, throws) PROVE RoutingInv'
  BY <1>2, InitKeeps
<1>3. ASSUME NEW name \in DOMAIN strategies, NEW throws \in BOOLEAN, StartStrategy(name, throws) PROVE RoutingInv'
  BY <1>3, StartKeeps
<1>4. ASSUME NEW name \in DOMAIN strategies, StopStrategy(name) PROVE RoutingInv'
  BY <1>4, StopKeeps
<1>5. ASSUME NEW name \in DOMAIN strategies, RemoveStrategy(name) PROVE RoutingInv'
  BY <1>5, RemoveKeeps
<1>6. ASSUME NEW name \in DOMAIN strategies, SendStrategyOrder(name) PROVE RoutingInv'
  BY <1>6, SendKeeps
<1>7. ASSUME NEW name \in DOMAIN strategies, NEW n \in 1 .. nextOrderId, CancelStrategyOrder(name, n) PROVE RoutingInv'
  BY <1>7, CancelKeeps
<1>8. ASSUME NEW n \in brokerOpen, BrokerFills(n) PROVE RoutingInv'
  BY <1>8, FillKeeps
<1>9. CASE UNCHANGED routingVars
  BY <1>9 DEF routingVars, RoutingInv, ManagerTyped, ListsInv, OwnerInv, RestingInv, StatesInv
<1> QED
  BY <1>1, <1>2, <1>3, <1>4, <1>5, <1>6, <1>7, <1>8, <1>9 DEF RoutingNext

LEMMA RoutingFollows == RoutingInv => RoutingAgrees
<1> SUFFICES ASSUME RoutingInv PROVE RoutingAgrees
  OBVIOUS
<1>1. ManagerTyped /\ ListsInv /\ OwnerInv /\ RestingInv /\ StatesInv
  BY DEF RoutingInv
<1>2. ASSUME NEW s \in DataSymbols \ {""}, NEW list, list = IF s \in DOMAIN symbolMap THEN symbolMap[s] ELSE <<>>
      PROVE  /\ Range(list) = {n \in DOMAIN strategies : strategies[n].symbol = s}
             /\ IsInjective(list) /\ (s \in DOMAIN symbolMap => list # <<>>)
  <2>1. CASE s \in DOMAIN symbolMap
    BY <1>1, <1>2, <2>1 DEF ListsInv
  <2>2. CASE s \notin DOMAIN symbolMap
    <3>1. list = <<>>
      BY <1>2, <2>2
    <3>2. {n \in DOMAIN strategies : strategies[n].symbol = s} = {}
      BY <1>1, <2>2 DEF ListsInv
    <3> QED
      BY <2>2, <3>1, <3>2, EmptyList
  <2> QED
    BY <2>1, <2>2
<1>3. ASSUME NEW k \in DOMAIN sentBy, NEW name, name = sentBy[k][1],
             NEW ids, ids = {ManagerId(name, k), BrokerId(k)}
      PROVE  /\ Here(sentBy[k]) => \A id \in ids : id \in DOMAIN orderMap /\ orderMap[id] = name
             /\ ids \cap DOMAIN orderMap # {} => Here(sentBy[k])
             /\ Here(sentBy[k]) /\ k \notin unheard => k \in brokerOpen /\ ManagerId(name, k) \in strategies[name].active
  <2>1. ids = IdsOf(sentBy[k], k) /\ (Here(sentBy[k]) <=> Present(strategies, sentBy[k]))
    BY <1>3 DEF IdsOf, Here, Present
  <2> QED
    BY <1>1, <1>3, <2>1 DEF OwnerInv, RestingInv
<1>4. \A n \in DOMAIN strategies :
        /\ strategies[n].trading <=> strategies[n].status = "RUNNING"
        /\ \A id \in strategies[n].active : id \in DOMAIN orderMap /\ orderMap[id] = n
  BY <1>1 DEF StatesInv
<1>5. \A s \in DataSymbols \ {""} :
        LET list == IF s \in DOMAIN symbolMap THEN symbolMap[s] ELSE <<>> IN
        /\ Range(list) = {n \in DOMAIN strategies : strategies[n].symbol = s}
        /\ IsInjective(list) /\ (s \in DOMAIN symbolMap => list # <<>>)
  BY <1>2
<1>6. \A k \in DOMAIN sentBy :
        LET name == sentBy[k][1]
            ids == {ManagerId(name, k), BrokerId(k)} IN
        /\ Here(sentBy[k]) => \A id \in ids : id \in DOMAIN orderMap /\ orderMap[id] = name
        /\ ids \cap DOMAIN orderMap # {} => Here(sentBy[k])
        /\ Here(sentBy[k]) /\ k \notin unheard => k \in brokerOpen /\ ManagerId(name, k) \in strategies[name].active
  BY <1>3
<1> QED
  BY <1>4, <1>5, <1>6 DEF RoutingAgrees

LEMMA RoutingAlone == [Next]_mcVars => [RoutingNext]_routingVars
  BY DEF Next, mcVars, tradingVars, Pool, Logger, BarsRun, RingRuns, Smoother, DatabaseRuns, RoutingRuns,
         UsdtRuns, OkxRuns, OmsRuns, OthersThanThreads, OthersThanData, OthersThanTrading

\* Market data goes once to each strategy of its symbol and to nobody that is gone, both
\* ids of an order name the strategy that sent it and not a later one of the same name,
\* and a strategy counts as its own the orders that were neither cancelled nor filled, or
\* were so unheard: for any number of strategies, symbols, orders, removals and restarts.
THEOREM Routing == Spec => []RoutingAgrees
<1>1. Init => RoutingInv
  BY RoutingStarts DEF Init
<1>2. RoutingInv /\ [Next]_mcVars => RoutingInv'
  BY RoutingKeeps, RoutingAlone
<1>3. Spec => []RoutingInv
  BY <1>1, <1>2, PTL DEF Spec
<1> QED
  BY <1>3, RoutingFollows, PTL

------------------------------------------------------------------------------
(* The simulated gateways *)

Entry == [id : Nat, second : Nat, connection : Nat]
SentOver(sent, connection) == Cardinality({k \in DOMAIN sent : sent[k].connection = connection})
ConnectionInv ==
  /\ clock \in Nat /\ usdtConnects \in Nat /\ usdtSent \in Seq(Entry)
  /\ rest.time \in Nat /\ rest.count = SentOver(usdtSent, usdtConnects)
  /\ rest.time = (rest.time \div IdBlock) * IdBlock
IdsAreCounted ==
  \A k \in DOMAIN usdtSent :
    /\ usdtSent[k].connection <= usdtConnects
    /\ \E n \in Nat \ {0} :
         /\ n <= SentOver(usdtSent, usdtSent[k].connection)
         /\ usdtSent[k].id = usdtSent[k].second * IdBlock + n
    /\ usdtSent[k].connection = usdtConnects =>
         usdtSent[k].second * IdBlock = rest.time
IdsGrow ==
  \A i, j \in DOMAIN usdtSent :
    i < j /\ usdtSent[i].connection = usdtSent[j].connection => usdtSent[i].id < usdtSent[j].id
IdsInv == ConnectionInv /\ IdsAreCounted /\ IdsGrow

NoUsdtTrades == DOMAIN usdtOrders = {} /\ usdtTrades = 0

OkxTyped ==
  /\ okxOrders \in Seq(Nat) /\ okxTraded \in Seq(Nat) /\ executed \in Seq(Nat) /\ newest \in Seq(Nat)
  /\ Len(okxTraded) = Len(okxOrders) /\ Len(executed) = Len(okxOrders) /\ Len(newest) = Len(okxOrders)
OkxCounted ==
  \A id \in DOMAIN okxOrders :
    /\ okxOrders[id] <= newest[id] /\ newest[id] <= okxTraded[id]
    /\ id \notin overtaken => okxOrders[id] = newest[id] /\ okxTraded[id] = newest[id]
OkxInv == OkxTyped /\ OkxCounted

Stream == FeedSymbols \X {"ticker", "depth5", "kline"}
StreamsOfSymbol ==
  \A s \in DOMAIN subscriptions :
    subscriptions[s] \in Seq(Stream) /\ \A x \in Range(subscriptions[s]) : x[1] = s
WantedBefore == usdtConnects \in Nat /\ \A w \in wanted : w[2] \in Nat /\ w[2] <= usdtConnects
FeedsInv == StreamsOfSymbol /\ WantedBefore /\ FeedsListed

GatewaysInv == IdsInv /\ NoUsdtTrades /\ OkxInv /\ FeedsInv

------------------------------------------------------------------------------
LEMMA GatewaysStart == GatewaysInit => GatewaysInv
<1> SUFFICES ASSUME GatewaysInit PROVE GatewaysInv
  OBVIOUS
<1>0. IdBlock \in Nat /\ IdBlock > 0
  BY GatewaysAssumption
<1>1. IdsInv
  <2>1. usdtSent = <<>> /\ usdtSent \in Seq(Entry) /\ DOMAIN usdtSent = {}
    BY DEF GatewaysInit
  <2>2. SentOver(usdtSent, usdtConnects) = 0
    BY <2>1, FS_EmptySet DEF SentOver
  <2>3. 0 = (0 \div IdBlock) * IdBlock
    BY <1>0
  <2> QED
    BY <2>1, <2>2, <2>3 DEF GatewaysInit, IdsInv, ConnectionInv, IdsAreCounted, IdsGrow
<1>2. NoUsdtTrades
  BY DEF GatewaysInit, NoUsdtTrades
<1>3. OkxInv
  <2>1. okxOrders = <<>> /\ okxTraded = <<>> /\ executed = <<>> /\ newest = <<>>
    BY DEF GatewaysInit
  <2> QED
    BY <2>1 DEF OkxInv, OkxTyped, OkxCounted
<1>4. FeedsInv
  <2>1. DOMAIN subscriptions = {} /\ wanted = {} /\ usdtConnects = 0
    BY DEF GatewaysInit
  <2> QED
    BY <2>1 DEF FeedsInv, StreamsOfSymbol, WantedBefore, FeedsListed, Listed
<1> QED
  BY <1>1, <1>2, <1>3, <1>4 DEF GatewaysInv

------------------------------------------------------------------------------
(* Order ids *)

LEMMA SentOverNat ==
  ASSUME usdtSent \in Seq(Entry), NEW c
  PROVE  SentOver(usdtSent, c) \in Nat
<1>1. {k \in DOMAIN usdtSent : usdtSent[k].connection = c} \in SUBSET (1 .. Len(usdtSent))
  OBVIOUS
<1>2. Len(usdtSent) \in Nat
  OBVIOUS
<1>3. IsFiniteSet(1 .. Len(usdtSent))
  BY <1>2, FS_Interval
<1> QED
  BY <1>1, <1>3, FS_Subset, FS_CardinalityType DEF SentOver

LEMMA SendKeepsIds ==
  ASSUME IdsInv, SendUsdtOrder
  PROVE  IdsInv'
<1>0. IdBlock \in Nat /\ IdBlock > 0
  BY GatewaysAssumption
<1>1. /\ clock \in Nat /\ usdtConnects \in Nat /\ usdtSent \in Seq(Entry)
      /\ rest.time \in Nat /\ rest.count = SentOver(usdtSent, usdtConnects)
      /\ rest.time = (rest.time \div IdBlock) * IdBlock
  BY DEF IdsInv, ConnectionInv
<1> DEFINE second == rest.time \div IdBlock
           n == SentOver(usdtSent, usdtConnects) + 1
           new == [id |-> rest.time + n, second |-> second, connection |-> usdtConnects]
           last == Len(usdtSent) + 1
<1>2. /\ rest'.time = rest.time /\ rest'.count = n /\ clock' = clock /\ usdtConnects' = usdtConnects
      /\ usdtSent' = Append(usdtSent, new)
  BY <1>1 DEF SendUsdtOrder
<1>3. SentOver(usdtSent, usdtConnects) \in Nat /\ n \in Nat \ {0} /\ second \in Nat
  BY <1>0, <1>1, SentOverNat
<1>4. new \in Entry
  BY <1>1, <1>3 DEF Entry
<1> HIDE DEF second, n
<1>5. /\ usdtSent' \in Seq(Entry) /\ DOMAIN usdtSent' = DOMAIN usdtSent \cup {last}
      /\ usdtSent'[last] = new /\ last \notin DOMAIN usdtSent
      /\ \A k \in DOMAIN usdtSent : usdtSent'[k] = usdtSent[k] /\ k < last
  BY <1>1, <1>2, <1>4
<1>6. \A c : SentOver(usdtSent', c) = IF c = usdtConnects THEN SentOver(usdtSent, c) + 1 ELSE SentOver(usdtSent, c)
  <2> SUFFICES ASSUME NEW c
               PROVE  SentOver(usdtSent', c) = IF c = usdtConnects THEN SentOver(usdtSent, c) + 1 ELSE SentOver(usdtSent, c)
    OBVIOUS
  <2> DEFINE before == {k \in DOMAIN usdtSent : usdtSent[k].connection = c}
  <2>1. {k \in DOMAIN usdtSent' : usdtSent'[k].connection = c}
          = IF c = usdtConnects THEN before \cup {last} ELSE before
    BY <1>5
  <2>2. IsFiniteSet(before) /\ last \notin before
    <3>1. before \in SUBSET (1 .. Len(usdtSent)) /\ Len(usdtSent) \in Nat
      BY <1>1
    <3> QED
      BY <3>1, <1>5, FS_Interval, FS_Subset
  <2> QED
    BY <2>1, <2>2, FS_AddElement DEF SentOver
<1>7. ConnectionInv'
  BY <1>1, <1>2, <1>5, <1>6 DEF ConnectionInv, n
<1>8. IdsAreCounted'
  <2> SUFFICES ASSUME NEW k \in DOMAIN usdtSent'
               PROVE  /\ usdtSent'[k].connection <= usdtConnects
                      /\ \E m \in Nat \ {0} :
                           /\ m <= SentOver(usdtSent', usdtSent'[k].connection)
                           /\ usdtSent'[k].id = usdtSent'[k].second * IdBlock + m
                      /\ usdtSent'[k].connection = usdtConnects =>
                           usdtSent'[k].second * IdBlock = rest.time
    BY <1>2 DEF IdsAreCounted
  <2>1. CASE k = last
    <3>1. SentOver(usdtSent', usdtConnects) = n
      BY <1>6 DEF n
    <3>2. usdtSent'[k] = new /\ new.id = second * IdBlock + n
      BY <1>1, <1>5, <2>1 DEF second
    <3> QED
      BY <1>1, <1>3, <3>1, <3>2 DEF second
  <2>2. CASE k \in DOMAIN usdtSent
    <3>1. /\ usdtSent[k].connection <= usdtConnects
          /\ \E m \in Nat \ {0} :
               /\ m <= SentOver(usdtSent, usdtSent[k].connection)
               /\ usdtSent[k].id = usdtSent[k].second * IdBlock + m
          /\ usdtSent[k].connection = usdtConnects => usdtSent[k].second * IdBlock = rest.time
      BY <2>2 DEF IdsInv, IdsAreCounted
    <3>2. SentOver(usdtSent, usdtSent[k].connection) \in Nat
      BY <1>1, SentOverNat
    <3>3. SentOver(usdtSent', usdtSent[k].connection) >= SentOver(usdtSent, usdtSent[k].connection)
      BY <1>6, <3>2
    <3>4. usdtSent'[k] = usdtSent[k]
      BY <1>5, <2>2
    <3>5. PICK m \in Nat \ {0} : /\ m <= SentOver(usdtSent, usdtSent[k].connection)
                                 /\ usdtSent[k].id = usdtSent[k].second * IdBlock + m
      BY <3>1
    <3>6. SentOver(usdtSent', usdtSent[k].connection) \in Nat
      BY <1>6, <3>2
    <3>7. m <= SentOver(usdtSent', usdtSent[k].connection)
      BY <3>2, <3>3, <3>5, <3>6
    <3> QED
      BY <3>1, <3>4, <3>5, <3>7
  <2> QED
    BY <1>5, <2>1, <2>2
<1>9. IdsGrow'
  <2> SUFFICES ASSUME NEW i \in DOMAIN usdtSent', NEW j \in DOMAIN usdtSent', i < j,
                      usdtSent'[i].connection = usdtSent'[j].connection
               PROVE  usdtSent'[i].id < usdtSent'[j].id
    BY DEF IdsGrow
  <2>1. i \in DOMAIN usdtSent
    <3>1. i \in 1 .. last /\ j \in 1 .. last /\ last \in Nat
      BY <1>1, <1>5
    <3> QED
      BY <1>1, <1>5, <3>1
  <2>2. CASE j = last
    <3>1. usdtSent'[j] = new /\ usdtSent'[i] = usdtSent[i] /\ usdtSent[i] \in Entry
      BY <1>1, <1>5, <2>1, <2>2
    <3>2. usdtSent[i].connection = usdtConnects
      BY <3>1
    <3>3. PICK m \in Nat \ {0} : /\ m <= SentOver(usdtSent, usdtConnects)
                                 /\ usdtSent[i].id = usdtSent[i].second * IdBlock + m
      BY <2>1, <3>2 DEF IdsInv, IdsAreCounted
    <3>4. usdtSent[i].second * IdBlock = rest.time
      BY <2>1, <3>2 DEF IdsInv, IdsAreCounted
    <3>5. usdtSent[i].id = rest.time + m /\ m < n
      BY <1>3, <3>3, <3>4 DEF n
    <3> QED
      BY <1>1, <1>3, <3>1, <3>5
  <2>3. CASE j \in DOMAIN usdtSent
    BY <1>5, <2>1, <2>3 DEF IdsInv, IdsGrow
  <2> QED
    BY <1>5, <2>2, <2>3
<1> QED
  BY <1>7, <1>8, <1>9 DEF IdsInv

LEMMA ConnectKeepsIds ==
  ASSUME IdsInv, UsdtConnect
  PROVE  IdsInv'
<1>0. IdBlock \in Nat /\ IdBlock > 0
  BY GatewaysAssumption
<1>1. clock \in Nat /\ usdtConnects \in Nat /\ usdtSent \in Seq(Entry)
  BY DEF IdsInv, ConnectionInv
<1>2. /\ rest' = [time |-> clock * IdBlock, count |-> 0] /\ usdtConnects' = usdtConnects + 1
      /\ clock' = clock /\ usdtSent' = usdtSent
  BY DEF UsdtConnect
<1>3. \A k \in DOMAIN usdtSent : usdtSent[k].connection \in Nat /\ usdtSent[k].connection <= usdtConnects
  <2> SUFFICES ASSUME NEW k \in DOMAIN usdtSent
               PROVE  usdtSent[k].connection \in Nat /\ usdtSent[k].connection <= usdtConnects
    OBVIOUS
  <2>1. usdtSent[k] \in Entry
    BY <1>1
  <2> QED
    BY <2>1 DEF IdsInv, IdsAreCounted, Entry
<1>4. SentOver(usdtSent, usdtConnects + 1) = 0
  <2>1. {k \in DOMAIN usdtSent : usdtSent[k].connection = usdtConnects + 1} = {}
    BY <1>1, <1>3
  <2> QED
    BY <2>1, FS_EmptySet DEF SentOver
<1>5. \A c : SentOver(usdtSent', c) = SentOver(usdtSent, c)
  BY <1>2 DEF SentOver
<1>6. clock * IdBlock \in Nat /\ clock * IdBlock = ((clock * IdBlock) \div IdBlock) * IdBlock
  BY <1>0, <1>1, SMTT(30)
<1>7. ConnectionInv'
  BY <1>1, <1>2, <1>4, <1>5, <1>6 DEF ConnectionInv
<1>8. IdsAreCounted'
  BY <1>1, <1>2, <1>3, <1>5 DEF IdsInv, IdsAreCounted
<1>9. IdsGrow'
  BY <1>2 DEF IdsInv, IdsGrow
<1> QED
  BY <1>7, <1>8, <1>9 DEF IdsInv

LEMMA IdsKept ==
  ASSUME IdsInv, clock' \in Nat, UNCHANGED <<rest, usdtConnects, usdtSent>>
  PROVE  IdsInv'
  BY DEF IdsInv, ConnectionInv, IdsAreCounted, IdsGrow, SentOver

\* Two orders of different connections share an id only in one of two ways.
LEMMA IdsDiffer == IdsInv => IdsUnique
<1> SUFFICES ASSUME IdsInv, NEW i \in DOMAIN usdtSent, NEW j \in DOMAIN usdtSent, i < j,
                    usdtSent[i].id = usdtSent[j].id
             PROVE  /\ usdtSent[i].connection # usdtSent[j].connection
                    /\ usdtSent[j].second <= usdtSent[i].second \/ SentOver(usdtSent, usdtSent[i].connection) > IdBlock
  BY DEF IdsUnique, SentIn, SentOver
<1>0. IdBlock \in Nat /\ IdBlock > 0
  BY GatewaysAssumption
<1>1. usdtSent[i] \in Entry /\ usdtSent[j] \in Entry /\ usdtSent \in Seq(Entry)
  BY DEF IdsInv, ConnectionInv
<1>2. usdtSent[i].connection # usdtSent[j].connection
  BY <1>1 DEF IdsInv, IdsGrow, Entry
<1> DEFINE a == usdtSent[i].second
           b == usdtSent[j].second
           sent == SentOver(usdtSent, usdtSent[i].connection)
<1>3. a \in Nat /\ b \in Nat /\ sent \in Nat
  BY <1>1, SentOverNat DEF Entry
<1>4. PICK n \in Nat \ {0} : n <= sent /\ usdtSent[i].id = a * IdBlock + n
  BY DEF IdsInv, IdsAreCounted
<1>5. PICK m \in Nat \ {0} : usdtSent[j].id = b * IdBlock + m
  BY DEF IdsInv, IdsAreCounted
<1> HIDE DEF a, b, sent
<1>6. ASSUME b > a PROVE sent > IdBlock
  <2>1. b * IdBlock >= a * IdBlock + IdBlock
    <3>1. PICK d \in Nat : b = a + 1 + d
      <4>1. b - a - 1 \in Nat /\ b = a + 1 + (b - a - 1)
        BY <1>3, <1>6
      <4> QED
        BY <4>1
    <3>2. b * IdBlock = a * IdBlock + IdBlock + d * IdBlock
      BY <1>0, <1>3, <3>1
    <3>3. d * IdBlock \in Nat /\ a * IdBlock \in Nat
      BY <1>0, <1>3, <3>1
    <3> QED
      BY <1>0, <3>2, <3>3
  <2>2. a * IdBlock \in Nat /\ b * IdBlock \in Nat
    BY <1>0, <1>3
  <2>3. a * IdBlock + n = b * IdBlock + m
    BY <1>4, <1>5
  <2> QED
    BY <1>0, <1>3, <1>4, <1>5, <2>1, <2>2, <2>3
<1> QED
  BY <1>2, <1>3, <1>6 DEF a, b, sent

------------------------------------------------------------------------------
(* Trades *)

LEMMA OkxSendKeeps ==
  ASSUME OkxInv, SendOkxOrder
  PROVE  OkxInv'
<1> DEFINE last == Len(okxOrders) + 1
<1>1. OkxTyped /\ OkxCounted
  BY DEF OkxInv
<1>2. /\ okxOrders' = Append(okxOrders, 0) /\ okxTraded' = Append(okxTraded, 0)
      /\ executed' = Append(executed, 0) /\ newest' = Append(newest, 0) /\ overtaken' = overtaken
  BY DEF SendOkxOrder
<1>3. OkxTyped'
  BY <1>1, <1>2 DEF OkxTyped
<1>4. ASSUME NEW id \in DOMAIN okxOrders'
      PROVE  /\ okxOrders'[id] <= newest'[id] /\ newest'[id] <= okxTraded'[id]
             /\ id \notin overtaken => okxOrders'[id] = newest'[id] /\ okxTraded'[id] = newest'[id]
  <2>1. CASE id = last
    <3>1. okxOrders'[id] = 0 /\ newest'[id] = 0 /\ okxTraded'[id] = 0
      BY <1>1, <1>2, <2>1 DEF OkxTyped
    <3> QED
      BY <3>1
  <2>2. CASE id # last
    <3>1. id \in DOMAIN okxOrders
      BY <1>1, <1>2, <2>2 DEF OkxTyped
    <3>2. okxOrders'[id] = okxOrders[id] /\ newest'[id] = newest[id] /\ okxTraded'[id] = okxTraded[id]
      BY <1>1, <1>2, <3>1 DEF OkxTyped
    <3> QED
      BY <1>1, <3>1, <3>2 DEF OkxCounted
  <2> QED
    BY <2>1, <2>2
<1> QED
  BY <1>2, <1>3, <1>4 DEF OkxInv, OkxCounted

LEMMA OkxExecutesKeeps ==
  ASSUME OkxInv, NEW id \in DOMAIN okxOrders, OkxExecutes(id)
  PROVE  OkxInv'
<1>1. OkxTyped /\ OkxCounted
  BY DEF OkxInv
<1>2. executed' = [executed EXCEPT ![id] = @ + 1] /\ UNCHANGED <<okxOrders, okxTraded, newest, overtaken>>
  BY DEF OkxExecutes
<1>3. executed' \in Seq(Nat) /\ Len(executed') = Len(executed)
  BY <1>1, <1>2, SMTT(60) DEF OkxTyped
<1> QED
  BY <1>1, <1>2, <1>3 DEF OkxInv, OkxTyped, OkxCounted

LEMMA OkxUpdateKeeps ==
  ASSUME OkxInv, NEW id \in DOMAIN okxOrders, NEW traded \in 0 .. executed[id], OkxOrderUpdate(id, traded)
  PROVE  OkxInv'
<1>1. OkxTyped /\ OkxCounted
  BY DEF OkxInv
<1> DEFINE known == okxOrders[id]
           most == newest[id]
           made == okxTraded[id]
<1>2. known \in Nat /\ most \in Nat /\ made \in Nat /\ traded \in Nat
  BY <1>1, SMTT(60) DEF OkxTyped
<1>3. /\ known <= most /\ most <= made
      /\ id \notin overtaken => known = most /\ made = most
  BY <1>1 DEF OkxCounted
<1>4. /\ okxOrders' = [okxOrders EXCEPT ![id] = traded]
      /\ okxTraded' = [okxTraded EXCEPT ![id] = made + (IF traded > known THEN traded - known ELSE 0)]
      /\ newest' = [newest EXCEPT ![id] = IF traded > most THEN traded ELSE most]
      /\ overtaken' = IF traded < most THEN overtaken \cup {id} ELSE overtaken
      /\ executed' = executed
  BY DEF OkxOrderUpdate, Updated, TradedNow
<1>5. /\ okxOrders' \in Seq(Nat) /\ Len(okxOrders') = Len(okxOrders)
      /\ newest' \in Seq(Nat) /\ Len(newest') = Len(okxOrders)
  BY <1>1, <1>2, <1>4 DEF OkxTyped
<1>6. okxTraded' \in Seq(Nat) /\ Len(okxTraded') = Len(okxOrders)
  <2>1. made + (IF traded > known THEN traded - known ELSE 0) \in Nat
    BY <1>2
  <2> QED
    BY <1>1, <1>4, <2>1 DEF OkxTyped
<1>7. OkxTyped'
  BY <1>1, <1>4, <1>5, <1>6 DEF OkxTyped
<1>8. /\ okxOrders'[id] = traded
      /\ okxTraded'[id] = made + (IF traded > known THEN traded - known ELSE 0)
      /\ newest'[id] = IF traded > most THEN traded ELSE most
  BY <1>1, <1>4, SMTT(60) DEF OkxTyped
<1>9. \A other \in DOMAIN okxOrders : other # id =>
        okxOrders'[other] = okxOrders[other] /\ okxTraded'[other] = okxTraded[other] /\ newest'[other] = newest[other]
  BY <1>1, <1>4 DEF OkxTyped
<1>10. /\ okxOrders'[id] <= newest'[id] /\ newest'[id] <= okxTraded'[id]
       /\ id \notin overtaken' => okxOrders'[id] = newest'[id] /\ okxTraded'[id] = newest'[id]
  <2> HIDE DEF known, most, made
  <2>1. traded <= (IF traded > most THEN traded ELSE most)
    BY <1>2
  <2>2. (IF traded > most THEN traded ELSE most) <= made + (IF traded > known THEN traded - known ELSE 0)
    BY <1>2, <1>3
  <2>3. ASSUME id \notin overtaken'
        PROVE  okxOrders'[id] = newest'[id] /\ okxTraded'[id] = newest'[id]
    <3>1. id \notin overtaken /\ ~(traded < most)
      BY <1>4, <2>3
    <3> QED
      BY <1>2, <1>3, <1>8, <3>1
  <2> QED
    BY <1>8, <2>1, <2>2, <2>3
<1>11. OkxCounted'
  <2> SUFFICES ASSUME NEW other \in DOMAIN okxOrders'
               PROVE  /\ okxOrders'[other] <= newest'[other] /\ newest'[other] <= okxTraded'[other]
                      /\ other \notin overtaken' => okxOrders'[other] = newest'[other] /\ okxTraded'[other] = newest'[other]
    BY DEF OkxCounted
  <2>1. other \in DOMAIN okxOrders
    BY <1>1, <1>4 DEF OkxTyped
  <2>2. CASE other = id
    BY <1>10, <2>2
  <2>3. CASE other # id
    BY <1>1, <1>4, <1>9, <2>1, <2>3 DEF OkxCounted
  <2> QED
    BY <2>2, <2>3
<1> QED
  BY <1>7, <1>11 DEF OkxInv

LEMMA FillsFollow == OkxInv /\ NoUsdtTrades => FillsAddUp
<1> SUFFICES ASSUME OkxInv, NoUsdtTrades, NEW id \in DOMAIN okxOrders
             PROVE  IF id \in overtaken THEN okxTraded[id] >= newest[id] ELSE okxTraded[id] = newest[id]
  BY DEF FillsAddUp, NoUsdtTrades
<1>1. okxTraded[id] \in Nat /\ newest[id] \in Nat
  BY DEF OkxInv, OkxTyped
<1> QED
  BY <1>1 DEF OkxInv, OkxCounted

------------------------------------------------------------------------------
(* Market data *)

\* What is listed is what the symbols' lists hold.
LEMMA ListedMember ==
  ASSUME NEW x
  PROVE  x \in Listed <=> \E s \in DOMAIN subscriptions : x \in Range(subscriptions[s])
  BY DEF Listed

LEMMA SubscribeKeeps ==
  ASSUME FeedsInv, NEW symbol \in FeedSymbols, NEW streams \in Seq(Stream),
         \A x \in Range(streams) : x[1] = symbol,
         Subscribe(symbol, streams)
  PROVE  FeedsInv'
<1>1. StreamsOfSymbol /\ WantedBefore /\ FeedsListed
  BY DEF FeedsInv
<1>2. /\ subscriptions' = [s \in DOMAIN subscriptions \cup {symbol} |->
                             IF s = symbol THEN Streams(s) \o streams ELSE subscriptions[s]]
      /\ wanted' = wanted \cup {<<stream, usdtConnects>> : stream \in Range(streams)}
      /\ usdtConnects' = usdtConnects
  BY DEF Subscribe, restVars
<1>3. Streams(symbol) \in Seq(Stream) /\ \A x \in Range(Streams(symbol)) : x[1] = symbol
  BY <1>1 DEF Streams, StreamsOfSymbol, Range
<1>4. Range(Streams(symbol) \o streams) = Range(Streams(symbol)) \cup Range(streams)
  BY <1>3, RangeOfConcatenation
<1>5. StreamsOfSymbol'
  <2> SUFFICES ASSUME NEW s \in DOMAIN subscriptions'
               PROVE  subscriptions'[s] \in Seq(Stream) /\ \A x \in Range(subscriptions'[s]) : x[1] = s
    BY DEF StreamsOfSymbol
  <2>1. CASE s = symbol
    <3>1. subscriptions'[s] = Streams(symbol) \o streams
      BY <1>2, <2>1
    <3>2. Streams(symbol) \o streams \in Seq(Stream)
      BY <1>3
    <3> QED
      BY <1>3, <1>4, <2>1, <3>1, <3>2
  <2>2. CASE s # symbol
    BY <1>1, <1>2, <2>2 DEF StreamsOfSymbol
  <2> QED
    BY <2>1, <2>2
<1>6. WantedBefore'
  BY <1>1, <1>2 DEF WantedBefore
<1>7. ASSUME NEW x PROVE x \in Listed' <=> x \in Listed \/ x \in Range(streams)
  <2>1. x \in Listed' <=> \E s \in DOMAIN subscriptions' : x \in Range(subscriptions'[s])
    BY DEF Listed
  <2>2. x \in Range(Streams(symbol)) => x \in Listed
    BY ListedMember DEF Streams, Range
  <2>3. subscriptions'[symbol] = Streams(symbol) \o streams /\ symbol \in DOMAIN subscriptions'
    BY <1>2
  <2>4. \A s \in DOMAIN subscriptions : s \in DOMAIN subscriptions' /\ (s # symbol => subscriptions'[s] = subscriptions[s])
    BY <1>2
  <2>5. symbol \in DOMAIN subscriptions => Streams(symbol) = subscriptions[symbol]
    BY DEF Streams
  <2>6. ASSUME x \in Listed' PROVE x \in Listed \/ x \in Range(streams)
    <3>1. PICK s \in DOMAIN subscriptions' : x \in Range(subscriptions'[s])
      BY <2>1, <2>6
    <3>2. CASE s = symbol
      BY <1>4, <2>2, <2>3, <3>1, <3>2
    <3>3. CASE s # symbol
      <4>1. s \in DOMAIN subscriptions
        BY <1>2, <3>3
      <4> QED
        BY <2>4, <3>1, <3>3, <4>1, ListedMember
    <3> QED
      BY <3>2, <3>3
  <2>7. ASSUME x \in Listed PROVE x \in Listed'
    <3>1. PICK s \in DOMAIN subscriptions : x \in Range(subscriptions[s])
      BY <2>7, ListedMember
    <3>2. CASE s = symbol
      BY <1>4, <2>1, <2>3, <2>5, <3>1, <3>2
    <3>3. CASE s # symbol
      BY <2>1, <2>4, <3>1, <3>3
    <3> QED
      BY <3>2, <3>3
  <2>8. x \in Range(streams) => x \in Listed'
    BY <1>4, <2>1, <2>3
  <2> QED
    BY <2>6, <2>7, <2>8
<1>8. FeedsListed'
  <2> DEFINE asked == {w[1] : w \in {w \in wanted : w[2] = usdtConnects}}
             askedNow == {w[1] : w \in {w \in wanted' : w[2] = usdtConnects}}
  <2>1. askedNow = asked \cup Range(streams)
    <3>1. ASSUME NEW x \in askedNow PROVE x \in asked \cup Range(streams)
      <4>1. PICK w \in wanted' : w[2] = usdtConnects /\ x = w[1]
        OBVIOUS
      <4>2. CASE w \in wanted
        BY <4>1, <4>2
      <4>3. CASE \E stream \in Range(streams) : w = <<stream, usdtConnects>>
        BY <4>1, <4>3
      <4> QED
        BY <1>2, <4>2, <4>3
    <3>2. asked \subseteq askedNow
      BY <1>2
    <3>3. ASSUME NEW x \in Range(streams) PROVE x \in askedNow
      <4> DEFINE w == <<x, usdtConnects>>
      <4>1. w \in wanted' /\ w[2] = usdtConnects /\ w[1] = x
        BY <1>2
      <4> QED
        BY <4>1
    <3> QED
      BY <3>1, <3>2, <3>3
  <2>2. asked = Listed
    BY <1>1 DEF FeedsListed
  <2>3. Listed' = Listed \cup Range(streams)
    BY <1>7
  <2> QED
    BY <1>2, <2>1, <2>2, <2>3 DEF FeedsListed
<1> QED
  BY <1>5, <1>6, <1>8 DEF FeedsInv

LEMMA UnsubscribeKeeps ==
  ASSUME FeedsInv, NEW symbol, UnsubscribeTick(symbol)
  PROVE  FeedsInv'
<1>1. StreamsOfSymbol /\ WantedBefore /\ FeedsListed
  BY DEF FeedsInv
<1>2. /\ subscriptions' = [s \in DOMAIN subscriptions \ {symbol} |-> subscriptions[s]]
      /\ wanted' = {w \in wanted : w[1][1] # symbol} /\ usdtConnects' = usdtConnects
  BY DEF UnsubscribeTick, restVars
<1>3. StreamsOfSymbol'
  BY <1>1, <1>2 DEF StreamsOfSymbol
<1>4. WantedBefore'
  BY <1>1, <1>2 DEF WantedBefore
<1>5. Listed' = {x \in Listed : x[1] # symbol}
  <2>1. ASSUME NEW x PROVE x \in Listed' <=> x \in Listed /\ x[1] # symbol
    <3>1. x \in Listed' <=> \E s \in DOMAIN subscriptions' : x \in Range(subscriptions'[s])
      BY DEF Listed
    <3>2. \A s \in DOMAIN subscriptions : x \in Range(subscriptions[s]) => x[1] = s
      BY <1>1 DEF StreamsOfSymbol
    <3>3. \A s : s \in DOMAIN subscriptions' <=> s \in DOMAIN subscriptions /\ s # symbol
      BY <1>2
    <3>4. \A s \in DOMAIN subscriptions' : subscriptions'[s] = subscriptions[s]
      BY <1>2
    <3> QED
      BY <3>1, <3>2, <3>3, <3>4, ListedMember
  <2> QED
    BY <2>1
<1>6. FeedsListed'
  <2>1. {w[1] : w \in {w \in wanted' : w[2] = usdtConnects}}
          = {x \in {w[1] : w \in {w \in wanted : w[2] = usdtConnects}} : x[1] # symbol}
    BY <1>2
  <2> QED
    BY <1>1, <1>2, <1>5, <2>1 DEF FeedsListed
<1> QED
  BY <1>3, <1>4, <1>6 DEF FeedsInv

LEMMA ConnectKeepsFeeds ==
  ASSUME FeedsInv, UsdtConnect
  PROVE  FeedsInv'
<1>1. WantedBefore
  BY DEF FeedsInv
<1>2. DOMAIN subscriptions' = {} /\ wanted' = wanted /\ usdtConnects' = usdtConnects + 1
  BY DEF UsdtConnect
<1>3. Listed' = {}
  BY <1>2 DEF Listed
<1>4. \A w \in wanted' : w[2] # usdtConnects'
  BY <1>1, <1>2 DEF WantedBefore
<1>5. WantedBefore'
  BY <1>1, <1>2 DEF WantedBefore
<1> QED
  BY <1>2, <1>3, <1>4, <1>5 DEF FeedsInv, StreamsOfSymbol, FeedsListed

LEMMA FeedsKept ==
  ASSUME FeedsInv, UNCHANGED <<subscriptions, wanted, usdtConnects>>
  PROVE  FeedsInv'
  BY SMTT(60) DEF FeedsInv, StreamsOfSymbol, WantedBefore, FeedsListed, Listed

LEMMA UsdtKeeps == GatewaysInv /\ UsdtNext => GatewaysInv'
<1> SUFFICES ASSUME GatewaysInv, UsdtNext PROVE GatewaysInv'
  OBVIOUS
<1>1. IdsInv /\ NoUsdtTrades /\ OkxInv /\ FeedsInv
  BY DEF GatewaysInv
<1>2. UNCHANGED okxVars => OkxInv'
  BY <1>1 DEF okxVars, OkxInv, OkxTyped, OkxCounted
<1>3. UNCHANGED <<usdtOrders, usdtTrades>> => NoUsdtTrades'
  BY <1>1 DEF NoUsdtTrades
<1>4. UNCHANGED restVars => IdsInv'
  <2> SUFFICES ASSUME UNCHANGED restVars PROVE IdsInv'
    OBVIOUS
  <2>1. clock' \in Nat
    BY <1>1 DEF restVars, IdsInv, ConnectionInv
  <2> QED
    BY <1>1, <2>1, IdsKept DEF restVars
<1>5. CASE ClockMoves
  <2>1. clock' \in Nat
    BY <1>5, GatewaysAssumption DEF ClockMoves
  <2> QED
    BY <1>1, <1>2, <1>3, <1>5, <2>1, IdsKept, FeedsKept DEF ClockMoves, feedVars, GatewaysInv
<1>6. CASE UsdtConnect
  <2>1. UNCHANGED <<usdtOrders, usdtTrades, okxVars>>
    BY <1>6 DEF UsdtConnect
  <2> QED
    BY <1>1, <1>2, <1>3, <1>6, <2>1, ConnectKeepsIds, ConnectKeepsFeeds DEF GatewaysInv
<1>7. CASE UsdtClose
  <2>1. clock' \in Nat
    BY <1>1, <1>7 DEF UsdtClose, IdsInv, ConnectionInv
  <2> QED
    BY <1>1, <1>2, <1>3, <1>7, <2>1, IdsKept, FeedsKept DEF UsdtClose, feedVars, GatewaysInv
<1>8. CASE SendUsdtOrder
  <2>1. UNCHANGED <<usdtConnects, feedVars, usdtOrders, usdtTrades, okxVars>>
    BY <1>8 DEF SendUsdtOrder
  <2>2. FeedsInv'
    BY <1>1, <2>1, FeedsKept DEF feedVars
  <2> QED
    BY <1>1, <1>2, <1>3, <1>8, <2>1, <2>2, SendKeepsIds DEF GatewaysInv
<1>9. ASSUME NEW k \in DOMAIN usdtSent, NEW traded \in 0 .. OrderSize, UsdtOrderUpdate(usdtSent[k].id, traded)
      PROVE  GatewaysInv'
  <2>1. NoUsdtTrades'
    BY <1>1, <1>9 DEF UsdtOrderUpdate, TradedNow, Updated, NoUsdtTrades
  <2>2. UNCHANGED <<restVars, feedVars, okxVars>>
    BY <1>9 DEF UsdtOrderUpdate
  <2>3. FeedsInv'
    BY <1>1, <2>2, FeedsKept DEF feedVars, restVars
  <2> QED
    BY <1>2, <1>4, <2>1, <2>2, <2>3 DEF GatewaysInv
<1>10. ASSUME NEW s \in FeedSymbols, NEW streams \in Seq(Stream), \A x \in Range(streams) : x[1] = s,
              Subscribe(s, streams)
       PROVE  GatewaysInv'
  <2>1. UNCHANGED <<restVars, usdtOrders, usdtTrades, okxVars>>
    BY <1>10 DEF Subscribe
  <2>2. FeedsInv'
    BY <1>1, <1>10, SubscribeKeeps
  <2> QED
    BY <1>2, <1>3, <1>4, <2>1, <2>2 DEF GatewaysInv
<1>11. ASSUME NEW s \in FeedSymbols, SubscribeTick(s) PROVE GatewaysInv'
  <2> DEFINE streams == <<<<s, "ticker">>, <<s, "depth5">>>>
  <2>1. <<s, "ticker">> \in Stream /\ <<s, "depth5">> \in Stream
    BY DEF Stream
  <2>2. streams \in Seq(Stream)
    BY <2>1
  <2>3. DOMAIN streams = {1, 2} /\ streams[1] = <<s, "ticker">> /\ streams[2] = <<s, "depth5">>
    OBVIOUS
  <2>4. \A x \in Range(streams) : x[1] = s
    BY <2>3 DEF Range
  <2>5. Subscribe(s, streams)
    BY <1>11 DEF SubscribeTick
  <2> HIDE DEF streams
  <2> QED
    BY <1>10, <2>2, <2>4, <2>5
<1>12. ASSUME NEW s \in FeedSymbols, SubscribeBar(s) PROVE GatewaysInv'
  <2> DEFINE streams == <<<<s, "kline">>>>
  <2>1. <<s, "kline">> \in Stream
    BY DEF Stream
  <2>2. streams \in Seq(Stream)
    BY <2>1
  <2>3. DOMAIN streams = {1} /\ streams[1] = <<s, "kline">>
    OBVIOUS
  <2>4. \A x \in Range(streams) : x[1] = s
    BY <2>3 DEF Range
  <2>5. Subscribe(s, streams)
    BY <1>12 DEF SubscribeBar
  <2> HIDE DEF streams
  <2> QED
    BY <1>10, <2>2, <2>4, <2>5
<1>13. ASSUME NEW s \in FeedSymbols, UnsubscribeTick(s) PROVE GatewaysInv'
  <2>1. UNCHANGED <<restVars, usdtOrders, usdtTrades, okxVars>>
    BY <1>13 DEF UnsubscribeTick
  <2> QED
    BY <1>1, <1>2, <1>3, <1>4, <1>13, <2>1, UnsubscribeKeeps DEF GatewaysInv
<1>14. ASSUME NEW s \in FeedSymbols, TickerArrives(s) PROVE GatewaysInv'
  <2>1. UNCHANGED <<subscriptions, wanted, restVars, usdtOrders, usdtTrades, okxVars>>
    BY <1>14 DEF TickerArrives
  <2>2. FeedsInv'
    BY <1>1, <2>1, FeedsKept DEF restVars
  <2> QED
    BY <1>2, <1>3, <1>4, <2>1, <2>2 DEF GatewaysInv
<1> QED
  BY <1>5, <1>6, <1>7, <1>8, <1>9, <1>11, <1>12, <1>13, <1>14 DEF UsdtNext

LEMMA OkxKeeps == GatewaysInv /\ OkxNext => GatewaysInv'
<1> SUFFICES ASSUME GatewaysInv, OkxNext PROVE GatewaysInv'
  OBVIOUS
<1>1. IdsInv /\ NoUsdtTrades /\ OkxInv /\ FeedsInv
  BY DEF GatewaysInv
<1>2. UNCHANGED usdtVars
  BY DEF OkxNext, OkxConnect, OkxClose, SendOkxOrder, OkxExecutes, OkxOrderUpdate
<1>3. IdsInv'
  <2>1. clock' \in Nat
    BY <1>1, <1>2 DEF usdtVars, restVars, IdsInv, ConnectionInv
  <2> QED
    BY <1>1, <1>2, <2>1, IdsKept DEF usdtVars, restVars
<1>4. NoUsdtTrades'
  BY <1>1, <1>2 DEF usdtVars, NoUsdtTrades
<1>5. FeedsInv'
  BY <1>1, <1>2, FeedsKept DEF usdtVars, restVars, feedVars
<1>6. OkxInv'
  <2>1. CASE OkxConnect \/ OkxClose
    <3>1. UNCHANGED <<okxOrders, okxTraded, executed, newest, overtaken>>
      BY <2>1 DEF OkxConnect, OkxClose
    <3> QED
      BY <1>1, <3>1 DEF OkxInv, OkxTyped, OkxCounted
  <2>2. CASE SendOkxOrder
    BY <1>1, <2>2, OkxSendKeeps
  <2>3. ASSUME NEW id \in DOMAIN okxOrders, OkxExecutes(id) PROVE OkxInv'
    BY <1>1, <2>3, OkxExecutesKeeps
  <2>4. ASSUME NEW id \in DOMAIN okxOrders, NEW traded \in 0 .. executed[id], OkxOrderUpdate(id, traded)
        PROVE  OkxInv'
    BY <1>1, <2>4, OkxUpdateKeeps
  <2> QED
    BY <2>1, <2>2, <2>3, <2>4 DEF OkxNext
<1> QED
  BY <1>3, <1>4, <1>5, <1>6 DEF GatewaysInv

LEMMA GatewaysKept == GatewaysInv /\ UNCHANGED gatewayVars => GatewaysInv'
<1> SUFFICES ASSUME GatewaysInv, UNCHANGED gatewayVars PROVE GatewaysInv'
  OBVIOUS
<1>1. clock' \in Nat
  BY DEF gatewayVars, usdtVars, restVars, GatewaysInv, IdsInv, ConnectionInv
<1>2. IdsInv' /\ FeedsInv'
  BY <1>1, IdsKept, FeedsKept DEF GatewaysInv, gatewayVars, usdtVars, restVars, feedVars
<1>3. OkxInv' /\ NoUsdtTrades'
  BY DEF GatewaysInv, gatewayVars, usdtVars, okxVars, OkxInv, OkxTyped, OkxCounted, NoUsdtTrades
<1> QED
  BY <1>2, <1>3 DEF GatewaysInv

LEMMA GatewaysReport == GatewaysInv => GatewaysAgree
  BY IdsDiffer, FillsFollow DEF GatewaysInv, GatewaysAgree, FeedsInv

LEMMA GatewaysAlone == [Next]_mcVars => [UsdtNext \/ OkxNext]_gatewayVars
  BY DEF Next, mcVars, tradingVars, Pool, Logger, BarsRun, RingRuns, Smoother, DatabaseRuns, RoutingRuns,
         UsdtRuns, OkxRuns, OmsRuns, OthersThanThreads, OthersThanData, OthersThanTrading

------------------------------------------------------------------------------
(* The OMS behind several gateways *)

IsReport(d) == d \in RecordData /\ (d.kind = "order" => d.id \in OmsKeys)
QueueInv ==
  /\ reported \in Nat /\ eventQueue \in Seq(RecordData)
  /\ \A i \in DOMAIN eventQueue : IsReport(eventQueue[i]) /\ eventQueue[i].serial <= reported
  /\ \A i, j \in DOMAIN eventQueue : i < j => eventQueue[i].serial < eventQueue[j].serial
\* What is stored under an id.
Newest(kind, id) ==
  CASE kind = "order" -> omsOrders[id]
    [] kind = "trade" -> IF id \in DOMAIN omsTrades THEN omsTrades[id] ELSE OmsNoOrder
    [] OTHER -> IF <<kind, id>> \in DOMAIN omsRecords THEN omsRecords[<<kind, id>>] ELSE OmsNoOrder
HandledInv ==
  \A k \in DOMAIN handledLast :
    /\ k = <<k[1], k[2], k[3]>> /\ k[3] \in RecordIds /\ (k[1] = "order" => k[3] \in OmsKeys)
    /\ handledLast[k] \in Nat /\ handledLast[k] <= reported
    /\ \A i \in DOMAIN eventQueue : handledLast[k] < eventQueue[i].serial
AnswersNewest ==
  \A k \in DOMAIN handledLast :
    /\ Newest(k[1], k[3]) \in RecordData
    /\ <<k[1], Newest(k[1], k[3]).gateway, k[3]>> \in DOMAIN handledLast
    /\ handledLast[<<k[1], Newest(k[1], k[3]).gateway, k[3]>>] = Newest(k[1], k[3]).serial
    /\ handledLast[k] <= Newest(k[1], k[3]).serial
ActiveFollows ==
  /\ omsOrders \in [OmsKeys -> RecordData \cup {OmsNoOrder}]
  /\ omsActive = [id \in OmsKeys |-> IF omsOrders[id] # OmsNoOrder /\ IsActive(omsOrders[id])
                                     THEN omsOrders[id] ELSE OmsNoOrder]
TradesHandled ==
  \A id \in DOMAIN omsTrades :
    /\ <<"trade", omsTrades[id].gateway, id>> \in DOMAIN handledLast
    /\ handledLast[<<"trade", omsTrades[id].gateway, id>>] = omsTrades[id].serial
RecordsInv == QueueInv /\ HandledInv /\ AnswersNewest /\ ActiveFollows /\ TradesHandled

LEMMA NoOrderIsNoReport == OmsNoOrder \notin RecordData
  BY RecordsAssumption

LEMMA RecordsStart == RecordsInit => RecordsInv
<1> SUFFICES ASSUME RecordsInit PROVE RecordsInv
  OBVIOUS
<1>1. /\ omsOrders = [k \in OmsKeys |-> OmsNoOrder] /\ omsActive = [k \in OmsKeys |-> OmsNoOrder]
      /\ omsTrades = <<>> /\ eventQueue = <<>> /\ reported = 0 /\ DOMAIN handledLast = {}
  BY DEF RecordsInit, OmsInit
<1>2. QueueInv
  BY <1>1 DEF QueueInv
<1>3. ActiveFollows
  BY <1>1 DEF ActiveFollows
<1>4. TradesHandled
  BY <1>1 DEF TradesHandled
<1> QED
  BY <1>1, <1>2, <1>3, <1>4 DEF RecordsInv, HandledInv, AnswersNewest

LEMMA ReportsKeep ==
  ASSUME RecordsInv, NEW name \in GatewayNames, NEW kind \in ReportedKinds, NEW id \in Ids(kind),
         NEW status \in IF kind = "order" THEN {"NOTTRADED", "CANCELLED"} ELSE {"NONE"},
         Reports(name, kind, id, status)
  PROVE  RecordsInv'
<1> DEFINE new == [kind |-> kind, gateway |-> name, id |-> id, status |-> status, serial |-> reported + 1]
           last == Len(eventQueue) + 1
<1>1. /\ reported \in Nat /\ eventQueue \in Seq(RecordData)
      /\ \A i \in DOMAIN eventQueue : IsReport(eventQueue[i]) /\ eventQueue[i].serial <= reported
      /\ \A i, j \in DOMAIN eventQueue : i < j => eventQueue[i].serial < eventQueue[j].serial
  BY DEF RecordsInv, QueueInv
<1>2. reported' = reported + 1 /\ eventQueue' = Append(eventQueue, new)
  BY DEF Reports
<1>3. UNCHANGED <<omsOrders, omsActive, omsTrades, omsRecords, handledLast>>
  BY DEF Reports, omsVars
<1>4. IsReport(new)
  <2>1. id \in RecordIds /\ (kind = "order" => id \in OmsKeys)
    BY DEF Ids, RecordIds
  <2>2. status \in {"NOTTRADED", "CANCELLED", "NONE"}
    OBVIOUS
  <2> QED
    BY <1>1, <2>1, <2>2 DEF IsReport, RecordData
<1>5. /\ eventQueue' \in Seq(RecordData) /\ DOMAIN eventQueue' = DOMAIN eventQueue \cup {last}
      /\ eventQueue'[last] = new /\ last \notin DOMAIN eventQueue /\ last \in Nat
      /\ \A i \in DOMAIN eventQueue : eventQueue'[i] = eventQueue[i] /\ i < last
  BY <1>1, <1>2, <1>4 DEF IsReport
<1>6. \A i \in DOMAIN eventQueue : eventQueue[i].serial \in Nat
  <2>1. \A i \in DOMAIN eventQueue : eventQueue[i] \in RecordData
    BY <1>1
  <2> QED
    BY <2>1 DEF RecordData
<1>7. QueueInv'
  <2>1. \A i \in DOMAIN eventQueue' : IsReport(eventQueue'[i]) /\ eventQueue'[i].serial <= reported'
    BY <1>1, <1>2, <1>4, <1>5, <1>6
  <2>2. ASSUME NEW i \in DOMAIN eventQueue', NEW j \in DOMAIN eventQueue', i < j
        PROVE  eventQueue'[i].serial < eventQueue'[j].serial
    <3>1. i # last
      <4>1. j \in Nat /\ j <= last /\ i \in Nat
        BY <1>1, <1>5
      <4> QED
        BY <1>5, <2>2, <4>1
    <3> QED
      BY <1>1, <1>5, <1>6, <2>2, <3>1
  <2> QED
    BY <1>1, <1>2, <1>5, <2>1, <2>2 DEF QueueInv
<1>8. HandledInv'
  <2> SUFFICES ASSUME NEW k \in DOMAIN handledLast
               PROVE  /\ k = <<k[1], k[2], k[3]>> /\ k[3] \in RecordIds /\ (k[1] = "order" => k[3] \in OmsKeys)
                      /\ handledLast[k] \in Nat /\ handledLast[k] <= reported'
                      /\ \A i \in DOMAIN eventQueue' : handledLast[k] < eventQueue'[i].serial
    BY <1>3 DEF HandledInv
  <2>1. /\ k = <<k[1], k[2], k[3]>> /\ k[3] \in RecordIds /\ (k[1] = "order" => k[3] \in OmsKeys)
        /\ handledLast[k] \in Nat /\ handledLast[k] <= reported
        /\ \A i \in DOMAIN eventQueue : handledLast[k] < eventQueue[i].serial
    BY DEF RecordsInv, HandledInv
  <2>2. handledLast[k] < new.serial /\ handledLast[k] <= reported'
    BY <1>1, <1>2, <2>1
  <2> QED
    BY <1>5, <2>1, <2>2
<1>9. AnswersNewest' /\ ActiveFollows' /\ TradesHandled'
  BY <1>3 DEF RecordsInv, AnswersNewest, ActiveFollows, TradesHandled, Newest
<1> QED
  BY <1>7, <1>8, <1>9 DEF RecordsInv

\* Handling an event makes it the answer for its kind and id, and no other answer changes.
LEMMA HandleChangesOneAnswer ==
  ASSUME RecordsInv, eventQueue # <<>>, HandleEvent,
         NEW kind, NEW id, kind = "order" => id \in OmsKeys
  PROVE  Newest(kind, id)' = IF kind = Head(eventQueue).kind /\ id = Head(eventQueue).id
                             THEN Head(eventQueue) ELSE Newest(kind, id)
<1> DEFINE d == Head(eventQueue)
<1>1. IsReport(d)
  <2>1. eventQueue \in Seq(RecordData) /\ 1 \in DOMAIN eventQueue /\ d = eventQueue[1]
    BY DEF RecordsInv, QueueInv
  <2> QED
    BY <2>1 DEF RecordsInv, QueueInv
<1>2. omsOrders \in [OmsKeys -> RecordData \cup {OmsNoOrder}]
  BY DEF RecordsInv, ActiveFollows
<1> HIDE DEF d
<1>3. CASE d.kind = "order"
  <2>1. omsOrders' = [omsOrders EXCEPT ![d.id] = d] /\ UNCHANGED <<omsTrades, omsRecords>>
    BY <1>3 DEF HandleEvent, ProcessOrderEvent, d
  <2>2. d.id \in OmsKeys
    BY <1>1, <1>3 DEF IsReport
  <2> QED
    BY <1>2, <1>3, <2>1, <2>2 DEF Newest, d
<1>4. CASE d.kind = "trade"
  <2>1. /\ omsTrades' = [i \in DOMAIN omsTrades \cup {d.id} |-> IF i = d.id THEN d ELSE omsTrades[i]]
        /\ UNCHANGED <<omsOrders, omsRecords>>
    BY <1>4 DEF HandleEvent, ProcessTradeEvent, d
  <2> QED
    BY <1>4, <2>1 DEF Newest, d
<1>5. CASE d.kind \notin {"order", "trade"}
  <2>1. omsRecords' = Put(omsRecords, <<d.kind, d.id>>, d) /\ UNCHANGED <<omsOrders, omsTrades>>
    BY <1>5 DEF HandleEvent, StoreRecord, d
  <2>2. omsRecords' = [i \in DOMAIN omsRecords \cup {<<d.kind, d.id>>} |->
                         IF i = <<d.kind, d.id>> THEN d ELSE omsRecords[i]]
    BY <2>1 DEF Put
  <2>3. CASE kind = d.kind /\ id = d.id
    <3>1. omsRecords'[<<kind, id>>] = d /\ <<kind, id>> \in DOMAIN omsRecords'
      BY <2>2, <2>3
    <3> QED
      BY <1>5, <2>3, <3>1 DEF Newest, d
  <2>4. CASE ~(kind = d.kind /\ id = d.id)
    <3>1. <<kind, id>> # <<d.kind, d.id>>
      BY <2>4
    <3>2. /\ <<kind, id>> \in DOMAIN omsRecords' <=> <<kind, id>> \in DOMAIN omsRecords
          /\ <<kind, id>> \in DOMAIN omsRecords => omsRecords'[<<kind, id>>] = omsRecords[<<kind, id>>]
      BY <2>2, <3>1
    <3> QED
      BY <2>1, <2>4, <3>2 DEF Newest, d
  <2> QED
    BY <2>3, <2>4
<1> QED
  BY <1>3, <1>4, <1>5

LEMMA HandleKeeps ==
  ASSUME RecordsInv, HandleEvent
  PROVE  RecordsInv'
<1> DEFINE d == Head(eventQueue)
           key == <<d.kind, d.gateway, d.id>>
<1>1. /\ reported \in Nat /\ eventQueue \in Seq(RecordData)
      /\ \A i \in DOMAIN eventQueue : IsReport(eventQueue[i]) /\ eventQueue[i].serial <= reported
      /\ \A i, j \in DOMAIN eventQueue : i < j => eventQueue[i].serial < eventQueue[j].serial
  BY DEF RecordsInv, QueueInv
<1>2. /\ eventQueue # <<>> /\ eventQueue' = Tail(eventQueue) /\ reported' = reported
      /\ handledLast' = Put(handledLast, key, d.serial)
  BY DEF HandleEvent
<1>3. d = eventQueue[1] /\ 1 \in DOMAIN eventQueue /\ Len(eventQueue) \in Nat \ {0}
  BY <1>1, <1>2
<1>4. /\ IsReport(d) /\ d \in RecordData /\ d.serial \in Nat /\ d.serial <= reported
  <2>1. IsReport(d) /\ d.serial <= reported
    BY <1>1, <1>3
  <2> QED
    BY <2>1 DEF IsReport, RecordData
<1>5. /\ eventQueue' \in Seq(RecordData)
      /\ \A i \in DOMAIN eventQueue' : i + 1 \in DOMAIN eventQueue /\ eventQueue'[i] = eventQueue[i + 1] /\ i \in Nat
  BY <1>1, <1>2, <1>3
<1>6. \A i \in DOMAIN eventQueue' : d.serial < eventQueue'[i].serial
  <2>1. \A i \in DOMAIN eventQueue' : 1 < i + 1
    <3>1. DOMAIN eventQueue' = 1 .. Len(eventQueue')
      BY <1>5
    <3> QED
      BY <1>5, <3>1
  <2> QED
    BY <1>1, <1>3, <1>5, <2>1
<1> HIDE DEF d
<1>7. /\ DOMAIN handledLast' = DOMAIN handledLast \cup {key} /\ handledLast'[key] = d.serial
      /\ \A k \in DOMAIN handledLast : k # key => handledLast'[k] = handledLast[k]
  BY <1>2 DEF Put
<1>8. \A kind, id : (kind = "order" => id \in OmsKeys) =>
        Newest(kind, id)' = IF kind = d.kind /\ id = d.id THEN d ELSE Newest(kind, id)
  <2> TAKE kind, id
  <2> HAVE kind = "order" => id \in OmsKeys
  <2> QED
    BY <1>2, HandleChangesOneAnswer DEF d
<1>9. QueueInv'
  <2>1. \A i \in DOMAIN eventQueue' : IsReport(eventQueue'[i]) /\ eventQueue'[i].serial <= reported'
    BY <1>1, <1>2, <1>5
  <2>2. \A i, j \in DOMAIN eventQueue' : i < j => eventQueue'[i].serial < eventQueue'[j].serial
    BY <1>1, <1>5
  <2> QED
    BY <1>1, <1>2, <1>5, <2>1, <2>2 DEF QueueInv
<1>10. HandledInv'
  <2> SUFFICES ASSUME NEW k \in DOMAIN handledLast'
               PROVE  /\ k = <<k[1], k[2], k[3]>> /\ k[3] \in RecordIds /\ (k[1] = "order" => k[3] \in OmsKeys)
                      /\ handledLast'[k] \in Nat /\ handledLast'[k] <= reported
                      /\ \A i \in DOMAIN eventQueue' : handledLast'[k] < eventQueue'[i].serial
    BY <1>2 DEF HandledInv
  <2>1. CASE k = key
    <3>1. d.id \in RecordIds
      BY <1>4 DEF RecordData
    <3>2. k[1] = d.kind /\ k[3] = d.id /\ k = <<k[1], k[2], k[3]>>
      BY <2>1
    <3> QED
      BY <1>4, <1>6, <1>7, <2>1, <3>1, <3>2 DEF IsReport
  <2>2. CASE k # key
    <3>1. k \in DOMAIN handledLast /\ handledLast'[k] = handledLast[k]
      BY <1>7, <2>2
    <3>2. /\ k = <<k[1], k[2], k[3]>> /\ k[3] \in RecordIds /\ (k[1] = "order" => k[3] \in OmsKeys)
          /\ handledLast[k] \in Nat /\ handledLast[k] <= reported
          /\ \A i \in DOMAIN eventQueue : handledLast[k] < eventQueue[i].serial
      BY <3>1 DEF RecordsInv, HandledInv
    <3> QED
      BY <1>5, <3>1, <3>2
  <2> QED
    BY <2>1, <2>2
<1>11. \A k \in DOMAIN handledLast : handledLast[k] \in Nat /\ handledLast[k] < d.serial
  BY <1>3 DEF RecordsInv, HandledInv, d
<1>12. AnswersNewest'
  <2> SUFFICES ASSUME NEW k \in DOMAIN handledLast',
                      NEW a, a = Newest(k[1], k[3])'
               PROVE  /\ a \in RecordData /\ <<k[1], a.gateway, k[3]>> \in DOMAIN handledLast'
                      /\ handledLast'[<<k[1], a.gateway, k[3]>>] = a.serial /\ handledLast'[k] <= a.serial
    BY DEF AnswersNewest
  <2>1. k[1] = "order" => k[3] \in OmsKeys
    BY <1>10 DEF HandledInv
  <2>2. a = IF k[1] = d.kind /\ k[3] = d.id THEN d ELSE Newest(k[1], k[3])
    BY <1>8, <2>1
  <2>3. CASE k[1] = d.kind /\ k[3] = d.id
    <3>1. a = d /\ <<k[1], a.gateway, k[3]>> = key
      BY <2>2, <2>3
    <3>2. handledLast'[k] <= d.serial
      <4>1. CASE k = key
        BY <1>4, <1>7, <4>1
      <4>2. CASE k # key
        BY <1>4, <1>7, <1>11, <4>2
      <4> QED
        BY <4>1, <4>2
    <3> QED
      BY <1>4, <1>7, <3>1, <3>2
  <2>4. CASE ~(k[1] = d.kind /\ k[3] = d.id)
    <3>1. k # key /\ k \in DOMAIN handledLast
      BY <1>7, <2>4
    <3>2. /\ a \in RecordData /\ <<k[1], a.gateway, k[3]>> \in DOMAIN handledLast
          /\ handledLast[<<k[1], a.gateway, k[3]>>] = a.serial /\ handledLast[k] <= a.serial
      BY <2>2, <2>4, <3>1 DEF RecordsInv, AnswersNewest
    <3>3. <<k[1], a.gateway, k[3]>> # key
      BY <2>4
    <3> QED
      BY <1>7, <3>1, <3>2, <3>3
  <2> QED
    BY <2>3, <2>4
<1>13. ActiveFollows'
  <2>1. ActiveFollows
    BY DEF RecordsInv
  <2>2. CASE d.kind = "order"
    <3>1. /\ omsOrders' = [omsOrders EXCEPT ![d.id] = d]
          /\ omsActive' = [omsActive EXCEPT ![d.id] = IF IsActive(d) THEN d ELSE OmsNoOrder]
      BY <2>2 DEF HandleEvent, ProcessOrderEvent, d
    <3>2. d.id \in OmsKeys /\ d # OmsNoOrder
      BY <1>4, <2>2, NoOrderIsNoReport DEF IsReport
    <3>3. omsOrders' \in [OmsKeys -> RecordData \cup {OmsNoOrder}]
      BY <1>4, <2>1, <3>1 DEF ActiveFollows
    <3>4. ASSUME NEW id \in OmsKeys
          PROVE  omsActive'[id] = IF omsOrders'[id] # OmsNoOrder /\ IsActive(omsOrders'[id])
                                  THEN omsOrders'[id] ELSE OmsNoOrder
      BY <2>1, <3>1, <3>2 DEF ActiveFollows
    <3>5. omsActive' = [id \in OmsKeys |-> omsActive'[id]]
      BY <2>1, <3>1 DEF ActiveFollows
    <3> QED
      BY <3>3, <3>4, <3>5 DEF ActiveFollows
  <2>3. CASE d.kind # "order"
    <3>1. UNCHANGED <<omsOrders, omsActive>>
      BY <2>3 DEF HandleEvent, ProcessTradeEvent, StoreRecord, d
    <3> QED
      BY <2>1, <3>1 DEF ActiveFollows
  <2> QED
    BY <2>2, <2>3
<1>14. TradesHandled'
  <2> SUFFICES ASSUME NEW id \in DOMAIN omsTrades'
               PROVE  /\ <<"trade", omsTrades'[id].gateway, id>> \in DOMAIN handledLast'
                      /\ handledLast'[<<"trade", omsTrades'[id].gateway, id>>] = omsTrades'[id].serial
    BY DEF TradesHandled
  <2>1. CASE d.kind = "trade" /\ id = d.id
    <3>1. omsTrades'[id] = d
      BY <2>1 DEF HandleEvent, ProcessTradeEvent, d
    <3> QED
      BY <1>7, <2>1, <3>1
  <2>2. CASE ~(d.kind = "trade" /\ id = d.id)
    <3>1. id \in DOMAIN omsTrades /\ omsTrades'[id] = omsTrades[id]
      BY <2>2 DEF HandleEvent, ProcessOrderEvent, ProcessTradeEvent, StoreRecord, d
    <3>2. <<"trade", omsTrades[id].gateway, id>> # key
      BY <2>2
    <3> QED
      BY <1>7, <3>1, <3>2 DEF RecordsInv, TradesHandled
  <2> QED
    BY <2>1, <2>2
<1> QED
  BY <1>9, <1>10, <1>12, <1>13, <1>14 DEF RecordsInv

\* A query by the plain id answers what is stored under it, one by a vt_ key nothing.
LEMMA QueriesAnswer ==
  ASSUME RecordsInv, NEW kind, NEW id \in RecordIds, kind = "order" => id \in OmsKeys, NEW gateway
  PROVE  Answer(kind, StorageKey(id)) = Newest(kind, id) /\ Answer(kind, VtKey(gateway, id)) = OmsNoOrder
<1>1. ASSUME NEW f
      PROVE  /\ Found(f, StorageKey(id)) = IF id \in DOMAIN f THEN f[id] ELSE OmsNoOrder
             /\ Found(f, VtKey(gateway, id)) = OmsNoOrder
  <2>1. \A i : <<gateway, id>> # <<i>>
    <3>1. \A i : Len(<<gateway, id>>) # Len(<<i>>)
      OBVIOUS
    <3> QED
      BY <3>1
  <2>2. \A i : <<id>> = <<i>> <=> id = i
    OBVIOUS
  <2>3. <<id>>[1] = id
    OBVIOUS
  <2> QED
    BY <2>1, <2>2, <2>3 DEF Found, StorageKey, VtKey
<1>2. CASE kind = "order"
  <2>1. DOMAIN omsOrders = OmsKeys
    BY DEF RecordsInv, ActiveFollows
  <2> QED
    BY <1>1, <1>2, <2>1 DEF Answer, GetOrder, Newest
<1>3. CASE kind = "trade"
  BY <1>1, <1>3 DEF Answer, GetTrade, Newest
<1>4. CASE kind \notin {"order", "trade"}
  <2>1. PICK f : f = RecordsOf(kind)
    OBVIOUS
  <2>2. f = [i \in {i \in RecordIds : <<kind, i>> \in DOMAIN omsRecords} |-> omsRecords[<<kind, i>>]]
    BY <2>1 DEF RecordsOf
  <2>3. /\ id \in DOMAIN f <=> <<kind, id>> \in DOMAIN omsRecords
        /\ id \in DOMAIN f => f[id] = omsRecords[<<kind, id>>]
    BY <2>2
  <2>4. \A key : Answer(kind, key) = Found(f, key)
    BY <1>4, <2>1 DEF Answer, GetRecord
  <2> QED
    BY <1>1, <1>4, <2>3, <2>4 DEF Newest
<1> QED
  BY <1>2, <1>3, <1>4

LEMMA OmsFollowsReports == RecordsInv => OmsAnswers
<1> SUFFICES ASSUME RecordsInv PROVE OmsAnswers
  OBVIOUS
<1>4. ASSUME NEW k \in DOMAIN handledLast
      PROVE  /\ Answer(k[1], StorageKey(k[3])) = Newest(k[1], k[3])
             /\ Answer(k[1], VtKey(k[2], k[3])) = OmsNoOrder
  <2>1. k[3] \in RecordIds /\ (k[1] = "order" => k[3] \in OmsKeys)
    BY DEF RecordsInv, HandledInv
  <2> QED
    BY <2>1, QueriesAnswer
<1>1. ASSUME NEW k \in DOMAIN handledLast
      PROVE  \E last \in HandledOf(k[1], k[3]) :
               /\ \A other \in HandledOf(k[1], k[3]) : handledLast[other] <= handledLast[last]
               /\ Answer(k[1], StorageKey(k[3])) # OmsNoOrder
               /\ Answer(k[1], StorageKey(k[3])).serial = handledLast[last]
               /\ Answer(k[1], StorageKey(k[3])).gateway = last[2]
  <2> DEFINE a == Newest(k[1], k[3])
             last == <<k[1], a.gateway, k[3]>>
  <2>1. a \in RecordData /\ last \in DOMAIN handledLast /\ handledLast[last] = a.serial
    BY DEF RecordsInv, AnswersNewest
  <2>2. last \in HandledOf(k[1], k[3])
    BY <2>1 DEF HandledOf
  <2>3. ASSUME NEW other \in HandledOf(k[1], k[3]) PROVE handledLast[other] <= a.serial
    BY DEF HandledOf, RecordsInv, AnswersNewest
  <2>4. a = Answer(k[1], StorageKey(k[3]))
    BY <1>4
  <2> QED
    BY <2>1, <2>2, <2>3, <2>4, NoOrderIsNoReport
<1>2. GetAllActiveOrders = {o \in GetAllOrders : IsActive(o)}
  <2>1. \A id \in OmsKeys :
          omsActive[id] = IF omsOrders[id] # OmsNoOrder /\ IsActive(omsOrders[id]) THEN omsOrders[id] ELSE OmsNoOrder
    BY DEF RecordsInv, ActiveFollows
  <2> QED
    BY <2>1 DEF GetAllActiveOrders, GetAllOrders
<1>3. \A t \in GetAllTrades : \E k \in DOMAIN handledLast : handledLast[k] = t.serial
  BY DEF GetAllTrades, RecordsInv, TradesHandled
<1> QED
  BY <1>1, <1>2, <1>3, <1>4 DEF OmsAnswers

LEMMA RecordsKept ==
  ASSUME RecordsInv, UNCHANGED <<omsVars, eventQueue, reported, handledLast>>
  PROVE  RecordsInv'
<1>1. UNCHANGED <<omsOrders, omsActive, omsTrades, omsRecords, eventQueue, reported, handledLast>>
  BY DEF omsVars
<1>2. \A kind, id : Newest(kind, id)' = Newest(kind, id)
  BY <1>1 DEF Newest
<1>3. QueueInv' /\ HandledInv'
  BY <1>1 DEF RecordsInv, QueueInv, HandledInv
<1>4. AnswersNewest' /\ ActiveFollows' /\ TradesHandled'
  BY <1>1 DEF RecordsInv, AnswersNewest, ActiveFollows, TradesHandled, Newest
<1> QED
  BY <1>3, <1>4 DEF RecordsInv

LEMMA RecordsKeep == RecordsInv /\ [RecordsNext]_recordVars => RecordsInv'
<1> SUFFICES ASSUME RecordsInv, [RecordsNext]_recordVars PROVE RecordsInv'
  OBVIOUS
<1>1. ASSUME NEW name \in GatewayNames, AddGateway(name) \/ ConnectGateway(name) \/ DisconnectGateway(name)
      PROVE  RecordsInv'
  <2>1. OthersThanGateways
    BY <1>1 DEF AddGateway, ConnectGateway, DisconnectGateway
  <2> QED
    BY <2>1, RecordsKept DEF OthersThanGateways
<1>2. ASSUME NEW name \in GatewayNames, NEW kind \in ReportedKinds, NEW id \in Ids(kind),
             NEW status \in IF kind = "order" THEN {"NOTTRADED", "CANCELLED"} ELSE {"NONE"},
             Reports(name, kind, id, status)
      PROVE  RecordsInv'
  BY <1>2, ReportsKeep
<1>3. CASE HandleEvent
  BY <1>3, HandleKeeps
<1>4. CASE UNCHANGED recordVars
  BY <1>4, RecordsKept DEF recordVars
<1> QED
  BY <1>1, <1>2, <1>3, <1>4 DEF RecordsNext

LEMMA RecordsAlone == [Next]_mcVars => [RecordsNext]_recordVars
  BY DEF Next, mcVars, tradingVars, Pool, Logger, BarsRun, RingRuns, Smoother, DatabaseRuns, RoutingRuns,
         UsdtRuns, OkxRuns, OmsRuns, OthersThanThreads, OthersThanData, OthersThanTrading

\* What the gateways and the OMS answer is what was reported: a USDT order id repeats
\* only across connections and in one of two ways, OKX trades add up to the newest report,
\* what was subscribed since the last connect() is listed, and every query of the OMS
\* by a storage key answers the newest event of it, by a vt_ key none: for any block of ids, clock,
\* connections, orders, gateways and reports in any order.
THEOREM Reporting == Spec => []ReportsAgree
<1>1. Init => GatewaysInv /\ RecordsInv
  BY GatewaysStart, RecordsStart DEF Init
<1>2. GatewaysInv /\ [Next]_mcVars => GatewaysInv'
  BY GatewaysAlone, UsdtKeeps, OkxKeeps, GatewaysKept
<1>3. RecordsInv /\ [Next]_mcVars => RecordsInv'
  BY RecordsKeep, RecordsAlone
<1>4. Spec => [](GatewaysInv /\ RecordsInv)
  BY <1>1, <1>2, <1>3, PTL DEF Spec
<1>5. GatewaysInv /\ RecordsInv => ReportsAgree
  BY GatewaysReport, OmsFollowsReports DEF ReportsAgree
<1> QED
  BY <1>4, <1>5, PTL

------------------------------------------------------------------------------
(* Bars of ticks.  What the model says of tickLog, for any log.                  *)

Ticks == [time : TickTimes, price : TickPrices]
StartOf(ss, time) == Max({s \in ss : s <= time})
BarOfTick(ss, tick) ==
  [start |-> StartOf(ss, tick.time), open |-> tick.price, high |-> tick.price,
   low |-> tick.price, close |-> tick.price, volume |-> 1]
TopTime(log, i) == Max({log[j].time : j \in 1..i})
BarIn(ss, log, i) == StartOf(ss, TopTime(log, i))
BarsIn(ss, log, i) == Cardinality({BarIn(ss, log, j) : j \in 1..i})
PartIn(ss, log, from, to) == {i \in 1..Len(log) : BarsIn(ss, log, i) \in from .. to}
BarFrom(ss, log, is) ==
  [start |-> BarIn(ss, log, Min(is)), open |-> log[Min(is)].price,
   high |-> Max({log[i].price : i \in is}), low |-> Min({log[i].price : i \in is}),
   close |-> log[Max(is)].price, volume |-> Cardinality(is)]

\* The values a function has at finitely many places are finitely many.
LEMMA ValuesFinite ==
  ASSUME NEW S, IsFiniteSet(S), NEW f, f = [x \in S |-> f[x]]
  PROVE  IsFiniteSet({f[x] : x \in S})
<1>1. PICK T : T = {f[x] : x \in S}
  OBVIOUS
<1>2. f \in Surjection(S, T)
  BY <1>1 DEF Surjection
<1> QED BY <1>1, <1>2, FS_Surjection

\* The start of a time's bar is the latest start up to the time.
LEMMA StartIs ==
  ASSUME NEW ss \in Starts, NEW t \in Nat
  PROVE  StartOf(ss, t) \in ss /\ StartOf(ss, t) \in Nat /\ StartOf(ss, t) <= t
         /\ \A s \in ss : s <= t => s <= StartOf(ss, t)
<1>1. PICK S : S = {s \in ss : s <= t}
  OBVIOUS
<1>2. ss \subseteq Nat /\ 0 \in ss
  BY BarAssumption
<1>3. S \in SUBSET Int /\ S # {} /\ S \in SUBSET (0..t)
  <2>1. 0 \in S
    BY <1>1, <1>2
  <2>2. \A s \in S : s \in Nat /\ s <= t
    BY <1>1, <1>2
  <2> QED BY <2>1, <2>2
<1>4. IsFiniteSet(S)
  <2>1. 0 \in Int /\ t \in Int
    OBVIOUS
  <2>2. IsFiniteSet(0..t)
    BY <2>1, FS_Interval
  <2> QED BY <1>3, <2>2, FS_Subset
<1>5. Max(S) \in S /\ \A y \in S : Max(S) >= y
  BY <1>3, <1>4, MaxOf
<1>6. StartOf(ss, t) = Max(S)
  BY <1>1 DEF StartOf
<1>7. StartOf(ss, t) \in ss /\ StartOf(ss, t) <= t
  BY <1>1, <1>5, <1>6
<1>8. ASSUME NEW s \in ss, s <= t PROVE s <= StartOf(ss, t)
  <2>1. StartOf(ss, t) >= s
    BY <1>1, <1>5, <1>6, <1>8
  <2>2. StartOf(ss, t) \in Nat /\ s \in Nat
    BY <1>2, <1>7
  <2> QED BY <2>1, <2>2
<1> QED BY <1>2, <1>7, <1>8

\* Later times have later bars.
LEMMA StartGrows ==
  ASSUME NEW ss \in Starts, NEW t \in Nat, NEW u \in Nat, t <= u
  PROVE  StartOf(ss, t) <= StartOf(ss, u)
<1>1. StartOf(ss, t) \in ss /\ StartOf(ss, t) \in Nat /\ StartOf(ss, t) <= t
  BY StartIs
<1>2. StartOf(ss, t) <= u
  BY <1>1
<1> QED BY <1>1, <1>2, StartIs

\* What a tick of a log is made of.
LEMMA TimesTyped ==
  ASSUME NEW log \in Seq(Ticks), NEW i \in 1..Len(log)
  PROVE  /\ Len(log) \in Nat /\ log[i] \in Ticks
         /\ log[i].time \in TickTimes /\ log[i].time \in Nat
         /\ log[i].price \in TickPrices /\ log[i].price \in Nat
<1>1. Len(log) \in Nat /\ log[i] \in Ticks
  OBVIOUS
<1>2. log[i].time \in TickTimes /\ log[i].price \in TickPrices
  BY <1>1 DEF Ticks
<1>3. TickTimes \subseteq Nat /\ TickPrices \subseteq Nat
  BY BarAssumption
<1> QED BY <1>1, <1>2, <1>3

\* The latest time of some ticks is the time of one of them.
LEMMA TopTimeIs ==
  ASSUME NEW log \in Seq(Ticks), NEW i \in 1..Len(log)
  PROVE  /\ TopTime(log, i) \in Nat /\ TopTime(log, i) \in TickTimes
         /\ \E j \in 1..i : TopTime(log, i) = log[j].time
         /\ \A j \in 1..i : log[j].time <= TopTime(log, i)
<1>1. PICK f, S : f = [j \in 1..i |-> log[j].time] /\ S = {f[j] : j \in 1..i}
  OBVIOUS
<1>2. i \in Nat /\ \A j \in 1..i : j \in 1..Len(log)
  OBVIOUS
<1>3. \A j \in 1..i : f[j] = log[j].time /\ f[j] \in Nat /\ f[j] \in TickTimes
  BY <1>1, <1>2, TimesTyped
<1>4. IsFiniteSet(1..i)
  <2>1. 1 \in Int /\ i \in Int
    BY <1>2
  <2> QED BY <2>1, FS_Interval
<1>5. IsFiniteSet(S)
  <2>1. f = [j \in 1..i |-> f[j]]
    BY <1>1
  <2> QED BY <1>1, <1>4, <2>1, ValuesFinite
<1>6. S \in SUBSET Int /\ S # {} /\ S = {log[j].time : j \in 1..i}
  <2>1. 1 \in 1..i
    BY <1>2
  <2> QED BY <1>1, <1>3, <2>1
<1>7. Max(S) \in S /\ \A y \in S : Max(S) >= y
  BY <1>5, <1>6, MaxOf
<1>8. TopTime(log, i) = Max(S)
  BY <1>6 DEF TopTime
<1>9. PICK k \in 1..i : TopTime(log, i) = log[k].time
  BY <1>6, <1>7, <1>8
<1>10. TopTime(log, i) \in Nat /\ TopTime(log, i) \in TickTimes
  BY <1>3, <1>9
<1>11. ASSUME NEW j \in 1..i PROVE log[j].time <= TopTime(log, i)
  <2>1. TopTime(log, i) >= log[j].time
    BY <1>6, <1>7, <1>8
  <2>2. log[j].time \in Nat
    BY <1>3
  <2> QED BY <1>10, <2>1, <2>2
<1> QED BY <1>9, <1>10, <1>11

\* Ticks reach one bar after the other.
LEMMA BarsGrow ==
  ASSUME NEW ss \in Starts, NEW log \in Seq(Ticks), NEW i \in 1..Len(log), NEW k \in 1..i
  PROVE  /\ BarIn(ss, log, i) \in Nat /\ BarIn(ss, log, k) \in Nat
         /\ TopTime(log, k) <= TopTime(log, i) /\ BarIn(ss, log, k) <= BarIn(ss, log, i)
<1>1. k \in 1..Len(log) /\ \A j \in 1..k : j \in 1..i
  OBVIOUS
<1>2. TopTime(log, i) \in Nat /\ TopTime(log, k) \in Nat
  BY <1>1, TopTimeIs
<1>3. PICK j \in 1..k : TopTime(log, k) = log[j].time
  BY <1>1, TopTimeIs
<1>4. TopTime(log, k) <= TopTime(log, i)
  BY <1>1, <1>3, TopTimeIs
<1> QED BY <1>2, <1>4, StartIs, StartGrows DEF BarIn

\* How many bars they reach: none is left out and none comes twice.
LEMMA BarsCount ==
  ASSUME NEW ss \in Starts, NEW log \in Seq(Ticks), NEW i \in 1..Len(log)
  PROVE  /\ BarsIn(ss, log, i) \in Nat /\ BarsIn(ss, log, i) >= 1
         /\ \A k \in 1..i : BarsIn(ss, log, k) \in Nat /\ BarsIn(ss, log, k) <= BarsIn(ss, log, i)
         /\ i = 1 => BarsIn(ss, log, i) = 1
         /\ i > 1 => BarsIn(ss, log, i) = BarsIn(ss, log, i - 1)
                                      + (IF BarIn(ss, log, i) > BarIn(ss, log, i - 1) THEN 1 ELSE 0)
<1> DEFINE Reached(k) == {BarIn(ss, log, j) : j \in 1..k}
<1>1. ASSUME NEW k \in 1..Len(log)
      PROVE  IsFiniteSet(Reached(k)) /\ BarIn(ss, log, k) \in Reached(k)
  <2>1. PICK f : f = [j \in 1..k |-> BarIn(ss, log, j)]
    OBVIOUS
  <2>2. 1 \in Int /\ k \in Int /\ k \in 1..k
    OBVIOUS
  <2>3. IsFiniteSet(1..k) /\ f = [j \in 1..k |-> f[j]]
    BY <2>1, <2>2, FS_Interval
  <2>4. IsFiniteSet({f[j] : j \in 1..k})
    BY <2>3, ValuesFinite
  <2>5. {f[j] : j \in 1..k} = Reached(k)
    BY <2>1
  <2> QED BY <2>2, <2>4, <2>5
<1>2. ASSUME NEW k \in 1..i
      PROVE  BarsIn(ss, log, k) \in Nat /\ BarsIn(ss, log, k) >= 1 /\ BarsIn(ss, log, k) <= BarsIn(ss, log, i)
  <2>1. k \in 1..Len(log) /\ Reached(k) \in SUBSET Reached(i)
    OBVIOUS
  <2>2. IsFiniteSet(Reached(k)) /\ IsFiniteSet(Reached(i)) /\ BarIn(ss, log, k) \in Reached(k)
    BY <1>1, <2>1
  <2>3. PICK small, big : small = Reached(k) /\ big = Reached(i)
    OBVIOUS
  <2>4. Cardinality(small) \in Nat /\ Cardinality(small) <= Cardinality(big) /\ Cardinality(small) # 0
    BY <2>1, <2>2, <2>3, FS_Subset, FS_CardinalityType, FS_EmptySet
  <2>5. BarsIn(ss, log, k) = Cardinality(small) /\ BarsIn(ss, log, i) = Cardinality(big)
    BY <2>3 DEF BarsIn
  <2> QED BY <2>4, <2>5
<1>3. ASSUME i = 1 PROVE BarsIn(ss, log, i) = 1
  <2>1. Reached(1) = {BarIn(ss, log, 1)}
    OBVIOUS
  <2> QED BY <1>3, <2>1, FS_Singleton DEF BarsIn
<1>4. ASSUME i > 1
      PROVE BarsIn(ss, log, i) = BarsIn(ss, log, i - 1) + (IF BarIn(ss, log, i) > BarIn(ss, log, i - 1) THEN 1 ELSE 0)
  <2>1. i - 1 \in 1..Len(log) /\ i - 1 \in 1..i
    BY <1>4
  <2>2. PICK before : before = Reached(i - 1)
    OBVIOUS
  <2>3. Reached(i) = before \cup {BarIn(ss, log, i)}
    <3>1. 1..i = (1..(i - 1)) \cup {i}
      BY <1>4
    <3> QED BY <2>2, <3>1
  <2>4. BarIn(ss, log, i - 1) <= BarIn(ss, log, i) /\ BarIn(ss, log, i) \in Nat /\ BarIn(ss, log, i - 1) \in Nat
    BY <2>1, BarsGrow
  <2>5. \A b \in before : b <= BarIn(ss, log, i - 1) /\ b \in Nat
    <3>1. \A j \in 1..(i - 1) : BarIn(ss, log, j) <= BarIn(ss, log, i - 1) /\ BarIn(ss, log, j) \in Nat
      BY <2>1, BarsGrow
    <3> QED BY <2>2, <3>1
  <2>6. IsFiniteSet(before) /\ BarIn(ss, log, i - 1) \in before /\ Cardinality(before) \in Nat
    BY <1>1, <2>1, <2>2, FS_CardinalityType
  <2>7. BarsIn(ss, log, i - 1) = Cardinality(before) /\ BarsIn(ss, log, i) = Cardinality(before \cup {BarIn(ss, log, i)})
    BY <2>2, <2>3 DEF BarsIn
  <2>8. CASE BarIn(ss, log, i) > BarIn(ss, log, i - 1)
    <3>1. BarIn(ss, log, i) \notin before
      BY <2>4, <2>5, <2>8
    <3>2. Cardinality(before \cup {BarIn(ss, log, i)}) = Cardinality(before) + 1
      BY <2>6, <3>1, FS_AddElement
    <3> QED BY <2>7, <2>8, <3>2
  <2>9. CASE ~(BarIn(ss, log, i) > BarIn(ss, log, i - 1))
    <3>1. before \cup {BarIn(ss, log, i)} = before
      BY <2>4, <2>6, <2>9
    <3>2. BarsIn(ss, log, i) = BarsIn(ss, log, i - 1) /\ BarsIn(ss, log, i - 1) \in Nat
      BY <2>6, <2>7, <3>1
    <3> QED BY <2>9, <3>2
  <2> QED BY <2>8, <2>9
<1>5. i \in 1..i
  OBVIOUS
<1> QED BY <1>2, <1>3, <1>4, <1>5

\* and have a first and a last.
LEMMA PartIs ==
  ASSUME NEW is \in SUBSET Nat, IsFiniteSet(is), is # {}
  PROVE  /\ Min(is) \in is /\ Max(is) \in is
         /\ \A i \in is : Min(is) <= i /\ i <= Max(is)
         /\ Cardinality(is) \in Nat
<1>1. is \in SUBSET Int /\ \A i \in is : i \in Int
  OBVIOUS
<1>2. Min(is) \in is /\ \A i \in is : Min(is) <= i
  BY <1>1, MinOf
<1>3. Max(is) \in is /\ \A i \in is : Max(is) >= i
  BY <1>1, MaxOf
<1> QED BY <1>1, <1>2, <1>3, FS_CardinalityType

\* Some ticks of a log are finitely many,
LEMMA PartFinite ==
  ASSUME NEW log \in Seq(Ticks), NEW is \in SUBSET (1..Len(log))
  PROVE  IsFiniteSet(is) /\ is \in SUBSET Nat
<1>1. 1 \in Int /\ Len(log) \in Int
  OBVIOUS
<1>2. IsFiniteSet(1..Len(log))
  BY <1>1, FS_Interval
<1>3. IsFiniteSet(is)
  BY <1>2, FS_Subset
<1> QED BY <1>3

\* What the ticks of a log reached stays when more come.
Continues(ss, next, log) ==
  \A i \in 1..Len(log) : next[i] = log[i] /\ BarIn(ss, next, i) = BarIn(ss, log, i)

\* A tick more changes nothing of what the ticks before it reached.
LEMMA Before ==
  ASSUME NEW ss \in Starts, NEW log \in Seq(Ticks), NEW tick \in Ticks, NEW next, next = Append(log, tick)
  PROVE  /\ next \in Seq(Ticks) /\ Len(next) = Len(log) + 1 /\ Len(log) \in Nat
         /\ next[Len(log) + 1] = tick /\ Continues(ss, next, log)
         /\ \A i \in 1..Len(log) : /\ next[i] = log[i] /\ TopTime(next, i) = TopTime(log, i)
                                    /\ BarIn(ss, next, i) = BarIn(ss, log, i) /\ BarsIn(ss, next, i) = BarsIn(ss, log, i)
<1>1. /\ next \in Seq(Ticks) /\ Len(next) = Len(log) + 1 /\ Len(log) \in Nat
      /\ next[Len(log) + 1] = tick
      /\ \A i \in 1..Len(log) : next[i] = log[i]
  OBVIOUS
<1>2. ASSUME NEW i \in 1..Len(log) PROVE TopTime(next, i) = TopTime(log, i)
  <2>1. \A j \in 1..i : next[j].time = log[j].time
    BY <1>1
  <2>2. {next[j].time : j \in 1..i} = {log[j].time : j \in 1..i}
    BY <2>1
  <2> QED BY <2>2 DEF TopTime
<1>3. \A i \in 1..Len(log) : BarIn(ss, next, i) = BarIn(ss, log, i)
  BY <1>2 DEF BarIn
<1>4. ASSUME NEW i \in 1..Len(log) PROVE BarsIn(ss, next, i) = BarsIn(ss, log, i)
  <2>1. \A j \in 1..i : BarIn(ss, next, j) = BarIn(ss, log, j)
    BY <1>3
  <2>2. {BarIn(ss, next, j) : j \in 1..i} = {BarIn(ss, log, j) : j \in 1..i}
    BY <2>1
  <2> QED BY <2>2 DEF BarsIn
<1>5. Continues(ss, next, log)
  BY <1>1, <1>3 DEF Continues
<1> QED BY <1>1, <1>2, <1>3, <1>4, <1>5

\* The bar of some ticks stays.
LEMMA BarStays ==
  ASSUME NEW ss \in Starts, NEW log \in Seq(Ticks), NEW next, Continues(ss, next, log), NEW is \in SUBSET (1..Len(log)), is # {}
  PROVE  BarFrom(ss, next, is) = BarFrom(ss, log, is)
<1>1. Min(is) \in is /\ Max(is) \in is
  BY PartIs, PartFinite
<1>2. \A i \in 1..Len(log) : next[i] = log[i] /\ BarIn(ss, next, i) = BarIn(ss, log, i)
  BY DEF Continues
<1>3. {next[i].price : i \in is} = {log[i].price : i \in is}
  BY <1>2
<1>4. /\ BarIn(ss, next, Min(is)) = BarIn(ss, log, Min(is)) /\ next[Min(is)] = log[Min(is)]
      /\ next[Max(is)] = log[Max(is)]
  BY <1>1, <1>2
<1> QED BY <1>3, <1>4 DEF BarFrom

\* The tick that came is the first of a new bar or the last of the open one.
Grown(ss, next, log, last, n, from, to) ==
  /\ n \in Nat /\ n >= 1
  /\ BarIn(ss, next, last) > BarIn(ss, log, Len(log)) =>
       /\ BarsIn(ss, next, last) = n + 1
       /\ to <= n => PartIn(ss, next, from, to) = PartIn(ss, log, from, to)
       /\ PartIn(ss, next, n + 1, n + 1) = {last}
  /\ ~(BarIn(ss, next, last) > BarIn(ss, log, Len(log))) =>
       /\ BarsIn(ss, next, last) = n /\ BarIn(ss, next, last) = BarIn(ss, log, Len(log))
       /\ to < n => PartIn(ss, next, from, to) = PartIn(ss, log, from, to)
       /\ PartIn(ss, next, n, n) = PartIn(ss, log, n, n) \cup {last}

LEMMA PartGrows ==
  ASSUME NEW ss \in Starts, NEW log \in Seq(Ticks), log # <<>>, NEW tick \in Ticks,
         NEW next, next = Append(log, tick), NEW n, n = BarsIn(ss, log, Len(log)),
         NEW last, last = Len(log) + 1, NEW from \in Int, NEW to \in Int
  PROVE  Grown(ss, next, log, last, n, from, to)
<1>1. /\ next \in Seq(Ticks) /\ Len(next) = last /\ Len(log) \in Nat /\ last \in Nat
      /\ \A i \in 1..Len(log) : BarIn(ss, next, i) = BarIn(ss, log, i) /\ BarsIn(ss, next, i) = BarsIn(ss, log, i)
  BY Before, ZenonT(60)
<1>2. Len(log) \in 1..Len(log) /\ last \in 1..Len(next) /\ last > 1 /\ last - 1 = Len(log)
      /\ Len(log) \in 1..last
  BY <1>1
<1>3. n \in Nat /\ n >= 1 /\ \A i \in 1..Len(log) : BarsIn(ss, log, i) \in Nat /\ BarsIn(ss, log, i) <= n
  BY <1>2, BarsCount
<1>4. BarsIn(ss, next, last) = n + (IF BarIn(ss, next, last) > BarIn(ss, log, Len(log)) THEN 1 ELSE 0)
  <2>1. BarsIn(ss, next, last) = BarsIn(ss, next, last - 1)
                              + (IF BarIn(ss, next, last) > BarIn(ss, next, last - 1) THEN 1 ELSE 0)
    BY <1>1, <1>2, BarsCount
  <2> QED BY <1>1, <1>2, <2>1
<1>5. BarIn(ss, next, Len(log)) <= BarIn(ss, next, last) /\ BarIn(ss, next, last) \in Nat /\ BarIn(ss, next, Len(log)) \in Nat
  BY <1>1, <1>2, BarsGrow
<1>6. 1..last = (1..Len(log)) \cup {last}
  BY <1>1
<1>7. ASSUME NEW a \in Int, NEW b \in Int
      PROVE  PartIn(ss, next, a, b) = PartIn(ss, log, a, b) \cup {i \in {last} : BarsIn(ss, next, i) \in a..b}
  BY <1>1, <1>6 DEF PartIn
<1>8. ASSUME BarIn(ss, next, last) > BarIn(ss, log, Len(log))
      PROVE  /\ BarsIn(ss, next, last) = n + 1
             /\ to <= n => PartIn(ss, next, from, to) = PartIn(ss, log, from, to)
             /\ PartIn(ss, next, n + 1, n + 1) = {last}
  <2>1. BarsIn(ss, next, last) = n + 1
    BY <1>3, <1>4, <1>8
  <2>2. PartIn(ss, log, n + 1, n + 1) = {}
    BY <1>3 DEF PartIn
  <2>3. n + 1 \in Int /\ n + 1 \in (n + 1)..(n + 1)
    BY <1>3
  <2>4. PartIn(ss, next, n + 1, n + 1) = {last}
    BY <1>7, <2>1, <2>2, <2>3
  <2>5. ASSUME to <= n PROVE PartIn(ss, next, from, to) = PartIn(ss, log, from, to)
    <3>1. n + 1 \notin from..to
      BY <1>3, <2>5
    <3>2. {i \in {last} : BarsIn(ss, next, i) \in from..to} = {}
      BY <2>1, <3>1
    <3>3. PartIn(ss, next, from, to) = PartIn(ss, log, from, to) \cup {i \in {last} : BarsIn(ss, next, i) \in from..to}
      BY <1>7
    <3> QED BY <3>2, <3>3
  <2> QED BY <2>1, <2>4, <2>5
<1>9. ASSUME ~(BarIn(ss, next, last) > BarIn(ss, log, Len(log)))
      PROVE  /\ BarsIn(ss, next, last) = n /\ BarIn(ss, next, last) = BarIn(ss, log, Len(log))
             /\ to < n => PartIn(ss, next, from, to) = PartIn(ss, log, from, to)
             /\ PartIn(ss, next, n, n) = PartIn(ss, log, n, n) \cup {last}
  <2>1. BarsIn(ss, next, last) = n
    BY <1>3, <1>4, <1>9
  <2>2. BarIn(ss, next, last) = BarIn(ss, log, Len(log))
    BY <1>1, <1>2, <1>5, <1>9
  <2>3. n \in Int /\ n \in n..n
    BY <1>3
  <2>4. PartIn(ss, next, n, n) = PartIn(ss, log, n, n) \cup {last}
    BY <1>7, <2>1, <2>3
  <2>5. ASSUME to < n PROVE PartIn(ss, next, from, to) = PartIn(ss, log, from, to)
    <3>1. n \notin from..to
      BY <1>3, <2>5
    <3>2. {i \in {last} : BarsIn(ss, next, i) \in from..to} = {}
      BY <2>1, <3>1
    <3>3. PartIn(ss, next, from, to) = PartIn(ss, log, from, to) \cup {i \in {last} : BarsIn(ss, next, i) \in from..to}
      BY <1>7
    <3> QED BY <3>2, <3>3
  <2> QED BY <2>1, <2>2, <2>4, <2>5
<1> QED BY <1>3, <1>8, <1>9 DEF Grown

\* The largest and the smallest of a set, and of it with a number more.
LEMMA OneMore ==
  ASSUME NEW S \in SUBSET Int, IsFiniteSet(S), S # {}, NEW x \in Int
  PROVE  Max({Max(S), x}) = Max(S \cup {x}) /\ Min({Min(S), x}) = Min(S \cup {x})
<1>1. PICK T : T = S \cup {x}
  OBVIOUS
<1>2. T \in SUBSET Int /\ T # {} /\ IsFiniteSet(T)
  BY <1>1, FS_AddElement
<1>3. Max(S) \in S /\ Min(S) \in S /\ \A y \in S : Max(S) >= y /\ Min(S) <= y
  BY MaxOf, MinOf
<1>4. Max(T) \in T /\ Min(T) \in T /\ \A y \in T : Max(T) >= y /\ Min(T) <= y
  BY <1>2, MaxOf, MinOf
<1>5. PICK A, B : A = {Max(S), x} /\ B = {Min(S), x}
  OBVIOUS
<1>6. A \in SUBSET Int /\ A # {} /\ IsFiniteSet(A) /\ B \in SUBSET Int /\ B # {} /\ IsFiniteSet(B)
  <2>1. Max(S) \in Int /\ Min(S) \in Int
    BY <1>3
  <2>2. IsFiniteSet({Max(S)}) /\ IsFiniteSet({Min(S)}) /\ A = {Max(S)} \cup {x} /\ B = {Min(S)} \cup {x}
    BY <1>5, FS_Singleton
  <2>3. IsFiniteSet(A) /\ IsFiniteSet(B)
    BY <2>2, FS_AddElement
  <2> QED BY <1>5, <2>1, <2>3
<1>7. Max(A) \in A /\ Max(A) >= Max(S) /\ Max(A) >= x
  BY <1>5, <1>6, MaxOf
<1>8. Min(B) \in B /\ Min(B) <= Min(S) /\ Min(B) <= x
  BY <1>5, <1>6, MinOf
<1>9. Max(A) = Max(T)
  <2>1. Max(A) \in T /\ Max(A) \in Int /\ Max(T) \in Int /\ x \in Int /\ Max(S) \in Int
    BY <1>1, <1>2, <1>3, <1>4, <1>5, <1>7
  <2>2. Max(T) >= Max(A)
    BY <1>4, <2>1
  <2>3. CASE Max(T) = x
    BY <1>7, <2>1, <2>2, <2>3
  <2>4. CASE Max(T) \in S
    BY <1>3, <1>7, <2>1, <2>2, <2>4
  <2> QED BY <1>1, <1>4, <2>3, <2>4
<1>10. Min(B) = Min(T)
  <2>1. Min(B) \in T /\ Min(B) \in Int /\ Min(T) \in Int /\ x \in Int /\ Min(S) \in Int
    BY <1>1, <1>2, <1>3, <1>4, <1>5, <1>8
  <2>2. Min(T) <= Min(B)
    BY <1>4, <2>1
  <2>3. CASE Min(T) = x
    BY <1>8, <2>1, <2>2, <2>3
  <2>4. CASE Min(T) \in S
    BY <1>3, <1>8, <2>1, <2>2, <2>4
  <2> QED BY <1>1, <1>4, <2>3, <2>4
<1> QED BY <1>1, <1>5, <1>9, <1>10

TakesUp(ss, log, last, is) == UpdateCurrentBar(log[last]) = BarFrom(ss, log, is \cup {last})

\* A tick more in a bar: the open bar takes it up.
LEMMA BarGrows ==
  ASSUME NEW ss \in Starts, NEW log \in Seq(Ticks), NEW is \in SUBSET (1..(Len(log) - 1)), is # {},
         NEW last, last = Len(log), currentBar = BarFrom(ss, log, is)
  PROVE  TakesUp(ss, log, last, is)
<1>1. PICK both, price : both = is \cup {last} /\ price = log[last].price
  OBVIOUS
<1>2. Len(log) \in Nat /\ last \in 1..Len(log)
  <2>1. Len(log) \in Nat
    OBVIOUS
  <2>2. PICK i \in is : i \in 1..(Len(log) - 1)
    OBVIOUS
  <2> QED BY <2>1, <2>2
<1>3. is \in SUBSET (1..Len(log)) /\ both \in SUBSET (1..Len(log)) /\ both # {} /\ last \notin is
  <2>1. \A i \in is : i \in 1..Len(log) /\ i # last
    BY <1>2
  <2>2. last \notin is /\ is \in SUBSET (1..Len(log))
    BY <2>1
  <2> QED BY <1>1, <1>2, <2>2
<1>4. IsFiniteSet(is) /\ is \in SUBSET Nat /\ IsFiniteSet(both) /\ both \in SUBSET Nat
  BY <1>3, PartFinite
<1>5. Min(is) \in is /\ (\A i \in is : Min(is) <= i) /\ Cardinality(is) \in Nat
  BY <1>4, PartIs
<1>6. Min(both) \in both /\ Max(both) \in both /\ \A i \in both : Min(both) <= i /\ i <= Max(both)
  BY <1>3, <1>4, PartIs
<1>7. Min(both) = Min(is)
  <2>1. Min(is) \in both /\ Min(is) \in Nat /\ Min(both) \in Nat /\ Min(is) < last
    BY <1>1, <1>3, <1>4, <1>5, <1>6
  <2>2. Min(both) <= Min(is)
    BY <1>6, <2>1
  <2>3. Min(both) # last
    BY <1>2, <2>1, <2>2
  <2>4. Min(both) \in is
    BY <1>1, <1>6, <2>3
  <2>5. Min(is) <= Min(both)
    BY <1>5, <2>4
  <2> QED BY <2>1, <2>2, <2>5
<1>8. Max(both) = last
  <2>1. last \in both /\ \A i \in both : i <= last
    BY <1>1, <1>2, <1>3
  <2>2. Max(both) <= last /\ last <= Max(both) /\ Max(both) \in Nat /\ last \in Nat
    BY <1>4, <1>6, <2>1
  <2> QED BY <2>2
<1>9. Cardinality(both) = Cardinality(is) + 1
  BY <1>1, <1>3, <1>4, FS_AddElement
<1>10. PICK ps, qs : ps = {log[i].price : i \in is} /\ qs = {log[i].price : i \in both}
  OBVIOUS
<1>11. qs = ps \cup {price} /\ price \in Nat
  BY <1>1, <1>2, <1>10, TimesTyped
<1>12. ps \in SUBSET Int /\ ps # {} /\ IsFiniteSet(ps)
  <2>1. PICK f : f = [i \in is |-> log[i].price]
    OBVIOUS
  <2>2. \A i \in is : f[i] = log[i].price /\ f[i] \in Nat
    BY <1>3, <2>1, TimesTyped
  <2>3. f = [i \in is |-> f[i]] /\ ps = {f[i] : i \in is}
    BY <1>10, <2>1
  <2>4. IsFiniteSet(ps)
    BY <1>4, <2>3, ValuesFinite
  <2> QED BY <2>2, <2>3, <2>4
<1>13. Max({Max(ps), price}) = Max(qs) /\ Min({Min(ps), price}) = Min(qs)
  <2>1. price \in Int
    BY <1>11
  <2>2. Max({Max(ps), price}) = Max(ps \cup {price}) /\ Min({Min(ps), price}) = Min(ps \cup {price})
    BY <1>12, <2>1, OneMore
  <2> QED BY <1>11, <2>2
<1>14. UpdateCurrentBar(log[last]) =
         [start |-> BarIn(ss, log, Min(is)), open |-> log[Min(is)].price, high |-> Max({Max(ps), price}),
          low |-> Min({Min(ps), price}), close |-> price, volume |-> Cardinality(is) + 1]
  <2>1. PICK open : open = currentBar
    OBVIOUS
  <2>2. open = [start |-> BarIn(ss, log, Min(is)), open |-> log[Min(is)].price, high |-> Max(ps),
                low |-> Min(ps), close |-> log[Max(is)].price, volume |-> Cardinality(is)]
    BY <1>10, <2>1 DEF BarFrom
  <2>3. UpdateCurrentBar(log[last]) =
          [open EXCEPT !.high = Max({@, price}), !.low = Min({@, price}), !.close = price, !.volume = @ + 1]
    BY <1>1, <2>1 DEF UpdateCurrentBar
  <2> QED BY <2>2, <2>3
<1>15. BarFrom(ss, log, both) =
         [start |-> BarIn(ss, log, Min(is)), open |-> log[Min(is)].price, high |-> Max(qs),
          low |-> Min(qs), close |-> price, volume |-> Cardinality(is) + 1]
  BY <1>1, <1>7, <1>8, <1>9, <1>10 DEF BarFrom
<1> QED BY <1>1, <1>13, <1>14, <1>15 DEF TakesUp

\* The ticks of some bars: those of a log that reached them.
LEMMA PartTyped ==
  ASSUME NEW ss \in Starts, NEW log \in Seq(Ticks), NEW from \in Int, NEW to \in Int
  PROVE  /\ PartIn(ss, log, from, to) \in SUBSET (1..Len(log))
         /\ IsFiniteSet(PartIn(ss, log, from, to)) /\ PartIn(ss, log, from, to) \in SUBSET Nat
         /\ \A i \in PartIn(ss, log, from, to) : BarsIn(ss, log, i) \in Nat /\ from <= BarsIn(ss, log, i) /\ BarsIn(ss, log, i) <= to
         /\ \A i \in 1..Len(log) : BarsIn(ss, log, i) \in Nat
                                    /\ (from <= BarsIn(ss, log, i) /\ BarsIn(ss, log, i) <= to => i \in PartIn(ss, log, from, to))
<1>1. PICK is : is = PartIn(ss, log, from, to)
  OBVIOUS
<1>2. is = {i \in 1..Len(log) : BarsIn(ss, log, i) \in from..to}
  BY <1>1 DEF PartIn
<1>3. \A i \in 1..Len(log) : BarsIn(ss, log, i) \in Nat
  BY BarsCount
<1>4. is \in SUBSET (1..Len(log))
  BY <1>2
<1>5. IsFiniteSet(is) /\ is \in SUBSET Nat
  BY <1>4, PartFinite
<1>6. \A i \in 1..Len(log) : i \in is <=> from <= BarsIn(ss, log, i) /\ BarsIn(ss, log, i) <= to
  BY <1>2, <1>3
<1> QED BY <1>1, <1>3, <1>4, <1>5, <1>6

\* The bars of a window share the ticks of the window out.
LEMMA PartsJoin ==
  ASSUME NEW ss \in Starts, NEW log \in Seq(Ticks), NEW a \in Nat, NEW k \in Nat
  PROVE  Cardinality(PartIn(ss, log, a + 1, a + k + 1))
           = Cardinality(PartIn(ss, log, a + 1, a + k)) + Cardinality(PartIn(ss, log, a + k + 1, a + k + 1))
<1>1. PICK S, T, U : /\ S = PartIn(ss, log, a + 1, a + k) /\ T = PartIn(ss, log, a + k + 1, a + k + 1)
                     /\ U = PartIn(ss, log, a + 1, a + k + 1)
  OBVIOUS
<1>2. a + 1 \in Int /\ a + k \in Int /\ a + k + 1 \in Int
  OBVIOUS
<1>3. /\ S \in SUBSET (1..Len(log)) /\ IsFiniteSet(S)
      /\ \A i \in S : BarsIn(ss, log, i) \in Nat /\ a + 1 <= BarsIn(ss, log, i) /\ BarsIn(ss, log, i) <= a + k
      /\ \A i \in 1..Len(log) : BarsIn(ss, log, i) \in Nat
                                 /\ (a + 1 <= BarsIn(ss, log, i) /\ BarsIn(ss, log, i) <= a + k => i \in S)
  BY <1>1, <1>2, PartTyped
<1>4. /\ T \in SUBSET (1..Len(log)) /\ IsFiniteSet(T)
      /\ \A i \in T : BarsIn(ss, log, i) \in Nat /\ a + k + 1 <= BarsIn(ss, log, i) /\ BarsIn(ss, log, i) <= a + k + 1
      /\ \A i \in 1..Len(log) : a + k + 1 <= BarsIn(ss, log, i) /\ BarsIn(ss, log, i) <= a + k + 1 => i \in T
  BY <1>1, <1>2, PartTyped
<1>5. /\ U \in SUBSET (1..Len(log))
      /\ \A i \in U : BarsIn(ss, log, i) \in Nat /\ a + 1 <= BarsIn(ss, log, i) /\ BarsIn(ss, log, i) <= a + k + 1
      /\ \A i \in 1..Len(log) : a + 1 <= BarsIn(ss, log, i) /\ BarsIn(ss, log, i) <= a + k + 1 => i \in U
  BY <1>1, <1>2, PartTyped
<1>6. S \cap T = {}
  BY <1>3, <1>4
<1>7. \A i \in 1..Len(log) : i \in U <=> i \in S \/ i \in T
  BY <1>3, <1>4, <1>5
<1>8. U = S \cup T
  BY <1>3, <1>4, <1>5, <1>7
<1>9. Cardinality(S \cup T) = Cardinality(S) + Cardinality(T) - Cardinality(S \cap T)
  BY <1>3, <1>4, FS_Union
<1>10. Cardinality(S \cap T) = 0 /\ Cardinality(S) \in Nat /\ Cardinality(T) \in Nat
  BY <1>3, <1>4, <1>6, FS_EmptySet, FS_CardinalityType
<1>11. Cardinality(U) = Cardinality(S) + Cardinality(T)
  BY <1>8, <1>9, <1>10
<1> QED BY <1>1, <1>11

\* The bars of a window have as many ticks as the window.
LEMMA WindowCounts ==
  ASSUME NEW ss \in Starts, NEW log \in Seq(Ticks), NEW a \in Nat, NEW size \in Nat,
         NEW w \in [1..size -> Int], \A j \in 1..size : w[j] = Cardinality(PartIn(ss, log, a + j, a + j))
  PROVE  SumOver(w, 1..size) = Cardinality(PartIn(ss, log, a + 1, a + size))
<1> DEFINE good == {k \in Nat : k <= size => SumOver(w, 1..k) = Cardinality(PartIn(ss, log, a + 1, a + k))}
<1>1. IsFiniteSet(1..size)
  BY FS_Interval
<1>2. /\ \A s \in SUBSET (1..size) : SumOver(w, s) \in Int
      /\ SumOver(w, {}) = 0
      /\ \A s \in SUBSET (1..size) : \A x \in s : SumOver(w, s) = w[x] + SumOver(w, s \ {x})
  <2>1. PICK S, v : S = 1..size /\ v = w
    OBVIOUS
  <2>2. IsFiniteSet(S) /\ v \in [S -> Int]
    BY <1>1, <2>1
  <2>3. \A s \in SUBSET S : SumOver(v, s) \in Int
    BY <2>2, SumRules
  <2>4. SumOver(v, {}) = 0
    BY <2>2, SumRules
  <2>5. ASSUME NEW s \in SUBSET S, NEW x \in s PROVE SumOver(v, s) = v[x] + SumOver(v, s \ {x})
    BY <2>2, SumRules
  <2> QED BY <2>1, <2>3, <2>4, <2>5
<1>3. 0 \in good
  <2>1. PartIn(ss, log, a + 1, a + 0) = {}
    <3>1. (a + 1)..(a + 0) = {}
      OBVIOUS
    <3> QED BY <3>1 DEF PartIn
  <2>2. 1..0 = {}
    OBVIOUS
  <2> QED BY <1>2, <2>1, <2>2, FS_EmptySet
<1>4. ASSUME NEW k \in Nat, k \in good PROVE k + 1 \in good
  <2>1. SUFFICES ASSUME k + 1 <= size
                 PROVE SumOver(w, 1..(k + 1)) = Cardinality(PartIn(ss, log, a + 1, a + (k + 1)))
    OBVIOUS
  <2>2. SumOver(w, 1..k) = Cardinality(PartIn(ss, log, a + 1, a + k))
    BY <1>4, <2>1
  <2>3. k + 1 \in 1..(k + 1) /\ k + 1 \in 1..size /\ 1..(k + 1) \in SUBSET (1..size)
        /\ (1..(k + 1)) \ {k + 1} = 1..k
    BY <2>1
  <2>4. SumOver(w, 1..(k + 1)) = w[k + 1] + SumOver(w, 1..k)
    <3>1. PICK s, r, x : s = 1..(k + 1) /\ r = 1..k /\ x = k + 1
      OBVIOUS
    <3>2. s \in SUBSET (1..size) /\ x \in s /\ s \ {x} = r
      BY <2>3, <3>1
    <3>3. SumOver(w, s) = w[x] + SumOver(w, s \ {x})
      BY <1>2, <3>2
    <3>4. SumOver(w, s) = w[x] + SumOver(w, r)
      BY <3>2, <3>3
    <3> QED BY <3>1, <3>4
  <2>5. w[k + 1] = Cardinality(PartIn(ss, log, a + (k + 1), a + (k + 1))) /\ w[k + 1] \in Int
    BY <2>3
  <2>6. a + (k + 1) = a + k + 1
    OBVIOUS
  <2>7. SumOver(w, 1..k) \in Int
    BY <1>2, <2>3
  <2>8. Cardinality(PartIn(ss, log, a + 1, a + k + 1))
           = Cardinality(PartIn(ss, log, a + 1, a + k)) + Cardinality(PartIn(ss, log, a + k + 1, a + k + 1))
    BY PartsJoin
  <2> QED BY <2>2, <2>4, <2>5, <2>6, <2>7, <2>8
<1>5. size \in good
  <2> HIDE DEF good
  <2>1. good \in SUBSET Nat
    BY DEF good
  <2> QED BY <1>3, <1>4, <2>1, CountingUp
<1> QED BY <1>5

\* The bars of the second generator's buffer, and their volumes.
BarRecords == [start : Nat, open : Nat, high : Nat, low : Nat, close : Nat, volume : Nat]
VolumesOf(bs) == [j \in 1..Len(bs) |-> bs[j].volume]

\* The volume of a window's bar is the sum of the volumes.
LEMMA VolumeIsSum ==
  ASSUME NEW bs \in Seq(BarRecords)
  PROVE  VolumeOf(bs) = SumOver(VolumesOf(bs), 1..Len(bs))
<1>a. PICK S, w, pick : /\ S = 1..Len(bs) /\ w = VolumesOf(bs)
                        /\ pick = [s \in (SUBSET S) \ {{}} |-> Max(s)]
  OBVIOUS
<1> DEFINE Folds(iter) == iter = [s \in SUBSET S |-> IF s = {} THEN 0
                                                     ELSE iter[s \ {Max(s)}] + bs[Max(s)].volume]
<1>1. Len(bs) \in Nat /\ w \in [S -> Int] /\ \A i \in S : w[i] = bs[i].volume /\ w[i] \in Int
  <2>1. Len(bs) \in Nat /\ \A i \in S : bs[i] \in BarRecords
    BY <1>a
  <2>2. \A i \in S : bs[i].volume \in Int
    BY <2>1 DEF BarRecords
  <2>3. \A i \in S : w[i] = bs[i].volume
    BY <1>a DEF VolumesOf
  <2>4. w \in [S -> Int]
    BY <1>a, <2>2 DEF VolumesOf
  <2> QED BY <2>1, <2>2, <2>3, <2>4
<1>2. Picks(pick, S) /\ IsFiniteSet(S)
  BY <1>a, <1>1, MaxPicks
<1>3. \A s \in SUBSET S : s # {} => pick[s] = Max(s) /\ Max(s) \in S
  BY <1>a, <1>2 DEF Picks
<1>4. VolumeOf(bs) = (CHOOSE iter : Folds(iter))[S]
  <2>1. DOMAIN bs = S
    BY <1>a
  <2> QED BY <2>1 DEF VolumeOf, FoldLeft, MapThenFoldSet
<1>5. PICK fold : AddsBy(fold, S, w, pick)
  BY <1>1, <1>2, AddingFold
<1>6. Folds(fold)
  <2>1. ASSUME NEW s \in SUBSET S, s # {}
        PROVE  fold[s] = fold[s \ {Max(s)}] + bs[Max(s)].volume
    <3>1. fold[s] = w[Max(s)] + fold[s \ {Max(s)}]
      BY <1>3, <1>5, <2>1 DEF AddsBy
    <3>2. Max(s) \in S /\ s \ {Max(s)} \in SUBSET S
      BY <1>3, <2>1
    <3>3. fold[s \ {Max(s)}] \in Int
      BY <1>5, <3>2 DEF AddsBy
    <3> QED BY <1>1, <3>1, <3>2, <3>3
  <2> QED BY <1>5, <2>1 DEF AddsBy
<1>7. PICK iter : iter = (CHOOSE f : Folds(f)) /\ Folds(iter)
  <2> HIDE DEF Folds
  <2> QED BY <1>6
<1>8. iter[S] = SumOver(w, S)
  <2>1. iter[{}] = 0
    BY <1>7
  <2>2. ASSUME NEW s \in SUBSET S, s # {}, iter[s \ {pick[s]}] \in Int
        PROVE  iter[s] = w[pick[s]] + iter[s \ {pick[s]}]
    <3>1. pick[s] = Max(s) /\ Max(s) \in S
      BY <1>3, <2>2
    <3>2. iter[s] = iter[s \ {Max(s)}] + bs[Max(s)].volume
      BY <1>7, <2>2
    <3> QED BY <1>1, <2>2, <3>1, <3>2
  <2>3. AddsUp(iter, S, w, pick)
    BY <2>1, <2>2 DEF AddsUp
  <2> QED BY <1>1, <1>2, <2>3, FoldIsSum
<1> QED BY <1>a, <1>4, <1>7, <1>8

Prices(log, is) == {log[i].price : i \in is}

\* Prices have a highest and a lowest.
LEMMA PricesIs ==
  ASSUME NEW log \in Seq(Ticks), NEW is \in SUBSET (1..Len(log)), is # {}
  PROVE  /\ Prices(log, is) \in SUBSET Nat
         /\ Max(Prices(log, is)) \in Prices(log, is) /\ Min(Prices(log, is)) \in Prices(log, is)
         /\ \A i \in is : Min(Prices(log, is)) <= log[i].price /\ log[i].price <= Max(Prices(log, is))
<1>1. PICK ps, f : ps = Prices(log, is) /\ f = [i \in is |-> log[i].price]
  OBVIOUS
<1>2. \A i \in is : f[i] = log[i].price /\ f[i] \in Nat
  BY <1>1, TimesTyped
<1>3. f = [i \in is |-> f[i]] /\ ps = {f[i] : i \in is}
  BY <1>1, <1>2 DEF Prices
<1>4. IsFiniteSet(ps)
  <2>1. IsFiniteSet(is)
    BY PartFinite
  <2> QED BY <1>3, <2>1, ValuesFinite
<1>5. ps \in SUBSET Nat /\ ps \in SUBSET Int /\ ps # {}
  <2>1. \A p \in ps : p \in Nat /\ p \in Int
    BY <1>2, <1>3
  <2>2. ps # {}
    BY <1>3
  <2> QED BY <2>1, <2>2
<1>6. Max(ps) \in ps /\ (\A y \in ps : Max(ps) >= y) /\ Min(ps) \in ps /\ (\A y \in ps : Min(ps) <= y)
  BY <1>4, <1>5, MaxOf, MinOf
<1>7. ASSUME NEW i \in is PROVE Min(ps) <= log[i].price /\ log[i].price <= Max(ps)
  <2>1. log[i].price \in ps
    BY <1>2, <1>3
  <2> QED BY <1>5, <1>6, <2>1
<1> QED BY <1>1, <1>5, <1>6, <1>7

\* The bar of some ticks is a bar.
LEMMA BarTypedIs ==
  ASSUME NEW ss \in Starts, NEW log \in Seq(Ticks), NEW is \in SUBSET (1..Len(log)), is # {}
  PROVE  BarFrom(ss, log, is) \in BarRecords
<1>1. IsFiniteSet(is) /\ is \in SUBSET Nat
  BY PartFinite
<1>2. Min(is) \in is /\ Max(is) \in is /\ Cardinality(is) \in Nat
  BY <1>1, PartIs
<1>3. Min(is) \in 1..Len(log) /\ Max(is) \in 1..Len(log)
  BY <1>2
<1>4. Min(is) \in 1..Min(is)
  BY <1>3
<1>5. BarIn(ss, log, Min(is)) \in Nat
  BY <1>3, <1>4, BarsGrow
<1>6. log[Min(is)].price \in Nat /\ log[Max(is)].price \in Nat
  BY <1>3, TimesTyped
<1>7. Max(Prices(log, is)) \in Nat /\ Min(Prices(log, is)) \in Nat
  BY PricesIs
<1> QED BY <1>2, <1>5, <1>6, <1>7 DEF BarFrom, Prices, BarRecords

\* The bars of a log's ticks, the first of them the one after the bar a.
HoldsBars(ss, buffer, log, a) ==
  \A j \in 1..Len(buffer) : /\ PartIn(ss, log, a + j, a + j) # {}
                            /\ buffer[j] = BarFrom(ss, log, PartIn(ss, log, a + j, a + j))

Joins(ss, buffer, log, a) ==
  /\ Synthesized(buffer) = BarFrom(ss, log, PartIn(ss, log, a + 1, a + Len(buffer)))
  /\ PartIn(ss, log, a + 1, a + Len(buffer)) # {}

\* The second generator puts a window's bars together: this is the bar of the
\* window's ticks.
LEMMA WindowBar ==
  ASSUME NEW ss \in Starts, NEW log \in Seq(Ticks), NEW a \in Nat, NEW buffer,
         buffer # <<>>, buffer \in Seq(BarRecords), HoldsBars(ss, buffer, log, a)
  PROVE  Joins(ss, buffer, log, a)
<1>1. PICK size, P, U : /\ size = Len(buffer) /\ P = [j \in 1..size |-> PartIn(ss, log, a + j, a + j)]
                        /\ U = PartIn(ss, log, a + 1, a + size)
  OBVIOUS
<1>2. size \in Nat /\ size >= 1 /\ 1 \in 1..size /\ size \in 1..size /\ DOMAIN buffer = 1..size
  BY <1>1
<1>3. \A j \in 1..size : buffer[j] = BarFrom(ss, log, P[j]) /\ P[j] # {} /\ P[j] = PartIn(ss, log, a + j, a + j)
  BY <1>1 DEF HoldsBars
<1>4. ASSUME NEW j \in 1..size
      PROVE  /\ P[j] \in SUBSET (1..Len(log)) /\ IsFiniteSet(P[j]) /\ P[j] \in SUBSET Nat
             /\ \A i \in P[j] : BarsIn(ss, log, i) = a + j
             /\ \A i \in 1..Len(log) : BarsIn(ss, log, i) = a + j => i \in P[j]
  <2>1. a + j \in Int /\ a + j <= a + j
    BY <1>2
  <2>2. /\ P[j] \in SUBSET (1..Len(log)) /\ IsFiniteSet(P[j]) /\ P[j] \in SUBSET Nat
        /\ \A i \in P[j] : BarsIn(ss, log, i) \in Nat /\ a + j <= BarsIn(ss, log, i) /\ BarsIn(ss, log, i) <= a + j
        /\ \A i \in 1..Len(log) : a + j <= BarsIn(ss, log, i) /\ BarsIn(ss, log, i) <= a + j => i \in P[j]
    BY <1>3, <2>1, PartTyped
  <2> QED BY <2>1, <2>2
<1>5. /\ U \in SUBSET (1..Len(log)) /\ IsFiniteSet(U) /\ U \in SUBSET Nat
      /\ \A i \in U : BarsIn(ss, log, i) \in Nat /\ a + 1 <= BarsIn(ss, log, i) /\ BarsIn(ss, log, i) <= a + size
      /\ \A i \in 1..Len(log) : a + 1 <= BarsIn(ss, log, i) /\ BarsIn(ss, log, i) <= a + size => i \in U
  <2>1. a + 1 \in Int /\ a + size \in Int
    BY <1>2
  <2> QED BY <1>1, <2>1, PartTyped
<1>6. \A j \in 1..size : \A i \in P[j] : i \in U
  <2>1. ASSUME NEW j \in 1..size, NEW i \in P[j] PROVE i \in U
    <3>1. i \in 1..Len(log) /\ BarsIn(ss, log, i) = a + j
      BY <1>4
    <3>2. a + 1 <= a + j /\ a + j <= a + size
      BY <1>2
    <3> QED BY <1>5, <3>1, <3>2
  <2> QED BY <2>1
<1>7. \A i \in U : \E j \in 1..size : i \in P[j]
  <2>1. ASSUME NEW i \in U PROVE \E j \in 1..size : i \in P[j]
    <3>1. PICK j : j = BarsIn(ss, log, i) - a
      OBVIOUS
    <3>2. i \in 1..Len(log) /\ BarsIn(ss, log, i) \in Nat /\ a + 1 <= BarsIn(ss, log, i) /\ BarsIn(ss, log, i) <= a + size
      BY <1>5
    <3>3. j \in 1..size /\ BarsIn(ss, log, i) = a + j
      BY <1>2, <3>1, <3>2
    <3>4. i \in P[j]
      BY <1>4, <3>2, <3>3
    <3> QED BY <3>3, <3>4
  <2> QED BY <2>1
<1>8. U # {}
  BY <1>2, <1>3, <1>6
<1>9. Min(U) \in U /\ Max(U) \in U /\ \A i \in U : Min(U) <= i /\ i <= Max(U)
  BY <1>5, <1>8, PartIs
<1>10. Min(U) = Min(P[1])
  <2>1. Min(P[1]) \in P[1] /\ \A i \in P[1] : Min(P[1]) <= i
    BY <1>2, <1>3, <1>4, PartIs
  <2>2. PICK low, first : low = Min(U) /\ first = Min(P[1])
    OBVIOUS
  <2>3. first \in U /\ low \in U /\ first \in 1..Len(log) /\ low \in 1..Len(log) /\ low <= first
        /\ BarsIn(ss, log, first) = a + 1
    BY <1>2, <1>4, <1>5, <1>6, <1>9, <2>1, <2>2
  <2>4. low \in 1..first
    BY <2>3
  <2>5. BarsIn(ss, log, low) <= BarsIn(ss, log, first) /\ BarsIn(ss, log, low) \in Nat /\ a + 1 <= BarsIn(ss, log, low)
    BY <1>5, <2>3, <2>4, BarsCount
  <2>6. BarsIn(ss, log, low) = a + 1
    BY <2>3, <2>5
  <2>7. low \in P[1]
    BY <1>2, <1>4, <2>3, <2>6
  <2>8. first <= low
    BY <2>1, <2>2, <2>7
  <2>9. first = low
    BY <2>3, <2>8
  <2> QED BY <2>2, <2>9
<1>11. Max(U) = Max(P[size])
  <2>1. Max(P[size]) \in P[size] /\ \A i \in P[size] : i <= Max(P[size])
    BY <1>2, <1>3, <1>4, PartIs
  <2>2. PICK high, last : high = Max(U) /\ last = Max(P[size])
    OBVIOUS
  <2>3. last \in U /\ high \in U /\ last \in 1..Len(log) /\ high \in 1..Len(log) /\ last <= high
        /\ BarsIn(ss, log, last) = a + size
    BY <1>2, <1>4, <1>5, <1>6, <1>9, <2>1, <2>2
  <2>4. last \in 1..high
    BY <2>3
  <2>5. BarsIn(ss, log, last) <= BarsIn(ss, log, high) /\ BarsIn(ss, log, high) \in Nat /\ BarsIn(ss, log, high) <= a + size
    BY <1>5, <2>3, <2>4, BarsCount
  <2>6. BarsIn(ss, log, high) = a + size
    BY <1>2, <2>3, <2>5
  <2>7. high \in P[size]
    BY <1>2, <1>4, <2>3, <2>6
  <2>8. high <= last
    BY <2>1, <2>2, <2>7
  <2>9. high = last
    BY <2>3, <2>8
  <2> QED BY <2>2, <2>9
<1>12. \A j \in 1..size : /\ buffer[j].high = Max(Prices(log, P[j])) /\ buffer[j].low = Min(Prices(log, P[j]))
                          /\ buffer[j].volume = Cardinality(P[j])
                          /\ buffer[j].start = BarIn(ss, log, Min(P[j])) /\ buffer[j].open = log[Min(P[j])].price
                          /\ buffer[j].close = log[Max(P[j])].price
  <2>1. ASSUME NEW j \in 1..size, NEW is, is = P[j]
        PROVE  /\ buffer[j].high = Max(Prices(log, is)) /\ buffer[j].low = Min(Prices(log, is))
               /\ buffer[j].volume = Cardinality(is)
               /\ buffer[j].start = BarIn(ss, log, Min(is)) /\ buffer[j].open = log[Min(is)].price
               /\ buffer[j].close = log[Max(is)].price
    <3>1. buffer[j] = BarFrom(ss, log, is)
      BY <1>3, <2>1
    <3> QED BY <3>1 DEF BarFrom, Prices
  <2> QED BY <2>1
<1>13. \A j \in 1..size : /\ Prices(log, P[j]) \in SUBSET Nat
                          /\ buffer[j].high \in Prices(log, P[j]) /\ buffer[j].low \in Prices(log, P[j])
                          /\ \A i \in P[j] : buffer[j].low <= log[i].price /\ log[i].price <= buffer[j].high
  <2>1. ASSUME NEW j \in 1..size
        PROVE  /\ Prices(log, P[j]) \in SUBSET Nat
               /\ Max(Prices(log, P[j])) \in Prices(log, P[j]) /\ Min(Prices(log, P[j])) \in Prices(log, P[j])
               /\ \A i \in P[j] : Min(Prices(log, P[j])) <= log[i].price /\ log[i].price <= Max(Prices(log, P[j]))
    <3>1. PICK is : is = P[j]
      OBVIOUS
    <3>2. is \in SUBSET (1..Len(log)) /\ is # {}
      BY <1>3, <1>4, <3>1
    <3>3. /\ Prices(log, is) \in SUBSET Nat
          /\ Max(Prices(log, is)) \in Prices(log, is) /\ Min(Prices(log, is)) \in Prices(log, is)
          /\ \A i \in is : Min(Prices(log, is)) <= log[i].price /\ log[i].price <= Max(Prices(log, is))
      BY <3>2, PricesIs
    <3> QED BY <3>1, <3>3
  <2> QED BY <1>12, <2>1
<1>14. /\ Prices(log, U) \in SUBSET Nat
       /\ Max(Prices(log, U)) \in Prices(log, U) /\ Min(Prices(log, U)) \in Prices(log, U)
       /\ \A i \in U : Min(Prices(log, U)) <= log[i].price /\ log[i].price <= Max(Prices(log, U))
  BY <1>5, <1>8, PricesIs
<1>15. PICK highs, lows : highs = {b.high : b \in Range(buffer)} /\ lows = {b.low : b \in Range(buffer)}
  OBVIOUS
<1>16. highs = {buffer[j].high : j \in 1..size} /\ lows = {buffer[j].low : j \in 1..size}
  BY <1>2, <1>15 DEF Range
<1>17. /\ highs \in SUBSET Int /\ highs # {} /\ IsFiniteSet(highs)
       /\ lows \in SUBSET Int /\ lows # {} /\ IsFiniteSet(lows)
  <2>1. PICK f, g : f = [j \in 1..size |-> buffer[j].high] /\ g = [j \in 1..size |-> buffer[j].low]
    OBVIOUS
  <2>2. /\ f = [j \in 1..size |-> f[j]] /\ highs = {f[j] : j \in 1..size}
        /\ g = [j \in 1..size |-> g[j]] /\ lows = {g[j] : j \in 1..size}
    BY <1>16, <2>1
  <2>3. IsFiniteSet(1..size)
    BY <1>2, FS_Interval
  <2>4. IsFiniteSet(highs) /\ IsFiniteSet(lows)
    <3>1. IsFiniteSet({f[j] : j \in 1..size})
      BY <2>2, <2>3, ValuesFinite
    <3>2. IsFiniteSet({g[j] : j \in 1..size})
      BY <2>2, <2>3, ValuesFinite
    <3> QED BY <2>2, <3>1, <3>2
  <2>5. highs \in SUBSET Int /\ lows \in SUBSET Int
    BY <1>13, <1>16
  <2>6. highs # {} /\ lows # {}
    BY <1>2, <1>16
  <2> QED BY <2>4, <2>5, <2>6
<1>18. Max(highs) \in highs /\ (\A y \in highs : Max(highs) >= y)
       /\ Min(lows) \in lows /\ (\A y \in lows : Min(lows) <= y)
  BY <1>17, MaxOf, MinOf
<1>19. Max(highs) = Max(Prices(log, U))
  <2>1. PICK top, most : top = Max(Prices(log, U)) /\ most = Max(highs)
    OBVIOUS
  <2>2. PICK j \in 1..size : most = buffer[j].high
    BY <1>16, <1>18, <2>1
  <2>3. PICK i \in P[j] : most = log[i].price
    BY <1>13, <2>2 DEF Prices
  <2>4. most <= top
    BY <1>6, <1>14, <2>1, <2>3
  <2>5. PICK k \in U : top = log[k].price
    BY <1>14, <2>1 DEF Prices
  <2>6. PICK m \in 1..size : k \in P[m]
    BY <1>7
  <2>7. top <= buffer[m].high /\ buffer[m].high \in highs
    BY <1>13, <1>16, <2>5, <2>6
  <2>8. most >= buffer[m].high
    BY <1>18, <2>1, <2>7
  <2>9. most \in Int /\ top \in Int /\ buffer[m].high \in Int
    <3>1. \A y \in highs : y \in Int
      BY <1>17
    <3>2. most \in highs /\ buffer[m].high \in highs
      BY <1>18, <2>1, <2>7
    <3>3. top \in Nat
      BY <1>14, <2>1
    <3> QED BY <3>1, <3>2, <3>3
  <2>10. most = top
    BY <2>4, <2>7, <2>8, <2>9
  <2> QED BY <2>1, <2>10
<1>20. Min(lows) = Min(Prices(log, U))
  <2>1. PICK bottom, least : bottom = Min(Prices(log, U)) /\ least = Min(lows)
    OBVIOUS
  <2>2. PICK j \in 1..size : least = buffer[j].low
    BY <1>16, <1>18, <2>1
  <2>3. PICK i \in P[j] : least = log[i].price
    BY <1>13, <2>2 DEF Prices
  <2>4. bottom <= least
    BY <1>6, <1>14, <2>1, <2>3
  <2>5. PICK k \in U : bottom = log[k].price
    BY <1>14, <2>1 DEF Prices
  <2>6. PICK m \in 1..size : k \in P[m]
    BY <1>7
  <2>7. buffer[m].low <= bottom /\ buffer[m].low \in lows
    BY <1>13, <1>16, <2>5, <2>6
  <2>8. least <= buffer[m].low
    BY <1>18, <2>1, <2>7
  <2>9. least \in Int /\ bottom \in Int /\ buffer[m].low \in Int
    <3>1. \A y \in lows : y \in Int
      BY <1>17
    <3>2. least \in lows /\ buffer[m].low \in lows
      BY <1>18, <2>1, <2>7
    <3>3. bottom \in Nat
      BY <1>14, <2>1
    <3> QED BY <3>1, <3>2, <3>3
  <2>10. least = bottom
    BY <2>4, <2>7, <2>8, <2>9
  <2> QED BY <2>1, <2>10
<1>21. VolumeOf(buffer) = Cardinality(U)
  <2>1. PICK w : w = VolumesOf(buffer)
    OBVIOUS
  <2>2. \A j \in 1..size : w[j] = Cardinality(P[j]) /\ w[j] \in Int
    <3>1. \A j \in 1..size : w[j] = buffer[j].volume
      BY <1>1, <2>1 DEF VolumesOf
    <3>2. \A j \in 1..size : Cardinality(P[j]) \in Nat
      BY <1>4, FS_CardinalityType
    <3> QED BY <1>12, <3>1, <3>2
  <2>3. w \in [1..size -> Int]
    BY <1>1, <2>1, <2>2 DEF VolumesOf
  <2>4. \A j \in 1..size : w[j] = Cardinality(PartIn(ss, log, a + j, a + j))
    BY <1>3, <2>2
  <2>5. SumOver(w, 1..size) = Cardinality(PartIn(ss, log, a + 1, a + size))
    BY <1>2, <2>3, <2>4, WindowCounts
  <2>6. VolumeOf(buffer) = SumOver(w, 1..size)
    BY <1>1, <2>1, VolumeIsSum
  <2> QED BY <1>1, <2>5, <2>6
<1>22. Head(buffer) = buffer[1] /\ Last(buffer) = buffer[size]
  BY <1>1, <1>2 DEF Last
<1>23. Synthesized(buffer) =
         [start |-> BarIn(ss, log, Min(U)), open |-> log[Min(U)].price, high |-> Max(Prices(log, U)),
          low |-> Min(Prices(log, U)), close |-> log[Max(U)].price, volume |-> Cardinality(U)]
  <2>1. HighOf(Range(buffer)) = Max(Prices(log, U)) /\ LowOf(Range(buffer)) = Min(Prices(log, U))
    BY <1>15, <1>19, <1>20 DEF HighOf, LowOf
  <2>2. /\ Head(buffer).start = BarIn(ss, log, Min(U)) /\ Head(buffer).open = log[Min(U)].price
        /\ Last(buffer).close = log[Max(U)].price
    BY <1>2, <1>10, <1>11, <1>12, <1>22
  <2> QED BY <1>21, <2>1, <2>2 DEF Synthesized
<1> QED BY <1>1, <1>8, <1>23 DEF BarFrom, Prices, Joins

\* What the two generators hold after the ticks of a log.
Windows(ss, out, log) ==
  \A w \in 1..Len(out) :
    /\ PartIn(ss, log, WindowSize * (w - 1) + 1, WindowSize * w) # {}
    /\ out[w] = BarFrom(ss, log, PartIn(ss, log, WindowSize * (w - 1) + 1, WindowSize * w))
OpenBar(ss, bar, log, n) ==
  PartIn(ss, log, n, n) # {} /\ bar = BarFrom(ss, log, PartIn(ss, log, n, n)) /\ bar.start = BarIn(ss, log, Len(log))
Made(ss, log, out, buffer, bar) ==
  /\ out \in Seq(BarRecords) /\ buffer \in Seq(BarRecords) /\ Len(buffer) < WindowSize
  /\ log = <<>> => out = <<>> /\ buffer = <<>>
  /\ log # <<>> => /\ BarsIn(ss, log, Len(log)) = WindowSize * Len(out) + Len(buffer) + 1
                   /\ OpenBar(ss, bar, log, BarsIn(ss, log, Len(log)))
                   /\ HoldsBars(ss, buffer, log, WindowSize * Len(out)) /\ Windows(ss, out, log)

\* Windows come one after the other.
LEMMA Products ==
  ASSUME NEW e \in Nat, NEW w \in 1..e
  PROVE  /\ WindowSize * w \in Nat /\ WindowSize * (w - 1) \in Nat /\ WindowSize * e \in Nat
         /\ WindowSize * w <= WindowSize * e
         /\ WindowSize * (e + 1) = WindowSize * e + WindowSize
<1>1. WindowSize \in Nat
  BY BarAssumption
<1>2. \A m, k \in Nat : m * k \in Nat
  OBVIOUS
<1>3. PICK d \in Nat : e = w + d
  <2>1. e - w \in Nat /\ e = w + (e - w)
    OBVIOUS
  <2> QED BY <2>1
<1>4. w \in Nat /\ w - 1 \in Nat
  OBVIOUS
<1>5. WindowSize * w \in Nat /\ WindowSize * (w - 1) \in Nat /\ WindowSize * e \in Nat /\ WindowSize * d \in Nat
  BY <1>1, <1>2, <1>3, <1>4
<1>6. \A k, m, l \in Int : k * (m + l) = k * m + k * l
  OBVIOUS
<1>7. WindowSize * e = WindowSize * w + WindowSize * d
  BY <1>1, <1>3, <1>4, <1>6
<1>8. WindowSize * (e + 1) = WindowSize * e + WindowSize
  BY <1>1, <1>6
<1> QED BY <1>5, <1>7, <1>8

Reaches(ss, next, log, last, tick) ==
  /\ log = <<>> => BarIn(ss, next, last) = StartOf(ss, tick.time)
  /\ log # <<>> /\ BarIn(ss, next, last) > BarIn(ss, log, Len(log)) => BarIn(ss, next, last) = StartOf(ss, tick.time)
  /\ log # <<>> /\ StartOf(ss, tick.time) > BarIn(ss, log, Len(log)) => BarIn(ss, next, last) > BarIn(ss, log, Len(log))

\* A tick reaches a later bar exactly when the bar of its time is later.
LEMMA BarReached ==
  ASSUME NEW ss \in Starts, NEW log \in Seq(Ticks), NEW tick \in Ticks,
         NEW next, next = Append(log, tick), NEW last, last = Len(log) + 1
  PROVE  Reaches(ss, next, log, last, tick)
<1>1. /\ next \in Seq(Ticks) /\ Len(next) = last /\ Len(log) \in Nat /\ next[last] = tick
      /\ \A i \in 1..Len(log) : next[i] = log[i]
  OBVIOUS
<1>2. last \in 1..Len(next) /\ last \in 1..last /\ last \in Nat
  BY <1>1
<1>3. /\ TopTime(next, last) \in Nat /\ tick.time <= TopTime(next, last)
      /\ \E j \in 1..last : TopTime(next, last) = next[j].time
  BY <1>1, <1>2, TopTimeIs
<1>4. tick.time \in Nat
  BY <1>1, <1>2, TimesTyped
<1>5. StartOf(ss, tick.time) <= BarIn(ss, next, last) /\ BarIn(ss, next, last) \in Nat /\ StartOf(ss, tick.time) \in Nat
  BY <1>3, <1>4, StartGrows, StartIs DEF BarIn
<1>6. ASSUME log = <<>> PROVE BarIn(ss, next, last) = StartOf(ss, tick.time)
  <2>1. last = 1
    BY <1>6
  <2>2. TopTime(next, last) = tick.time
    BY <1>1, <1>3, <2>1
  <2> QED BY <2>2 DEF BarIn
<1>7. ASSUME log # <<>>, BarIn(ss, next, last) > BarIn(ss, log, Len(log)) PROVE BarIn(ss, next, last) = StartOf(ss, tick.time)
  <2>1. PICK j \in 1..last : TopTime(next, last) = next[j].time
    BY <1>3
  <2>2. CASE j = last
    BY <1>1, <2>1, <2>2 DEF BarIn
  <2>3. CASE j # last
    <3>1. j \in 1..Len(log) /\ Len(log) \in 1..Len(log) /\ j \in 1..Len(log)
      BY <1>1, <2>3
    <3>2. log[j].time <= TopTime(log, Len(log)) /\ TopTime(log, Len(log)) \in Nat
      BY <3>1, TopTimeIs
    <3>3. log[j].time \in Nat /\ TopTime(next, last) = log[j].time
      BY <1>1, <2>1, <3>1, TimesTyped
    <3>4. BarIn(ss, next, last) <= BarIn(ss, log, Len(log))
      BY <3>2, <3>3, StartGrows DEF BarIn
    <3>5. BarIn(ss, log, Len(log)) \in Nat
      BY <3>1, BarsGrow
    <3> QED BY <1>5, <1>7, <3>4, <3>5
  <2> QED BY <2>2, <2>3
<1>8. ASSUME log # <<>>, StartOf(ss, tick.time) > BarIn(ss, log, Len(log)) PROVE BarIn(ss, next, last) > BarIn(ss, log, Len(log))
  <2>1. Len(log) \in 1..Len(log)
    BY <1>1, <1>8
  <2>2. BarIn(ss, log, Len(log)) \in Nat
    BY <2>1, BarsGrow
  <2> QED BY <1>5, <1>8, <2>2
<1> QED BY <1>6, <1>7, <1>8 DEF Reaches

Opens(ss, next, last, tick) ==
  BarOfTick(ss, tick) = BarFrom(ss, next, {last}) /\ BarOfTick(ss, tick).start = BarIn(ss, next, last)

\* A bar of one tick.
LEMMA NewBarIs ==
  ASSUME NEW ss \in Starts, NEW log \in Seq(Ticks), NEW tick \in Ticks,
         NEW next, next = Append(log, tick), NEW last, last = Len(log) + 1,
         BarIn(ss, next, last) = StartOf(ss, tick.time)
  PROVE  Opens(ss, next, last, tick)
<1>1. Len(log) \in Nat /\ last \in Nat /\ next[last] = tick
  OBVIOUS
<1>2. tick.price \in Nat
  <2>1. tick.price \in TickPrices /\ TickPrices \subseteq Nat
    BY BarAssumption DEF Ticks
  <2> QED BY <2>1
<1>3. \A n \in Nat : Max({n}) = n /\ Min({n}) = n
  <2>1. ASSUME NEW n \in Nat PROVE Max({n}) = n /\ Min({n}) = n
    <3>1. PICK S : S = {n}
      OBVIOUS
    <3>2. S \in SUBSET Int /\ S # {}
      BY <3>1
    <3>4. IsFiniteSet(S)
      BY <3>1, FS_Singleton
    <3>3. Max(S) \in S /\ Min(S) \in S
      BY <3>2, <3>4, MaxOf, MinOf
    <3> QED BY <3>1, <3>3
  <2> QED BY <2>1
<1>4. PICK is, ps : is = {last} /\ ps = {next[i].price : i \in is}
  OBVIOUS
<1>5. ps = {tick.price} /\ Max(is) = last /\ Min(is) = last /\ Cardinality(is) = 1
  <2>1. ps = {tick.price}
    BY <1>1, <1>4
  <2>2. Max(is) = last /\ Min(is) = last
    BY <1>1, <1>3, <1>4
  <2>3. Cardinality(is) = 1
    BY <1>4, FS_Singleton
  <2> QED BY <2>1, <2>2, <2>3
<1>6. Max(ps) = tick.price /\ Min(ps) = tick.price
  BY <1>2, <1>3, <1>5
<1>7. BarFrom(ss, next, is) = [start |-> BarIn(ss, next, last), open |-> tick.price, high |-> tick.price,
                           low |-> tick.price, close |-> tick.price, volume |-> 1]
  BY <1>1, <1>4, <1>5, <1>6 DEF BarFrom
<1> QED BY <1>4, <1>7 DEF BarOfTick, Opens

\* A tick more changes nothing of the bars before the open one.
Stays(ss, next, log, from, to) ==
  /\ PartIn(ss, next, from, to) = PartIn(ss, log, from, to)
  /\ BarFrom(ss, next, PartIn(ss, next, from, to)) = BarFrom(ss, log, PartIn(ss, log, from, to))

LEMMA PartStays ==
  ASSUME NEW ss \in Starts, NEW log \in Seq(Ticks), log # <<>>, NEW tick \in Ticks,
         NEW next, next = Append(log, tick), NEW from \in Int, NEW to \in Int,
         to < BarsIn(ss, log, Len(log)), PartIn(ss, log, from, to) # {}
  PROVE  Stays(ss, next, log, from, to)
<1>1. PICK n, last, is : n = BarsIn(ss, log, Len(log)) /\ last = Len(log) + 1 /\ is = PartIn(ss, log, from, to)
  OBVIOUS
<1>2. Grown(ss, next, log, last, n, from, to)
  BY <1>1, PartGrows
<1>3. to < n /\ n \in Nat
  BY <1>1, <1>2 DEF Grown
<1>5. PartIn(ss, next, from, to) = is
  BY <1>1, <1>2, <1>3 DEF Grown
<1>6. is \in SUBSET (1..Len(log)) /\ is # {}
  BY <1>1, PartTyped
<1>7. Continues(ss, next, log)
  BY Before
<1>8. BarFrom(ss, next, is) = BarFrom(ss, log, is)
  BY <1>6, <1>7, BarStays
<1> QED BY <1>1, <1>5, <1>8 DEF Stays

\* So both generators keep the bars they have.
LEMMA BarsKept ==
  ASSUME NEW ss \in Starts, NEW log \in Seq(Ticks), log # <<>>, NEW tick \in Ticks,
         NEW next, next = Append(log, tick), NEW out, NEW buffer, NEW bar, Made(ss, log, out, buffer, bar)
  PROVE  HoldsBars(ss, buffer, next, WindowSize * Len(out)) /\ Windows(ss, out, next)
<1>1. PICK n, base : n = BarsIn(ss, log, Len(log)) /\ base = WindowSize * Len(out)
  OBVIOUS
<1>2. /\ out \in Seq(BarRecords) /\ buffer \in Seq(BarRecords) /\ n = base + Len(buffer) + 1
      /\ HoldsBars(ss, buffer, log, base) /\ Windows(ss, out, log)
  BY <1>1 DEF Made
<1>3. Len(out) \in Nat /\ Len(buffer) \in Nat /\ base \in Nat
  <2>1. Len(out) \in Nat /\ Len(buffer) \in Nat /\ WindowSize \in Nat
    BY <1>2, BarAssumption
  <2>2. \A m, k \in Nat : m * k \in Nat
    OBVIOUS
  <2> QED BY <1>1, <2>1, <2>2
<1>4. ASSUME NEW j \in 1..Len(buffer)
      PROVE  PartIn(ss, next, base + j, base + j) # {} /\ buffer[j] = BarFrom(ss, next, PartIn(ss, next, base + j, base + j))
  <2>1. PartIn(ss, log, base + j, base + j) # {} /\ buffer[j] = BarFrom(ss, log, PartIn(ss, log, base + j, base + j))
    BY <1>2 DEF HoldsBars
  <2>2. PICK to : to = base + j
    OBVIOUS
  <2>3. to \in Int /\ to < BarsIn(ss, log, Len(log))
    BY <1>1, <1>2, <1>3, <2>2
  <2>4. PartIn(ss, log, to, to) # {}
    BY <2>1, <2>2
  <2>5. Stays(ss, next, log, to, to)
    BY <2>3, <2>4, PartStays
  <2> QED BY <2>1, <2>2, <2>5 DEF Stays
<1>5. ASSUME NEW w \in 1..Len(out)
      PROVE  /\ PartIn(ss, next, WindowSize * (w - 1) + 1, WindowSize * w) # {}
             /\ out[w] = BarFrom(ss, next, PartIn(ss, next, WindowSize * (w - 1) + 1, WindowSize * w))
  <2>1. PICK from, to : from = WindowSize * (w - 1) + 1 /\ to = WindowSize * w
    OBVIOUS
  <2>2. PartIn(ss, log, from, to) # {} /\ out[w] = BarFrom(ss, log, PartIn(ss, log, from, to))
    BY <1>2, <2>1 DEF Windows
  <2>3. WindowSize * (w - 1) \in Nat /\ to \in Nat /\ to <= base
    BY <1>1, <1>3, <2>1, Products
  <2>4. from \in Int /\ to \in Int /\ to < BarsIn(ss, log, Len(log))
    BY <1>1, <1>2, <1>3, <2>1, <2>3, SMTT(60)
  <2>5. Stays(ss, next, log, from, to)
    BY <2>2, <2>4, PartStays
  <2> QED BY <2>1, <2>2, <2>5 DEF Stays
<1> QED BY <1>1, <1>4, <1>5 DEF HoldsBars, Windows

\* The first tick opens the first bar.
LEMMA FirstTick ==
  ASSUME NEW ss \in Starts, NEW tick \in Ticks
  PROVE  Made(ss, <<tick>>, <<>>, <<>>, BarOfTick(ss, tick))
<1>1. PICK log, next, last : log = <<>> /\ next = <<tick>> /\ last = Len(log) + 1
  OBVIOUS
<1>2. log \in Seq(Ticks) /\ next = Append(log, tick) /\ next \in Seq(Ticks) /\ Len(next) = 1 /\ last = 1
      /\ next # <<>> /\ 1 \in 1..Len(next)
  BY <1>1
<1>3. BarIn(ss, next, last) = StartOf(ss, tick.time)
  <2>1. log \in Seq(Ticks) /\ next = Append(log, tick) /\ last = Len(log) + 1
    BY <1>1, <1>2
  <2>2. Reaches(ss, next, log, last, tick)
    BY <2>1, BarReached
  <2> QED BY <1>1, <2>2 DEF Reaches
<1>4. BarOfTick(ss, tick) = BarFrom(ss, next, {last}) /\ BarOfTick(ss, tick).start = BarIn(ss, next, last)
  <2>1. log \in Seq(Ticks) /\ next = Append(log, tick) /\ last = Len(log) + 1
    BY <1>1, <1>2
  <2>2. Opens(ss, next, last, tick)
    BY <1>3, <2>1, NewBarIs
  <2> QED BY <2>2 DEF Opens
<1>5. BarsIn(ss, next, 1) = 1
  BY <1>2, BarsCount
<1>6. PartIn(ss, next, 1, 1) = {1}
  BY <1>2, <1>5 DEF PartIn
<1>7. OpenBar(ss, BarOfTick(ss, tick), next, 1)
  BY <1>2, <1>4, <1>6 DEF OpenBar
<1>8. PICK none : none = <<>>
  OBVIOUS
<1>9. none \in Seq(BarRecords) /\ Len(none) = 0 /\ HoldsBars(ss, none, next, WindowSize * Len(none)) /\ Windows(ss, none, next)
  BY <1>8 DEF HoldsBars, Windows
<1>10. WindowSize * 0 = 0 /\ 0 < WindowSize
  BY BarAssumption
<1>11. Made(ss, next, none, none, BarOfTick(ss, tick))
  BY <1>2, <1>5, <1>7, <1>9, <1>10 DEF Made
<1> QED BY <1>1, <1>8, <1>11

\* A tick of the open bar goes into it.
LEMMA SameBar ==
  ASSUME NEW ss \in Starts, NEW log \in Seq(Ticks), log # <<>>, NEW tick \in Ticks,
         NEW next, next = Append(log, tick), NEW last, last = Len(log) + 1, NEW out, NEW buffer,
         Made(ss, log, out, buffer, currentBar), ~(BarIn(ss, next, last) > BarIn(ss, log, Len(log)))
  PROVE  Made(ss, next, out, buffer, UpdateCurrentBar(tick))
<1>1. PICK n, is : n = BarsIn(ss, log, Len(log)) /\ is = PartIn(ss, log, n, n)
  OBVIOUS
<1>2. /\ out \in Seq(BarRecords) /\ buffer \in Seq(BarRecords) /\ Len(buffer) < WindowSize
      /\ n = WindowSize * Len(out) + Len(buffer) + 1
      /\ is # {} /\ currentBar = BarFrom(ss, log, is) /\ currentBar.start = BarIn(ss, log, Len(log))
  BY <1>1 DEF Made, OpenBar
<1>3. next \in Seq(Ticks) /\ Len(next) = last /\ next[last] = tick /\ Len(log) \in Nat /\ next # <<>>
  OBVIOUS
<1>4. n \in Nat
  <2>1. Len(log) \in 1..Len(log)
    BY <1>3
  <2> QED BY <1>1, <2>1, BarsCount
<1>5. n \in Int
  BY <1>4
<1>6. BarsIn(ss, next, last) = n /\ BarIn(ss, next, last) = BarIn(ss, log, Len(log)) /\ PartIn(ss, next, n, n) = is \cup {last}
  <2>1. Grown(ss, next, log, last, n, n, n)
    BY <1>1, <1>5, PartGrows
  <2> QED BY <1>1, <2>1 DEF Grown
<1>7. is \in SUBSET (1..Len(log))
  BY <1>1, <1>5, PartTyped
<1>8. currentBar = BarFrom(ss, next, is)
  <2>1. Continues(ss, next, log)
    BY Before
  <2>2. BarFrom(ss, next, is) = BarFrom(ss, log, is)
    BY <1>2, <1>7, <2>1, BarStays
  <2> QED BY <1>2, <2>2
<1>9. UpdateCurrentBar(next[last]) = BarFrom(ss, next, is \cup {last})
  <2>1. is \in SUBSET (1..(Len(next) - 1)) /\ is # {} /\ last = Len(next)
    BY <1>2, <1>3, <1>7
  <2>2. TakesUp(ss, next, last, is)
    BY <1>3, <1>8, <2>1, BarGrows
  <2> QED BY <2>2 DEF TakesUp
<1>10. UpdateCurrentBar(tick).start = currentBar.start
  <2>1. PICK bar : bar = currentBar
    OBVIOUS
  <2>2. bar = [start |-> BarIn(ss, log, Min(is)), open |-> log[Min(is)].price,
               high |-> Max({log[i].price : i \in is}), low |-> Min({log[i].price : i \in is}),
               close |-> log[Max(is)].price, volume |-> Cardinality(is)]
    BY <1>2, <2>1 DEF BarFrom
  <2>3. UpdateCurrentBar(tick) = [bar EXCEPT !.high = Max({@, tick.price}), !.low = Min({@, tick.price}),
                                             !.close = tick.price, !.volume = @ + 1]
    BY <2>1 DEF UpdateCurrentBar
  <2>4. UpdateCurrentBar(tick).start = bar.start
    BY <2>2, <2>3
  <2> QED BY <2>1, <2>4
<1>11. OpenBar(ss, UpdateCurrentBar(tick), next, n)
  <2>1. PICK part : part = is \cup {last}
    OBVIOUS
  <2>2. part # {} /\ UpdateCurrentBar(tick) = BarFrom(ss, next, part) /\ PartIn(ss, next, n, n) = part
    BY <1>3, <1>6, <1>9, <2>1
  <2>3. UpdateCurrentBar(tick).start = BarIn(ss, next, Len(next))
    BY <1>2, <1>3, <1>6, <1>10
  <2> QED BY <2>2, <2>3 DEF OpenBar
<1>12. HoldsBars(ss, buffer, next, WindowSize * Len(out)) /\ Windows(ss, out, next)
  BY BarsKept
<1> QED BY <1>2, <1>3, <1>6, <1>11, <1>12 DEF Made

Closed(ss, next, last, out, buffer, both, bar) ==
  /\ next \in Seq(Ticks) /\ next # <<>> /\ Len(next) = last
  /\ both \in Seq(BarRecords) /\ Len(both) = Len(buffer) + 1 /\ Len(buffer) \in Nat
  /\ BarsIn(ss, next, last) = WindowSize * Len(out) + Len(both) + 1
  /\ OpenBar(ss, bar, next, BarsIn(ss, next, last))
  /\ HoldsBars(ss, both, next, WindowSize * Len(out)) /\ Windows(ss, out, next)
  /\ Len(out) \in Nat /\ WindowSize * Len(out) \in Nat

\* A tick of a later bar closes the open one: it is whole,
LEMMA BarCloses ==
  ASSUME NEW ss \in Starts, NEW log \in Seq(Ticks), log # <<>>, NEW tick \in Ticks,
         NEW next, next = Append(log, tick), NEW last, last = Len(log) + 1, NEW out, NEW buffer,
         Made(ss, log, out, buffer, currentBar), BarIn(ss, next, last) > BarIn(ss, log, Len(log)),
         NEW both, both = Append(buffer, currentBar)
  PROVE  Closed(ss, next, last, out, buffer, both, BarOfTick(ss, tick))
<1>1. PICK n, is, base : n = BarsIn(ss, log, Len(log)) /\ is = PartIn(ss, log, n, n) /\ base = WindowSize * Len(out)
  OBVIOUS
<1>2. /\ out \in Seq(BarRecords) /\ buffer \in Seq(BarRecords) /\ n = base + Len(buffer) + 1
      /\ is # {} /\ currentBar = BarFrom(ss, log, is)
  BY <1>1 DEF Made, OpenBar
<1>3. next \in Seq(Ticks) /\ Len(next) = last /\ next[last] = tick /\ Len(log) \in Nat /\ next # <<>>
      /\ Len(log) \in 1..Len(log)
  OBVIOUS
<1>4. n \in Nat /\ n \in Int
  BY <1>1, <1>3, BarsCount
<1>5. BarsIn(ss, next, last) = n + 1 /\ PartIn(ss, next, n + 1, n + 1) = {last} /\ PartIn(ss, next, n, n) = is
  <2>1. Grown(ss, next, log, last, n, n, n)
    BY <1>1, <1>4, PartGrows
  <2> QED BY <1>1, <1>4, <2>1 DEF Grown
<1>6. is \in SUBSET (1..Len(log))
  BY <1>1, <1>4, PartTyped
<1>7. currentBar = BarFrom(ss, next, is) /\ currentBar \in BarRecords
  <2>1. Continues(ss, next, log)
    BY Before
  <2>2. BarFrom(ss, next, is) = BarFrom(ss, log, is)
    BY <1>2, <1>6, <2>1, BarStays
  <2>3. BarFrom(ss, log, is) \in BarRecords
    BY <1>2, <1>6, BarTypedIs
  <2> QED BY <1>2, <2>2, <2>3
<1>8. Len(out) \in Nat /\ base \in Nat
  <2>1. Len(out) \in Nat /\ WindowSize \in Nat
    BY <1>2, BarAssumption
  <2>2. \A m, k \in Nat : m * k \in Nat
    OBVIOUS
  <2> QED BY <1>1, <2>1, <2>2
<1>9. /\ both \in Seq(BarRecords) /\ Len(both) = Len(buffer) + 1 /\ Len(buffer) \in Nat
      /\ both[Len(buffer) + 1] = currentBar /\ \A j \in 1..Len(buffer) : both[j] = buffer[j]
  BY <1>2, <1>7
<1>10. OpenBar(ss, BarOfTick(ss, tick), next, n + 1)
  <2>0. Reaches(ss, next, log, last, tick)
    BY BarReached
  <2>1. BarIn(ss, next, last) = StartOf(ss, tick.time)
    BY <2>0 DEF Reaches
  <2>2. BarOfTick(ss, tick) = BarFrom(ss, next, {last}) /\ BarOfTick(ss, tick).start = BarIn(ss, next, last)
    <3>1. Opens(ss, next, last, tick)
      BY <2>1, NewBarIs
    <3> QED BY <3>1 DEF Opens
  <2>3. PICK part : part = {last}
    OBVIOUS
  <2>4. part # {} /\ PartIn(ss, next, n + 1, n + 1) = part /\ BarOfTick(ss, tick) = BarFrom(ss, next, part)
    BY <1>5, <2>2, <2>3
  <2> QED BY <1>3, <2>2, <2>4 DEF OpenBar
<1>11. HoldsBars(ss, buffer, next, WindowSize * Len(out)) /\ Windows(ss, out, next)
  BY BarsKept
<1>12. HoldsBars(ss, both, next, base)
  <2>1. ASSUME NEW j \in 1..Len(both)
        PROVE  PartIn(ss, next, base + j, base + j) # {} /\ both[j] = BarFrom(ss, next, PartIn(ss, next, base + j, base + j))
    <3>1. CASE j \in 1..Len(buffer)
      BY <1>1, <1>9, <1>11, <3>1 DEF HoldsBars
    <3>2. CASE j \notin 1..Len(buffer)
      <4>1. j = Len(buffer) + 1
        BY <1>9, <3>2
      <4>3. base + j = n
        BY <1>2, <1>8, <1>9, <4>1
      <4>2. PartIn(ss, next, base + j, base + j) = is /\ both[j] = currentBar
        BY <1>5, <1>9, <4>1, <4>3
      <4> QED BY <1>2, <1>7, <4>2
    <3> QED BY <3>1, <3>2
  <2> QED BY <2>1 DEF HoldsBars
<1>13. BarsIn(ss, next, last) = base + Len(both) + 1
  BY <1>2, <1>5, <1>8, <1>9
<1> QED BY <1>1, <1>3, <1>5, <1>8, <1>9, <1>10, <1>11, <1>12, <1>13 DEF Closed

\* and goes to the second generator, which waits for more
LEMMA WindowWaits ==
  ASSUME NEW ss \in Starts, NEW log \in Seq(Ticks), log # <<>>, NEW tick \in Ticks,
         NEW next, next = Append(log, tick), NEW last, last = Len(log) + 1, NEW out, NEW buffer,
         Made(ss, log, out, buffer, currentBar), BarIn(ss, next, last) > BarIn(ss, log, Len(log)),
         NEW both, both = Append(buffer, currentBar), ~(Len(both) >= WindowSize)
  PROVE  Made(ss, next, out, both, BarOfTick(ss, tick))
<1>1. /\ next # <<>> /\ Len(next) = last
      /\ both \in Seq(BarRecords) /\ Len(both) = Len(buffer) + 1 /\ Len(buffer) \in Nat
      /\ BarsIn(ss, next, last) = WindowSize * Len(out) + Len(both) + 1
      /\ OpenBar(ss, BarOfTick(ss, tick), next, BarsIn(ss, next, last))
      /\ HoldsBars(ss, both, next, WindowSize * Len(out)) /\ Windows(ss, out, next)
  <2>1. Closed(ss, next, last, out, buffer, both, BarOfTick(ss, tick))
    BY BarCloses
  <2> QED BY <2>1 DEF Closed
<1>2. out \in Seq(BarRecords) /\ Len(both) < WindowSize
  <2>1. WindowSize \in Nat
    BY BarAssumption
  <2> QED BY <1>1, <2>1 DEF Made
<1> QED BY <1>1, <1>2 DEF Made

\* or makes the bar of the window.
LEMMA WindowCloses ==
  ASSUME NEW ss \in Starts, NEW log \in Seq(Ticks), log # <<>>, NEW tick \in Ticks,
         NEW next, next = Append(log, tick), NEW last, last = Len(log) + 1, NEW out, NEW buffer,
         Made(ss, log, out, buffer, currentBar), BarIn(ss, next, last) > BarIn(ss, log, Len(log)),
         NEW both, both = Append(buffer, currentBar), Len(both) >= WindowSize
  PROVE  Made(ss, next, Append(out, Synthesized(both)), <<>>, BarOfTick(ss, tick))
<1>1. /\ next \in Seq(Ticks) /\ next # <<>> /\ Len(next) = last
      /\ both \in Seq(BarRecords) /\ Len(both) = Len(buffer) + 1 /\ Len(buffer) \in Nat
      /\ BarsIn(ss, next, last) = WindowSize * Len(out) + Len(both) + 1
      /\ OpenBar(ss, BarOfTick(ss, tick), next, BarsIn(ss, next, last))
      /\ HoldsBars(ss, both, next, WindowSize * Len(out)) /\ Windows(ss, out, next)
      /\ Len(out) \in Nat /\ WindowSize * Len(out) \in Nat
  <2>1. Closed(ss, next, last, out, buffer, both, BarOfTick(ss, tick))
    BY BarCloses
  <2> QED BY <2>1 DEF Closed
<1>2. out \in Seq(BarRecords) /\ Len(buffer) < WindowSize /\ WindowSize \in Nat /\ WindowSize > 0
  BY BarAssumption DEF Made
<1>3. Len(both) = WindowSize /\ both # <<>>
  BY <1>1, <1>2
<1>4. PICK base, bar, part : /\ base = WindowSize * Len(out) /\ bar = Synthesized(both)
                             /\ part = PartIn(ss, next, base + 1, base + WindowSize)
  OBVIOUS
<1>5. bar = BarFrom(ss, next, part) /\ part # {}
  <2>1. base \in Nat /\ HoldsBars(ss, both, next, base)
    BY <1>1, <1>4
  <2>2. Joins(ss, both, next, base)
    BY <1>1, <1>3, <2>1, WindowBar
  <2> QED BY <1>3, <1>4, <2>2 DEF Joins
<1>6. bar \in BarRecords
  <2>1. base + 1 \in Int /\ base + WindowSize \in Int
    BY <1>1, <1>2, <1>4
  <2>2. part \in SUBSET (1..Len(next))
    BY <1>1, <1>4, <2>1, PartTyped
  <2> QED BY <1>1, <1>5, <2>2, BarTypedIs
<1>7. PICK more : more = Append(out, bar)
  OBVIOUS
<1>8. /\ more \in Seq(BarRecords) /\ Len(more) = Len(out) + 1 /\ more[Len(out) + 1] = bar
      /\ \A w \in 1..Len(out) : more[w] = out[w]
  BY <1>2, <1>6, <1>7
<1>9. WindowSize * Len(more) = base + WindowSize
  <2>1. \A k, m, l \in Int : k * (m + l) = k * m + k * l
    OBVIOUS
  <2>2. WindowSize * (Len(out) + 1) = WindowSize * Len(out) + WindowSize * 1
    BY <1>1, <1>2, <2>1
  <2> QED BY <1>2, <1>4, <1>8, <2>2
<1>10. Windows(ss, more, next)
  <2>1. ASSUME NEW w \in 1..Len(more)
        PROVE  /\ PartIn(ss, next, WindowSize * (w - 1) + 1, WindowSize * w) # {}
               /\ more[w] = BarFrom(ss, next, PartIn(ss, next, WindowSize * (w - 1) + 1, WindowSize * w))
    <3>1. CASE w \in 1..Len(out)
      BY <1>1, <1>8, <3>1 DEF Windows
    <3>2. CASE w \notin 1..Len(out)
      <4>1. w = Len(more) /\ w - 1 = Len(out) /\ w = Len(out) + 1
        BY <1>1, <1>8, <3>2
      <4>2. WindowSize * (w - 1) = base /\ WindowSize * w = base + WindowSize
        BY <1>4, <1>9, <4>1
      <4>3. PartIn(ss, next, WindowSize * (w - 1) + 1, WindowSize * w) = part /\ more[w] = bar
        BY <1>4, <1>8, <4>1, <4>2
      <4> QED BY <1>5, <4>3
    <3> QED BY <3>1, <3>2
  <2> QED BY <2>1 DEF Windows
<1>11. PICK none : none = <<>>
  OBVIOUS
<1>12. none \in Seq(BarRecords) /\ Len(none) = 0 /\ HoldsBars(ss, none, next, WindowSize * Len(more))
  BY <1>11 DEF HoldsBars
<1>13. BarsIn(ss, next, last) = WindowSize * Len(more) + Len(none) + 1
  <2>1. BarsIn(ss, next, last) = base + WindowSize + 1
    BY <1>1, <1>3, <1>4
  <2>2. base \in Nat
    BY <1>1, <1>4
  <2>3. WindowSize * Len(more) + Len(none) + 1 = base + WindowSize + 1
    BY <1>2, <1>9, <1>12, <2>2
  <2> QED BY <2>1, <2>3
<1>14. Made(ss, next, more, none, BarOfTick(ss, tick))
  BY <1>1, <1>2, <1>8, <1>10, <1>12, <1>13 DEF Made
<1> QED BY <1>4, <1>7, <1>11, <1>14

\* How many windows the bars before the open one fill.
LEMMA WindowsFilled ==
  ASSUME NEW e \in Nat, NEW r \in Nat, r < WindowSize, NEW n, n = WindowSize * e + r + 1
  PROVE  (n - 1) \div WindowSize = e
<1>1. WindowSize \in Nat /\ WindowSize > 0
  BY BarAssumption
<1>2. PICK x, q, m : x = WindowSize * e + r /\ q = x \div WindowSize /\ m = x % WindowSize
  OBVIOUS
<1>3. x \in Nat
  <2>1. \A k, l \in Nat : k * l \in Nat
    OBVIOUS
  <2> QED BY <1>1, <1>2, <2>1
<1>4. q \in Nat /\ m \in 0..(WindowSize - 1) /\ x = WindowSize * q + m
  <2>1. m \in 0..(WindowSize - 1)
    BY <1>1, <1>2, <1>3
  <2>2. x = WindowSize * (x \div WindowSize) + (x % WindowSize)
    BY <1>1, <1>3, SMTT(30)
  <2>3. x \div WindowSize \in Nat
    BY <1>1, <1>3, SMTT(30)
  <2> QED BY <1>2, <2>1, <2>2, <2>3
<1>5. \A k, l \in Nat : k + 1 <= l => WindowSize * k + WindowSize <= WindowSize * l
  <2>1. ASSUME NEW k \in Nat, NEW l \in Nat, k + 1 <= l PROVE WindowSize * k + WindowSize <= WindowSize * l
    <3>1. l \in Nat /\ k + 1 \in 1..l
      BY <2>1
    <3>2. WindowSize * (k + 1) <= WindowSize * l
      BY <3>1, Products
    <3>3. WindowSize * (k + 1) = WindowSize * k + WindowSize
      <4>1. \A a, b, c \in Int : a * (b + c) = a * b + a * c
        OBVIOUS
      <4>2. WindowSize * (k + 1) = WindowSize * k + WindowSize * 1
        BY <1>1, <4>1
      <4> QED BY <1>1, <4>2
    <3> QED BY <3>2, <3>3
  <2> QED BY <2>1
<1>6. PICK we, wq : we = WindowSize * e /\ wq = WindowSize * q
  OBVIOUS
<1>7. we \in Nat /\ wq \in Nat
  <2>1. \A k, l \in Nat : k * l \in Nat
    OBVIOUS
  <2> QED BY <1>1, <1>4, <1>6, <2>1
<1>8. we + r = wq + m /\ r < WindowSize /\ m < WindowSize /\ m \in Nat
  BY <1>1, <1>2, <1>4, <1>6
<1>9. ~(e + 1 <= q)
  BY <1>1, <1>4, <1>5, <1>6, <1>7, <1>8
<1>10. ~(q + 1 <= e)
  BY <1>1, <1>4, <1>5, <1>6, <1>7, <1>8
<1>11. q = e
  BY <1>4, <1>9, <1>10
<1>12. n - 1 = x
  BY <1>2, <1>3
<1> QED BY <1>2, <1>11, <1>12

\* A bar and a window are made of the ticks, in any state: the invariant. Months that
\* are not 30 days make Regular false, and it stays false until a reset.
BarInv ==
  /\ starts \in Starts /\ tickLog \in Seq(Ticks)
  /\ tickLog = <<>> => hasData = FALSE
  /\ tickLog # <<>> => hasData = TRUE
  /\ Regular => Made(starts, tickLog, emitted, barBuffer, currentBar)

\* Before the first tick there are no bars,
LEMMA NothingMade == ASSUME NEW ss, NEW bar PROVE Made(ss, <<>>, <<>>, <<>>, bar)
  BY BarAssumption DEF Made

\* as at the start
LEMMA BarsStart == BarInit => BarInv
  BY NothingMade DEF BarInit, BarInv

\* and after a reset.
LEMMA ResetKeeps == ASSUME BarInv, Reset PROVE BarInv'
<1>1. /\ starts' = starts /\ tickLog' = <<>> /\ hasData' = FALSE /\ emitted' = <<>> /\ barBuffer' = <<>>
      /\ starts \in Starts
  BY DEF BarInv, Reset
<1>2. Made(starts', tickLog', emitted', barBuffer', currentBar')
  BY <1>1, NothingMade
<1> QED BY <1>1, <1>2 DEF BarInv

\* The code starts a bar when a tick reaches one.
LEMMA NewBarWhen ==
  ASSUME starts \in Starts, tickLog \in Seq(Ticks), tickLog # <<>>, NEW tick \in Ticks, NEW next,
         next = Append(tickLog, tick), NEW last, last = Len(tickLog) + 1,
         currentBar.start = BarIn(starts, tickLog, Len(tickLog)),
         \A i \in DOMAIN tickLog : \A t \in TickTimes :
           BarStart(t) > BarStart(tickLog[i].time) <=> t >= BarStart(tickLog[i].time) + BarLength
  PROVE  ShouldGenerateNewBar(tick) <=> BarIn(starts, next, last) > BarIn(starts, tickLog, Len(tickLog))
<1>1. PICK log, ss : log = tickLog /\ ss = starts
  OBVIOUS
<1>2. log \in Seq(Ticks) /\ ss \in Starts /\ log # <<>> /\ next = Append(log, tick) /\ last = Len(log) + 1
      /\ Len(log) \in 1..Len(log)
  BY <1>1
<1>3. PICK j \in 1..Len(log) : TopTime(log, Len(log)) = log[j].time
  BY <1>2, TopTimeIs
<1>4. BarIn(ss, log, Len(log)) = StartOf(ss, log[j].time)
  BY <1>3 DEF BarIn
<1>5. \A t : BarStart(t) = StartOf(ss, t)
  BY <1>1 DEF BarStart, StartOf
<1>6. tick.time \in TickTimes
  BY DEF Ticks
<1>7. StartOf(ss, tick.time) > BarIn(ss, log, Len(log)) <=> tick.time >= BarIn(ss, log, Len(log)) + BarLength
  <2>1. j \in DOMAIN tickLog
    BY <1>1, <1>2, <1>3
  <2>2. BarStart(tick.time) > BarStart(tickLog[j].time) <=> tick.time >= BarStart(tickLog[j].time) + BarLength
    BY <1>6, <2>1
  <2> QED BY <1>1, <1>4, <1>5, <2>2
<1>8. Reaches(ss, next, log, last, tick)
  BY <1>2, BarReached
<1>9. BarIn(ss, next, last) > BarIn(ss, log, Len(log)) <=> StartOf(ss, tick.time) > BarIn(ss, log, Len(log))
  BY <1>2, <1>8 DEF Reaches
<1> QED BY <1>1, <1>7, <1>9 DEF ShouldGenerateNewBar

\* Every tick is made part of a bar.
LEMMA TickKeeps == ASSUME BarInv, NEW tick \in Ticks, OnTick(tick) PROVE BarInv'
<1>1. PICK ss, log, next, last : ss = starts /\ log = tickLog /\ next = Append(log, tick) /\ last = Len(log) + 1
  OBVIOUS
<1>2. ss \in Starts /\ log \in Seq(Ticks) /\ next \in Seq(Ticks) /\ next # <<>>
  BY <1>1 DEF BarInv
<1>3. starts' = ss /\ tickLog' = next /\ hasData' = TRUE
  BY <1>1 DEF OnTick
<1>4. SUFFICES ASSUME Regular' PROVE Made(ss, next, emitted', barBuffer', currentBar')
  BY <1>2, <1>3 DEF BarInv
<1>5. \A t : BarStart(t)' = BarStart(t)
  BY <1>1, <1>3 DEF BarStart
<1>6. \A i \in DOMAIN tickLog : i \in DOMAIN next /\ next[i] = tickLog[i]
  BY <1>1, <1>2
<1>7. \A i \in DOMAIN tickLog : \A t \in TickTimes :
        BarStart(t) > BarStart(tickLog[i].time) <=> t >= BarStart(tickLog[i].time) + BarLength
  <2>1. \A i \in DOMAIN next : \A t \in TickTimes :
          BarStart(t)' > BarStart(next[i].time)' <=> t >= BarStart(next[i].time)' + BarLength
    BY <1>3, <1>4 DEF Regular
  <2> QED BY <1>5, <1>6, <2>1
<1>8. Made(ss, log, emitted, barBuffer, currentBar)
  BY <1>1, <1>7 DEF BarInv, Regular
<1>9. \A t : BarStart(t) = StartOf(ss, t)
  BY <1>1 DEF BarStart, StartOf
<1>10. NewBar(tick) = BarOfTick(ss, tick)
  BY <1>9 DEF NewBar, BarOfTick
<1>11. CASE log = <<>>
  <2>1. hasData = FALSE /\ emitted = <<>> /\ barBuffer = <<>> /\ next = <<tick>>
    BY <1>1, <1>8, <1>11 DEF BarInv, Made
  <2>2. emitted' = <<>> /\ barBuffer' = <<>> /\ currentBar' = BarOfTick(ss, tick)
    BY <1>10, <2>1 DEF OnTick
  <2> QED BY <1>2, <2>1, <2>2, FirstTick
<1>12. CASE log # <<>>
  <2>1. hasData = TRUE
    BY <1>1, <1>12 DEF BarInv
  <2>2. currentBar.start = BarIn(ss, log, Len(log))
    BY <1>8, <1>12 DEF Made, OpenBar
  <2>3. ShouldGenerateNewBar(tick) <=> BarIn(ss, next, last) > BarIn(ss, log, Len(log))
    BY <1>1, <1>2, <1>7, <1>12, <2>2, NewBarWhen
  <2>4. CASE ~ShouldGenerateNewBar(tick)
    <3>1. emitted' = emitted /\ barBuffer' = barBuffer /\ currentBar' = UpdateCurrentBar(tick)
      BY <2>1, <2>4 DEF OnTick
    <3>2. Made(ss, next, emitted, barBuffer, UpdateCurrentBar(tick))
      BY <1>1, <1>2, <1>8, <1>12, <2>3, <2>4, SameBar
    <3> QED BY <3>1, <3>2
  <2>5. CASE ShouldGenerateNewBar(tick)
    <3>1. PICK both : both = Append(barBuffer, currentBar)
      OBVIOUS
    <3>2. currentBar' = BarOfTick(ss, tick) /\ OnBar(currentBar)
      BY <1>10, <2>1, <2>5 DEF OnTick
    <3>3. CASE Len(both) >= WindowSize
      <4>1. emitted' = Append(emitted, Synthesized(both)) /\ barBuffer' = <<>>
        BY <3>1, <3>2, <3>3 DEF OnBar
      <4>2. Made(ss, next, Append(emitted, Synthesized(both)), <<>>, BarOfTick(ss, tick))
        BY <1>1, <1>2, <1>8, <1>12, <2>3, <2>5, <3>1, <3>3, WindowCloses
      <4> QED BY <3>2, <4>1, <4>2
    <3>4. CASE ~(Len(both) >= WindowSize)
      <4>1. emitted' = emitted /\ barBuffer' = both
        BY <3>1, <3>2, <3>4 DEF OnBar
      <4>2. Made(ss, next, emitted, both, BarOfTick(ss, tick))
        BY <1>1, <1>2, <1>8, <1>12, <2>3, <2>5, <3>1, <3>4, WindowWaits
      <4> QED BY <3>2, <4>1, <4>2
    <3> QED BY <3>3, <3>4
  <2> QED BY <2>4, <2>5
<1> QED BY <1>11, <1>12

\* What the generators hold says what they have emitted.
LEMMA BarsMatch == BarInv => BarsMatchTicks
<1> SUFFICES ASSUME BarInv, Regular PROVE
      emitted = [w \in 1 .. (IF tickLog = <<>> THEN 0 ELSE (BarsUpTo(Len(tickLog)) - 1) \div WindowSize) |->
                   BarOfTicks(TicksOfBars(WindowSize * (w - 1) + 1, WindowSize * w))]
  BY DEF BarsMatchTicks
<1>1. PICK ss, log, out : ss = starts /\ log = tickLog /\ out = emitted
  OBVIOUS
<1>2. Made(ss, log, out, barBuffer, currentBar) /\ log \in Seq(Ticks)
  BY <1>1 DEF BarInv
<1>3. \A t : BarStart(t) = StartOf(ss, t)
  BY <1>1 DEF BarStart, StartOf
<1>4. \A i : BarOf(i) = BarIn(ss, log, i)
  BY <1>1, <1>3 DEF BarOf, BarIn, TopTime
<1>5. \A i : BarsUpTo(i) = BarsIn(ss, log, i)
  BY <1>4 DEF BarsUpTo, BarsIn
<1>6. \A from, to : TicksOfBars(from, to) = PartIn(ss, log, from, to)
  <2>1. DOMAIN tickLog = 1..Len(log)
    BY <1>1, <1>2
  <2> QED BY <1>5, <2>1 DEF TicksOfBars, PartIn
<1>7. \A is : BarOfTicks(is) = BarFrom(ss, log, is)
  BY <1>1, <1>4 DEF BarOfTicks, BarFrom
<1>8. out = [w \in 1..Len(out) |-> out[w]] /\ Len(out) \in Nat /\ Len(barBuffer) \in Nat /\ Len(barBuffer) < WindowSize
  BY <1>2 DEF Made
<1>9. CASE log = <<>>
  <2>1. out = <<>>
    BY <1>2, <1>9 DEF Made
  <2>2. 1..0 = {}
    OBVIOUS
  <2> QED BY <1>1, <1>9, <2>1, <2>2
<1>10. CASE log # <<>>
  <2>1. BarsIn(ss, log, Len(log)) = WindowSize * Len(out) + Len(barBuffer) + 1 /\ Windows(ss, out, log)
    BY <1>2, <1>10 DEF Made
  <2>2. (BarsIn(ss, log, Len(log)) - 1) \div WindowSize = Len(out)
    BY <1>8, <2>1, WindowsFilled
  <2>3. (BarsUpTo(Len(tickLog)) - 1) \div WindowSize = Len(out)
    BY <1>1, <1>5, <2>2
  <2>4. \A w \in 1..Len(out) :
          out[w] = BarOfTicks(TicksOfBars(WindowSize * (w - 1) + 1, WindowSize * w))
    <3>1. ASSUME NEW w \in 1..Len(out), NEW from, from = WindowSize * (w - 1) + 1, NEW to, to = WindowSize * w
          PROVE  out[w] = BarOfTicks(TicksOfBars(from, to))
      <4>1. out[w] = BarFrom(ss, log, PartIn(ss, log, from, to))
        BY <2>1, <3>1 DEF Windows
      <4> QED BY <1>6, <1>7, <4>1
    <3> QED BY <3>1
  <2>5. out = [w \in 1..Len(out) |-> BarOfTicks(TicksOfBars(WindowSize * (w - 1) + 1, WindowSize * w))]
    BY <1>8, <2>4
  <2> QED BY <1>1, <1>10, <2>3, <2>5
<1> QED BY <1>9, <1>10

\* Only the generators' own steps change their state.
LEMMA BarsAlone == [Next]_mcVars => [BarNext]_barVars
  BY DEF Next, mcVars, dataVars, Pool, Logger, BarsRun, RingRuns, Smoother, DatabaseRuns, RoutingRuns,
         UsdtRuns, OkxRuns, OmsRuns, OthersThanThreads, OthersThanData, OthersThanTrading

\* Through both generators no tick is lost, counted twice or put into the wrong bar,
\* however late it is and whatever bars the market leaves out: for any interval,
\* window, times and prices of ticks and any number of them.
THEOREM Bars == Spec => []BarsMatchTicks
<1>1. Init => BarInv
  BY BarsStart DEF Init
<1>2. BarInv /\ [Next]_mcVars => BarInv'
  <2> SUFFICES ASSUME BarInv, [BarNext]_barVars PROVE BarInv'
    BY BarsAlone
  <2>1. CASE Reset
    BY <2>1, ResetKeeps
  <2>2. ASSUME NEW time \in TickTimes, NEW price \in TickPrices, OnTick([time |-> time, price |-> price])
        PROVE  BarInv'
    <3>1. [time |-> time, price |-> price] \in Ticks
      BY DEF Ticks
    <3> QED BY <2>2, <3>1, TickKeeps
  <2>3. CASE UNCHANGED barVars
    BY <2>3 DEF barVars, BarInv, Regular, BarStart
  <2> QED BY <2>1, <2>2, <2>3 DEF BarNext
<1>3. BarInv => BarsMatchTicks
  BY BarsMatch
<1> QED BY <1>1, <1>2, <1>3, PTL DEF Spec

=============================================================================
