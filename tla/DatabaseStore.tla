---------------------------- MODULE DatabaseStore ----------------------------
(* SQLiteDatabase (database/sqlite_database.cpp): threads that share one       *)
(* connection.  mutex_ makes a statement atomic, not a transaction: whatever   *)
(* anybody does while a save_bars() or save_ticks() runs becomes part of its   *)
(* transaction.  SQLite is modelled by what the code asks of it: a statement   *)
(* outside a transaction is on disk at once, a failed one may roll the         *)
(* transaction back by itself, a crash leaves what was committed.              *)
(* A row is its table and time, its value the number of the call that wrote    *)
(* it; only the end of the time series a table holds matters here.             *)
EXTENDS Naturals, Sequences, SequencesExt

CONSTANTS
  Clients,      \* threads
  RowTimes,     \* times of the rows of a table
  MaxSaves,     \* bound: calls that write
  MaxCrashes    \* bound: crashes
ASSUME DatabaseAssumption == RowTimes \subseteq Nat /\ MaxSaves \in Nat /\ MaxCrashes \in Nat

VARIABLES
  rows, disk,   \* what the connection sees, what is committed: row -> value
  transaction,  \* the call whose transaction is open, 0 when none
  client,       \* per thread: where it is, its call, what it has still to save
  saves, crashes,
  acked, dirty, undone, refused
    \* history: rows whose save was acknowledged outside anybody else's transaction;
    \* rows written since the last commit; calls whose transaction somebody else
    \* ended; calls that returned that they saved nothing

databaseVars == <<rows, disk, transaction, client, saves, crashes, acked, dirty, undone, refused>>
boundVars == <<saves, crashes>>

NoRows == [r \in {} |-> 0]
Idle == [at |-> "idle", call |-> 0, left |-> <<>>]
Stored(table, r, value) == [x \in DOMAIN table \cup {r} |-> IF x = r THEN value ELSE table[x]]
Without(table, gone) == [x \in DOMAIN table \ gone |-> table[x]]

\* The constructor opens the file and makes the tables if there are none.
DatabaseInit ==
  /\ rows = NoRows /\ disk = NoRows /\ transaction = 0 /\ client = [c \in Clients |-> Idle]
  /\ saves = 0 /\ crashes = 0 /\ acked = NoRows /\ dirty = {} /\ undone = {} /\ refused = {}

\* One statement: what it does to the connection's view, and to the disk when no
\* transaction is open.
Executed(after, touched, acknowledged) ==
  /\ rows' = after
  /\ IF transaction = 0
     THEN /\ disk' = after /\ UNCHANGED dirty
          /\ acked' = [x \in (DOMAIN acked \ touched) \cup DOMAIN acknowledged |->
                         IF x \in DOMAIN acknowledged THEN acknowledged[x] ELSE acked[x]]
     ELSE dirty' = dirty \cup touched /\ UNCHANGED <<disk, acked>>

RolledBack == rows' = disk /\ transaction' = 0 /\ dirty' = {} /\ UNCHANGED <<disk, acked>>
\* A transaction ends that is not c's own.
EndedBy(c) == IF transaction \in {0, client[c].call} THEN undone ELSE undone \cup {transaction}

-----------------------------------------------------------------------------
(* Single rows.                                                                *)
SaveRow(c, r) ==
  /\ client[c] = Idle /\ saves < MaxSaves /\ saves' = saves + 1
  /\ Executed(Stored(rows, r, saves'), {r}, Stored(NoRows, r, saves'))
  /\ UNCHANGED <<transaction, client, crashes, undone, refused>>

SaveBar(c, time) == SaveRow(c, <<"bar", time>>)
SaveTick(c, time) == SaveRow(c, <<"tick", time>>)
SaveStrategyState(c) == SaveRow(c, <<"state", 0>>)

DeleteTable(c, table) ==
  /\ client[c] = Idle
  /\ LET gone == {r \in DOMAIN rows : r[1] = table} IN
       /\ gone # {}
       /\ Executed(Without(rows, gone), gone, NoRows)
  /\ UNCHANGED <<transaction, client, boundVars, undone, refused>>

DeleteBars(c) == DeleteTable(c, "bar")
DeleteStrategyState(c) == DeleteTable(c, "state")

\* A single save or delete that fails changes nothing, or takes the transaction it
\* has fallen into with it.
SingleFails(c) ==
  /\ client[c] = Idle /\ transaction # 0
  /\ RolledBack /\ undone' = undone \cup {transaction}
  /\ UNCHANGED <<client, boundVars, refused>>

-----------------------------------------------------------------------------
(* save_bars(), save_ticks() and a caller's own begin_transaction(), saves and  *)
(* commit(), with rollback() when that fails; BEGIN fails inside a transaction. *)
Begin(c, batch) ==
  /\ client[c] = Idle /\ saves < MaxSaves /\ saves' = saves + 1
  /\ IF transaction = 0
     THEN /\ transaction' = saves' /\ UNCHANGED refused
          /\ client' = [client EXCEPT ![c] = [at |-> "saving", call |-> saves', left |-> batch]]
     ELSE refused' = refused \cup {saves'} /\ UNCHANGED <<transaction, client>>
  /\ UNCHANGED <<rows, disk, crashes, acked, dirty, undone>>

SaveBars(c, times) == Begin(c, [i \in DOMAIN times |-> <<"bar", times[i]>>])
SaveTicks(c, times) == Begin(c, [i \in DOMAIN times |-> <<"tick", times[i]>>])
OwnTransaction(c, time) == Begin(c, <<<<"bar", time>>, <<"tick", time>>>>)

Goes(c, at) == client' = [client EXCEPT ![c].at = at]

SaveNext(c) ==
  /\ client[c].at = "saving" /\ client[c].left # <<>>
  /\ Executed(Stored(rows, Head(client[c].left), client[c].call), {Head(client[c].left)}, NoRows)
  /\ client' = [client EXCEPT ![c].left = Tail(@)]
  /\ UNCHANGED <<transaction, boundVars, undone, refused>>

\* A row that fails is left out, or takes the transaction with it.
SaveNextFails(c) ==
  /\ client[c].at = "saving" /\ client[c].left # <<>>
  /\ client' = [client EXCEPT ![c].left = Tail(@)]
  /\ \/ UNCHANGED <<rows, disk, transaction, acked, dirty, undone>>
     \/ transaction # 0 /\ RolledBack /\ undone' = undone \cup {transaction}
  /\ UNCHANGED <<boundVars, refused>>

Commit(c) ==
  /\ client[c].at = "saving" /\ client[c].left = <<>> /\ transaction # 0
  /\ disk' = rows /\ transaction' = 0 /\ dirty' = {} /\ UNCHANGED rows
  /\ acked' = [x \in (DOMAIN acked \ dirty) \cup {x \in DOMAIN rows : rows[x] = client[c].call} |-> rows[x]]
  /\ undone' = EndedBy(c) /\ client' = [client EXCEPT ![c] = Idle]
  /\ UNCHANGED <<boundVars, refused>>

\* COMMIT fails when no transaction is open any more, or leaves it open, or takes it back.
CommitFails(c) ==
  /\ client[c].at = "saving" /\ client[c].left = <<>> /\ Goes(c, "rollback")
  /\ \/ UNCHANGED <<rows, disk, transaction, acked, dirty, undone>>
     \/ transaction # 0 /\ RolledBack /\ undone' = EndedBy(c)
  /\ UNCHANGED <<boundVars, refused>>

\* Mutant: save_bars() returns without a ROLLBACK.
NoRollback(c) ==
  /\ client[c].at = "rollback" /\ client' = [client EXCEPT ![c] = Idle]
  /\ refused' = refused \cup {client[c].call}
  /\ UNCHANGED <<rows, disk, transaction, acked, dirty, undone, boundVars>>

Rollback(c) ==
  /\ client[c].at = "rollback" /\ client' = [client EXCEPT ![c] = Idle]
  /\ IF transaction # 0 THEN RolledBack ELSE UNCHANGED <<rows, disk, transaction, acked, dirty>>
  /\ undone' = EndedBy(c) /\ refused' = refused \cup {client[c].call}
  /\ UNCHANGED boundVars

-----------------------------------------------------------------------------
\* The process dies and opens the file again.
Crash ==
  /\ crashes < MaxCrashes /\ crashes' = crashes + 1
  /\ RolledBack /\ client' = [c \in Clients |-> Idle]
  /\ refused' = refused \cup {client[c].call : c \in {c \in Clients : client[c].at = "saving"}}
  /\ UNCHANGED <<saves, undone>>

Batches == {<<t>> : t \in RowTimes} \cup {p \in RowTimes \X RowTimes : p[1] < p[2]}
DatabaseNext ==
  \/ \E c \in Clients :
       \/ \E time \in RowTimes : SaveBar(c, time) \/ SaveTick(c, time)
       \/ SaveStrategyState(c) \/ DeleteBars(c) \/ DeleteStrategyState(c)
       \/ SingleFails(c)
       \/ \E times \in Batches : SaveBars(c, times) \/ SaveTicks(c, times)
       \/ \E time \in RowTimes : OwnTransaction(c, time)
       \/ SaveNext(c) \/ SaveNextFails(c) \/ Commit(c) \/ CommitFails(c) \/ Rollback(c)
  \/ Crash
-----------------------------------------------------------------------------
(* The queries, which see what is not committed too.                           *)
TimesOf(table) == {r[2] : r \in {r \in DOMAIN rows : r[1] = table}}
Ascending(times) ==
  CHOOSE order \in SetToSeqs(times) : \A i, j \in DOMAIN order : i < j => order[i] < order[j]
Descending(times) ==
  CHOOSE order \in SetToSeqs(times) : \A i, j \in DOMAIN order : i < j => order[i] > order[j]
LoadByTime(table, from, to) == Ascending({t \in TimesOf(table) : from <= t /\ t <= to})
\* ORDER BY datetime DESC LIMIT, then reversed.
LoadLatest(table, limit) ==
  LET descending == Descending(TimesOf(table))
  IN Reverse(SubSeq(descending, 1, IF limit < Len(descending) THEN limit ELSE Len(descending)))
Overview(table) ==
  LET times == Ascending(TimesOf(table)) IN [count |-> Len(times), start |-> Head(times), end |-> Last(times)]

LoadBarsByTime(from, to) == LoadByTime("bar", from, to)
LoadTicksByTime(from, to) == LoadByTime("tick", from, to)
LoadBars(limit) == LoadLatest("bar", limit)
LoadTicks(limit) == LoadLatest("tick", limit)
BarOverview == Overview("bar")
TickOverview == Overview("tick")

\* A row whose save was acknowledged outside anybody else's transaction is on disk
\* until it is overwritten or deleted, whatever fails and whenever the process
\* dies; no crash or failure leaves half of a batch on disk, or any of one that
\* returned 0, but for the batches whose transaction another thread or SQLite
\* itself ended before they did; with no transaction open everything is on disk.
WritesLast ==
  /\ \A r \in DOMAIN acked : r \in DOMAIN disk /\ disk[r] = acked[r]
  /\ \A r \in DOMAIN disk :
       /\ disk[r] \in refused => disk[r] \in undone
       /\ \A c \in Clients : disk[r] = client[c].call => disk[r] \in undone
  /\ (\A c \in Clients : client[c] = Idle) => transaction = 0
  /\ transaction = 0 => rows = disk

\* The three queries of a table agree on what is there.
QueriesAgree ==
  /\ TimesOf("bar") # {} => LET all == BarOverview IN
       /\ LoadBarsByTime(all.start, all.end) = LoadBars(all.count)
       /\ LoadBars(1) = LoadBarsByTime(all.end, all.end)
  /\ TimesOf("tick") # {} => LET all == TickOverview IN
       /\ LoadTicksByTime(all.start, all.end) = LoadTicks(all.count)
       /\ LoadTicks(1) = LoadTicksByTime(all.end, all.end)

\* What is acknowledged lasts, and every query sees it.
StoreSurvives == WritesLast /\ QueriesAgree
=============================================================================
