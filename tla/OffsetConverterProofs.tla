------------------------ MODULE OffsetConverterProofs ------------------------
(* The offset converter on the simulated trading desk: no order closes what the  *)
(* account does not have, for any position, requests and number of orders.       *)
EXTENDS MCSimulatedTrading, Sums

(* The holding lags behind the account by the events on their way.  The places of  *)
(* `events` are the moments before and after each arrives: `left` says what every   *)
(* order had still to be filled there, but for what was cancelled since, and `acc`  *)
(* what the account was there.  At the first place the account is what the holding  *)
(* says, at the last one it is the exchange's; and a trade takes as much off what   *)
(* the account has as off what is due of it, so what covers the orders at the first *)
(* place covers them at every later one.                                            *)
SplitOffsets(split) == IF split THEN {"CLOSETODAY", "CLOSEYESTERDAY"} ELSE {"CLOSE"}
OffsetOrders(split) ==
  {o \in [direction : Sides, offset : SplitOffsets(split) \cup {"OPEN"}, volume : Nat, traded : Nat,
          live : BOOLEAN] : o.traded <= o.volume}
Happenings(split) ==
  [kind : {"position"}, side : {"LONG"}, td : Nat, yd : Nat]
  \cup [kind : {"trade"}, id : Nat, order : OffsetOrders(split), volume : {1}]
  \cup [kind : {"order"}, id : Nat, order : OffsetOrders(split), active : BOOLEAN]
SideBooks == [td : Int, yd : Int]
SideHoldings == [td : Int, yd : Int, tdFrozen : Int, ydFrozen : Int]

Asks(o, s, off) == Closes(o.direction) = s /\ o.offset = off
Share(orders, l, s, off) == [i \in 1..Len(orders) |-> IF Asks(orders[i], s, off) THEN l[i] ELSE 0]
\* What orders with so much left ask of a side with an offset.
Due(orders, l, s, off) == SumOver(Share(orders, l, s, off), 1..Len(orders))

Room(b, off) == IF off = "CLOSETODAY" THEN b.td ELSE IF off = "CLOSEYESTERDAY" THEN b.yd ELSE b.td + b.yd
FrozenFor(h, off) ==
  IF off = "CLOSETODAY" THEN h.tdFrozen
  ELSE IF off = "CLOSEYESTERDAY" THEN h.ydFrozen ELSE h.tdFrozen + h.ydFrozen

---------------------------------------------------------------------------
LEMMA SumOfNaturals ==
  ASSUME NEW S, IsFiniteSet(S), NEW w \in [S -> Int], \A x \in S : w[x] >= 0
  PROVE  SumOver(w, S) \in Nat
<1>1. SumOver(w, {} \cup S) >= SumOver(w, {}) /\ SumOver(w, {}) = 0
  <2>1. {} \in SUBSET S /\ S \in SUBSET S /\ {} \cap S = {}
    OBVIOUS
  <2> QED BY <2>1, SumSplit, SumRules
<1>2. {} \cup S = S /\ SumOver(w, S) \in Int
  BY SumRules
<1> QED BY <1>1, <1>2

AgreeBut(v, w, S, x) == \A y \in S : y # x => v[y] = w[y]

LEMMA SumOneChanged ==
  ASSUME NEW S, IsFiniteSet(S), NEW v \in [S -> Int], NEW w \in [S -> Int],
         NEW x \in S, AgreeBut(v, w, S, x)
  PROVE  SumOver(v, S) = SumOver(w, S) + (v[x] - w[x])
<1>1. SumOver(v, S) = v[x] + SumOver(v, S \ {x}) /\ SumOver(v, S \ {x}) \in Int /\ v[x] \in Int
  BY SumRules
<1>2. SumOver(w, S) = w[x] + SumOver(w, S \ {x}) /\ SumOver(w, S \ {x}) \in Int /\ w[x] \in Int
  BY SumRules
<1>3. SumOver(v, S \ {x}) = SumOver(w, S \ {x})
  <2>1. S \ {x} \in SUBSET S /\ \A y \in S \ {x} : v[y] = w[y]
    BY DEF AgreeBut
  <2> QED BY <2>1, SumCompare
<1> QED BY <1>1, <1>2, <1>3

Lefts(orders) == [1..Len(orders) -> Nat]

ShareIs(v, S, orders, l, s, off) ==
  /\ IsFiniteSet(S) /\ v \in [S -> Int]
  /\ \A i \in S : v[i] = IF Asks(orders[i], s, off) THEN l[i] ELSE 0

LEMMA ShareTyped ==
  ASSUME NEW split \in BOOLEAN, NEW orders \in Seq(OffsetOrders(split)), NEW l \in Lefts(orders),
         NEW s, NEW off
  PROVE  /\ Due(orders, l, s, off) \in Nat
         /\ ShareIs(Share(orders, l, s, off), 1..Len(orders), orders, l, s, off)
<1>1. Len(orders) \in Nat
  OBVIOUS
<1>2. IsFiniteSet(1..Len(orders))
  <2>1. 1 \in Int /\ Len(orders) \in Int
    BY <1>1
  <2> QED BY <2>1, FS_Interval
<1>3. \A i \in 1..Len(orders) : l[i] \in Nat
  BY DEF Lefts
<1>4. PICK w : w = Share(orders, l, s, off)
  OBVIOUS
<1>5. w \in [1..Len(orders) -> Int]
  BY <1>3, <1>4 DEF Share
<1>6. \A i \in 1..Len(orders) : w[i] = (IF Asks(orders[i], s, off) THEN l[i] ELSE 0) /\ w[i] >= 0
  BY <1>3, <1>4 DEF Share
<1>7. SumOver(w, 1..Len(orders)) \in Nat
  BY <1>2, <1>5, <1>6, SumOfNaturals
<1> QED BY <1>1, <1>2, <1>4, <1>5, <1>6, <1>7 DEF Due, ShareIs

SamePlans(orders, others) ==
  /\ Len(orders) = Len(others)
  /\ \A i \in 1..Len(orders) : orders[i].direction = others[i].direction /\ orders[i].offset = others[i].offset

\* Less is due where every order has less left,
LEMMA DueFalls ==
  ASSUME NEW split \in BOOLEAN, NEW orders \in Seq(OffsetOrders(split)), NEW others \in Seq(OffsetOrders(split)),
         SamePlans(orders, others), NEW l \in Lefts(orders), NEW m \in Lefts(others),
         \A i \in 1..Len(orders) : l[i] <= m[i], NEW s, NEW off
  PROVE  Due(orders, l, s, off) <= Due(others, m, s, off)
<1>1. PICK S, v, w : S = 1..Len(orders) /\ v = Share(orders, l, s, off) /\ w = Share(others, m, s, off)
  OBVIOUS
<1>2. S = 1..Len(others)
  BY <1>1 DEF SamePlans
<1>3. IsFiniteSet(S) /\ v \in [S -> Int] /\ \A i \in S : v[i] = IF Asks(orders[i], s, off) THEN l[i] ELSE 0
  <2>1. ShareIs(v, S, orders, l, s, off)
    BY <1>1, ShareTyped
  <2> QED BY <2>1 DEF ShareIs
<1>4. w \in [S -> Int] /\ \A i \in S : w[i] = IF Asks(others[i], s, off) THEN m[i] ELSE 0
  <2>1. ShareIs(w, S, others, m, s, off)
    BY <1>1, <1>2, ShareTyped
  <2> QED BY <2>1 DEF ShareIs
<1>5. \A i \in S : Asks(orders[i], s, off) <=> Asks(others[i], s, off)
  BY <1>1 DEF SamePlans, Asks
<1>6. \A i \in S : v[i] <= w[i]
  BY <1>1, <1>3, <1>4, <1>5
<1>7. SumOver(v, S) <= SumOver(w, S)
  BY <1>3, <1>4, <1>6, SumCompare
<1> QED BY <1>1, <1>2, <1>7 DEF Due

\* the same where every order has the same left,
LEMMA DueSame ==
  ASSUME NEW split \in BOOLEAN, NEW orders \in Seq(OffsetOrders(split)), NEW others \in Seq(OffsetOrders(split)),
         SamePlans(orders, others), NEW l \in Lefts(orders), NEW s, NEW off
  PROVE  Due(orders, l, s, off) = Due(others, l, s, off)
<1>1. SamePlans(others, orders) /\ l \in Lefts(others)
  BY DEF SamePlans, Lefts
<1>2. \A i \in 1..Len(orders) : l[i] <= l[i]
  BY DEF Lefts
<1>3. \A i \in 1..Len(others) : l[i] <= l[i]
  BY <1>2 DEF SamePlans
<1>4. Due(orders, l, s, off) <= Due(others, l, s, off)
  BY <1>1, <1>2, DueFalls
<1>5. Due(others, l, s, off) <= Due(orders, l, s, off)
  BY <1>1, <1>3, DueFalls
<1>6. Due(orders, l, s, off) \in Nat /\ Due(others, l, s, off) \in Nat
  BY <1>1, ShareTyped
<1> QED BY <1>4, <1>5, <1>6

OneMore(orders, m, l, id) ==
  m[id] = l[id] + 1 /\ \A i \in 1..Len(orders) : i # id => m[i] = l[i]

\* one more where one order has one more left,
LEMMA DueOne ==
  ASSUME NEW split \in BOOLEAN, NEW orders \in Seq(OffsetOrders(split)),
         NEW l \in Lefts(orders), NEW m \in Lefts(orders), NEW id \in 1..Len(orders),
         OneMore(orders, m, l, id), NEW s, NEW off
  PROVE  Due(orders, m, s, off) = Due(orders, l, s, off) + (IF Asks(orders[id], s, off) THEN 1 ELSE 0)
<1>1. PICK S, v, w : S = 1..Len(orders) /\ v = Share(orders, m, s, off) /\ w = Share(orders, l, s, off)
  OBVIOUS
<1>2. IsFiniteSet(S) /\ v \in [S -> Int] /\ \A i \in S : v[i] = IF Asks(orders[i], s, off) THEN m[i] ELSE 0
  <2>1. ShareIs(v, S, orders, m, s, off)
    BY <1>1, ShareTyped
  <2> QED BY <2>1 DEF ShareIs
<1>3. w \in [S -> Int] /\ \A i \in S : w[i] = IF Asks(orders[i], s, off) THEN l[i] ELSE 0
  <2>1. ShareIs(w, S, orders, l, s, off)
    BY <1>1, ShareTyped
  <2> QED BY <2>1 DEF ShareIs
<1>4. AgreeBut(v, w, S, id)
  BY <1>1, <1>2, <1>3 DEF OneMore, AgreeBut
<1>5. v[id] - w[id] = IF Asks(orders[id], s, off) THEN 1 ELSE 0
  BY <1>1, <1>2, <1>3, SMTT(60) DEF OneMore, Lefts
<1>6. SumOver(v, S) = SumOver(w, S) + (v[id] - w[id])
  <2>1. id \in S /\ IsFiniteSet(S)
    BY <1>1, <1>2
  <2>2. v \in [S -> Int]
    BY <1>2
  <2>3. w \in [S -> Int]
    BY <1>3
  <2> QED BY <1>4, <2>1, <2>2, <2>3, SumOneChanged
<1> QED BY <1>1, <1>5, <1>6 DEF Due

\* and a new order adds what it has left.
LEMMA DueGrows ==
  ASSUME NEW split \in BOOLEAN, NEW orders \in Seq(OffsetOrders(split)), NEW o \in OffsetOrders(split),
         NEW l \in Lefts(orders), NEW m \in Lefts(Append(orders, o)),
         \A i \in 1..Len(orders) : m[i] = l[i], NEW s, NEW off
  PROVE  Due(Append(orders, o), m, s, off)
           = Due(orders, l, s, off) + (IF Asks(o, s, off) THEN m[Len(orders) + 1] ELSE 0)
<1>1. PICK n, more, S, T, v, w :
        /\ n = Len(orders) /\ more = Append(orders, o) /\ S = 1..n /\ T = 1..n+1
        /\ v = Share(more, m, s, off) /\ w = Share(orders, l, s, off)
  OBVIOUS
<1>2. /\ n \in Nat /\ more \in Seq(OffsetOrders(split)) /\ Len(more) = n + 1
      /\ more[n + 1] = o /\ \A i \in S : more[i] = orders[i]
  BY <1>1
<1>3. IsFiniteSet(T) /\ v \in [T -> Int] /\ \A i \in T : v[i] = IF Asks(more[i], s, off) THEN m[i] ELSE 0
  <2>1. m \in Lefts(more)
    BY <1>1
  <2>2. T = 1..Len(more)
    BY <1>1, <1>2
  <2>3. more \in Seq(OffsetOrders(split))
    BY <1>2
  <2>4. ShareIs(v, T, more, m, s, off)
    BY <1>1, <2>1, <2>2, <2>3, ShareTyped
  <2> QED BY <2>4 DEF ShareIs
<1>4. IsFiniteSet(S) /\ w \in [S -> Int] /\ \A i \in S : w[i] = IF Asks(orders[i], s, off) THEN l[i] ELSE 0
  <2>1. ShareIs(w, S, orders, l, s, off)
    BY <1>1, ShareTyped
  <2> QED BY <2>1 DEF ShareIs
<1>5. T \ {n + 1} = S /\ n + 1 \in T /\ S \in SUBSET T
  BY <1>1, <1>2
<1>6. SumOver(v, T) = v[n + 1] + SumOver(v, S) /\ SumOver(v, S) \in Int
  <2>1. T \in SUBSET T
    OBVIOUS
  <2> QED BY <1>3, <1>5, <2>1, SumRules
<1>7. \A i \in S : v[i] = w[i]
  BY <1>1, <1>2, <1>3, <1>4, <1>5
<1>8. SumOver(v, S) = SumOver(w, S)
  BY <1>3, <1>4, <1>5, <1>7, SumCompare
<1>9. v[n + 1] = IF Asks(o, s, off) THEN m[n + 1] ELSE 0
  BY <1>2, <1>3, <1>5
<1>10. v[n + 1] \in Int
  BY <1>3, <1>5
<1> QED BY <1>1, <1>2, <1>6, <1>8, <1>9, <1>10 DEF Due

---------------------------------------------------------------------------
(* What a book of orders closes is a sum over its ids. *)
Counts(w, S, book, s, off) ==
  \A i \in S : w[i] = IF i \in DOMAIN book /\ Asks(book[i], s, off) THEN Remaining(book[i]) ELSE 0

LEMMA ClosingIs ==
  ASSUME NEW book, NEW S, IsFiniteSet(S), DOMAIN book \subseteq S, NEW w \in [S -> Int],
         NEW s, NEW off, Counts(w, S, book, s, off)
  PROVE  Closing(book, s, off) = SumOver(w, S)
<1>1. PICK D, u, pick :
        /\ D = {i \in DOMAIN book : Closes(book[i].direction) = s /\ book[i].offset = off}
        /\ u = [i \in D |-> w[i]] /\ pick = [t \in (SUBSET D) \ {{}} |-> CHOOSE x \in t : TRUE]
  OBVIOUS
<1> DEFINE Folds(iter) == iter = [t \in SUBSET D |-> IF t = {} THEN 0
                                    ELSE Remaining(book[CHOOSE x \in t : TRUE]) + iter[t \ {CHOOSE x \in t : TRUE}]]
<1>2. D \in SUBSET S /\ IsFiniteSet(D) /\ (S \ D) \in SUBSET S /\ D \cap (S \ D) = {} /\ D \cup (S \ D) = S
  <2>1. D \in SUBSET S
    BY <1>1
  <2> QED BY <2>1, FS_Subset
<1>3. u \in [D -> Int] /\ \A i \in D : u[i] = w[i] /\ u[i] = Remaining(book[i])
  BY <1>1, <1>2 DEF Counts, Asks
<1>4. \A i \in S \ D : w[i] = 0
  BY <1>1 DEF Counts, Asks
<1>5. Picks(pick, D)
  BY <1>1 DEF Picks
<1>6. Closing(book, s, off) = (CHOOSE iter : Folds(iter))[D]
  BY <1>1 DEF Closing, MapThenSumSet, MapThenFoldSet
<1>7. \A t \in SUBSET D : t # {} => pick[t] = (CHOOSE x \in t : TRUE) /\ pick[t] \in D
  BY <1>1, <1>5 DEF Picks
<1>8. PICK fold : AddsBy(fold, D, u, pick)
  BY <1>2, <1>3, <1>5, AddingFold
<1>9. Folds(fold)
  <2>1. ASSUME NEW t \in SUBSET D, t # {}
        PROVE  fold[t] = Remaining(book[CHOOSE x \in t : TRUE]) + fold[t \ {CHOOSE x \in t : TRUE}]
    <3>1. PICK x : x = (CHOOSE y \in t : TRUE)
      OBVIOUS
    <3>2. pick[t] = x /\ x \in D
      BY <1>7, <2>1, <3>1
    <3>3. fold[t] = u[x] + fold[t \ {x}]
      BY <1>8, <2>1, <3>2 DEF AddsBy
    <3> QED BY <1>3, <3>1, <3>2, <3>3
  <2> QED BY <1>8, <2>1 DEF AddsBy
<1>10. PICK iter : iter = (CHOOSE f : Folds(f)) /\ Folds(iter)
  <2> HIDE DEF Folds
  <2> QED BY <1>9
<1>11. iter[D] = SumOver(u, D)
  <2>1. iter[{}] = 0
    BY <1>10
  <2>2. ASSUME NEW t \in SUBSET D, t # {}, iter[t \ {pick[t]}] \in Int
        PROVE  iter[t] = u[pick[t]] + iter[t \ {pick[t]}]
    <3>1. PICK x : x = (CHOOSE y \in t : TRUE)
      OBVIOUS
    <3>2. pick[t] = x /\ x \in D
      BY <1>7, <2>2, <3>1
    <3>3. iter[t] = Remaining(book[x]) + iter[t \ {x}]
      BY <1>10, <2>2, <3>1
    <3> QED BY <1>3, <3>2, <3>3
  <2>3. AddsUp(iter, D, u, pick)
    BY <2>1, <2>2 DEF AddsUp
  <2> QED BY <1>2, <1>3, <1>5, <2>3, FoldIsSum
<1>12. SumOver(u, D) = SumOver(w, D)
  <2>1. \A x \in D : u[x] = w[x]
    BY <1>3
  <2>2. D \in SUBSET D /\ D \in SUBSET S /\ u \in [D -> Int]
    BY <1>2, <1>3
  <2> QED BY <1>2, <2>1, <2>2, SumCompare
<1>13. SumOver(w, S) = SumOver(w, D)
  <2>1. PICK R : R = S \ D
    OBVIOUS
  <2>2. D \in SUBSET S /\ R \in SUBSET S /\ D \cap R = {} /\ D \cup R = S /\ \A x \in R : w[x] = 0
    BY <1>2, <1>4, <2>1
  <2>3. SumOver(w, D \cup R) = SumOver(w, D)
    BY <2>2, SumSplit
  <2> QED BY <2>2, <2>3
<1> QED BY <1>6, <1>10, <1>11, <1>12, <1>13

LEMMA LeftOfOrder ==
  ASSUME NEW split \in BOOLEAN, NEW o \in OffsetOrders(split)
  PROVE  Remaining(o) \in Nat /\ Remaining(o) <= o.volume /\ o.volume \in Nat /\ o.traded \in Nat
         /\ o.direction \in Sides /\ o.live \in BOOLEAN
         /\ Closes(o.direction) \in Sides /\ o.offset \in SplitOffsets(split) \cup {"OPEN"}
  BY DEF OffsetOrders, Remaining, Sides, Closes

\* What the exchange's orders close is what is due of them.
LEMMA ClosingIsDue ==
  ASSUME NEW split \in BOOLEAN, NEW orders \in Seq(OffsetOrders(split)), NEW l \in Lefts(orders),
         \A i \in 1..Len(orders) : l[i] = Remaining(orders[i]), NEW s, NEW off
  PROVE  Closing(orders, s, off) = Due(orders, l, s, off)
<1>1. PICK S, w : S = 1..Len(orders) /\ w = Share(orders, l, s, off)
  OBVIOUS
<1>2. ShareIs(w, S, orders, l, s, off)
  BY <1>1, ShareTyped
<1>3. DOMAIN orders = S
  BY <1>1
<1>4. Counts(w, S, orders, s, off)
  BY <1>1, <1>2, <1>3 DEF ShareIs, Counts
<1>5. Closing(orders, s, off) = SumOver(w, S)
  BY <1>2, <1>3, <1>4, ClosingIs DEF ShareIs
<1> QED BY <1>1, <1>5 DEF Due

\* The orders of the holding: of each at least what is left of it.
BookOf(split, book, orders) ==
  /\ DOMAIN book \subseteq 1..Len(orders)
  /\ \A i \in DOMAIN book :
       /\ book[i] \in OffsetOrders(split)
       /\ book[i].direction = orders[i].direction /\ book[i].offset = orders[i].offset
Outlasts(book, l) == \A i \in DOMAIN book : Remaining(book[i]) >= l[i]

LEMMA BookCovers ==
  ASSUME NEW split \in BOOLEAN, NEW orders \in Seq(OffsetOrders(split)), NEW l \in Lefts(orders),
         NEW book, BookOf(split, book, orders), NEW s, NEW off
  PROVE  /\ Closing(book, s, off) \in Nat
         /\ Outlasts(book, l) /\ (\A i \in 1..Len(orders) : i \in DOMAIN book \/ l[i] = 0)
              => Closing(book, s, off) >= Due(orders, l, s, off)
         /\ off \notin SplitOffsets(split) \cup {"OPEN"} => Closing(book, s, off) = 0
<1>1. PICK S, v, w :
        /\ S = 1..Len(orders) /\ v = Share(orders, l, s, off)
        /\ w = [i \in S |-> IF i \in DOMAIN book /\ Asks(book[i], s, off) THEN Remaining(book[i]) ELSE 0]
  OBVIOUS
<1>2. ShareIs(v, S, orders, l, s, off)
  BY <1>1, ShareTyped
<1>3. \A i \in DOMAIN book : Remaining(book[i]) \in Nat
  BY LeftOfOrder DEF BookOf
<1>4. w \in [S -> Int] /\ (\A i \in S : w[i] >= 0) /\ Counts(w, S, book, s, off)
  BY <1>1, <1>3 DEF Counts
<1>5. IsFiniteSet(S) /\ DOMAIN book \subseteq S
  BY <1>1, <1>2 DEF ShareIs, BookOf
<1>6. Closing(book, s, off) = SumOver(w, S)
  BY <1>4, <1>5, ClosingIs
<1>7. SumOver(w, S) \in Nat
  BY <1>4, <1>5, SumOfNaturals
<1>8. ASSUME Outlasts(book, l), \A i \in 1..Len(orders) : i \in DOMAIN book \/ l[i] = 0
      PROVE  Closing(book, s, off) >= Due(orders, l, s, off)
  <2>1. \A i \in S : i \in DOMAIN book => (Asks(book[i], s, off) <=> Asks(orders[i], s, off))
    BY DEF BookOf, Asks
  <2>2. \A i \in S : v[i] <= w[i]
    BY <1>1, <1>2, <1>3, <1>8, <2>1 DEF ShareIs, Outlasts, Lefts
  <2>3. v \in [S -> Int] /\ S \in SUBSET S
    BY <1>2 DEF ShareIs
  <2>4. SumOver(v, S) <= SumOver(w, S)
    BY <1>4, <1>5, <2>2, <2>3, SumCompare
  <2>5. Due(orders, l, s, off) = SumOver(v, S) /\ Due(orders, l, s, off) \in Nat
    BY <1>1, ShareTyped DEF Due
  <2> QED BY <1>6, <1>7, <2>4, <2>5
<1>9. ASSUME off \notin SplitOffsets(split) \cup {"OPEN"} PROVE Closing(book, s, off) = 0
  <2>1. \A i \in S : w[i] = 0
    BY <1>1, <1>9, LeftOfOrder DEF BookOf, Asks
  <2>2. {} \in SUBSET S /\ S \in SUBSET S /\ {} \cap S = {} /\ {} \cup S = S
    OBVIOUS
  <2>3. IsFiniteSet(S) /\ w \in [S -> Int]
    BY <1>4, <1>5
  <2>4. SumOver(w, {} \cup S) = SumOver(w, {})
    BY <2>1, <2>2, <2>3, SumSplit
  <2>5. SumOver(w, {}) = 0
    BY <2>3, SumRules
  <2> QED BY <1>6, <2>2, <2>4, <2>5
<1> QED BY <1>6, <1>7, <1>8, <1>9

---------------------------------------------------------------------------
(* What an event changes when it arrives. *)
NoBooks == [s \in Sides |-> [td |-> 0, yd |-> 0]]
FirstBooks == [s \in Sides |-> IF s = "LONG" THEN [td |-> HeldTd, yd |-> HeldYd] ELSE [td |-> 0, yd |-> 0]]
BooksOf(hs) == [s \in Sides |-> [td |-> hs[s].td, yd |-> hs[s].yd]]

\* What a unit closed with an offset leaves of a side, and a unit traded of both.
UnitClosed(b, off) ==
  IF off = "CLOSEYESTERDAY" THEN [td |-> b.td, yd |-> b.yd - 1]
  ELSE IF off = "CLOSETODAY" \/ b.td >= 1 THEN [td |-> b.td - 1, yd |-> b.yd]
  ELSE [td |-> 0, yd |-> b.yd - (1 - b.td)]
UnitTraded(a, o) ==
  [s \in Sides |->
     IF o.offset = "OPEN"
     THEN IF s = o.direction THEN [td |-> a[s].td + 1, yd |-> a[s].yd] ELSE a[s]
     ELSE IF s = Closes(o.direction) THEN UnitClosed(a[s], o.offset) ELSE a[s]]

SamePlan(o, p) == o.direction = p.direction /\ o.offset = p.offset
\* An event arrives: what orders had left before and after it, and the account.
PositionArrives(e, m, l, a, b) ==
  /\ e.kind = "position" /\ e.side = "LONG" /\ e.td = HeldTd /\ e.yd = HeldYd
  /\ m = l /\ a = NoBooks /\ b = FirstBooks
TradeArrives(orders, e, m, l, a, b) ==
  /\ e.kind = "trade" /\ e.volume = 1 /\ e.id \in 1..Len(orders) /\ SamePlan(e.order, orders[e.id])
  /\ OneMore(orders, m, l, e.id) /\ b = UnitTraded(a, e.order)
OrderArrives(orders, e, m, l, a, b) ==
  /\ e.kind = "order" /\ e.id \in 1..Len(orders) /\ SamePlan(e.order, orders[e.id])
  /\ m = l /\ a = b
  /\ IF e.active THEN Remaining(e.order) >= l[e.id] ELSE l[e.id] = 0
Arrives(orders, e, m, l, a, b) ==
  PositionArrives(e, m, l, a, b) \/ TradeArrives(orders, e, m, l, a, b) \/ OrderArrives(orders, e, m, l, a, b)

Covered(split, orders, l, a) ==
  \A s \in Sides :
    /\ 0 <= a[s].td /\ 0 <= a[s].yd
    /\ \A off \in SplitOffsets(split) : Due(orders, l, s, off) <= Room(a[s], off)
Spare(orders, l, a, s, off) == Room(a[s], off) - Due(orders, l, s, off)
KeepsSpare(split, orders, m, l, a, b) ==
  \A s \in Sides, off \in SplitOffsets(split) : Spare(orders, l, b, s, off) >= Spare(orders, m, a, s, off)

\* A side of the books.
LEMMA BooksTyped ==
  ASSUME NEW a \in [Sides -> SideBooks], NEW s \in Sides
  PROVE  a[s].td \in Int /\ a[s].yd \in Int /\ a[s] = [td |-> a[s].td, yd |-> a[s].yd]
<1>1. a[s] \in SideBooks
  OBVIOUS
<1> QED BY <1>1 DEF SideBooks

LEMMA UnitTradedTyped ==
  ASSUME NEW a \in [Sides -> SideBooks], NEW split \in BOOLEAN, NEW o \in OffsetOrders(split)
  PROVE  /\ UnitTraded(a, o) \in [Sides -> SideBooks]
         /\ \A s \in Sides :
              UnitTraded(a, o)[s] =
                IF o.offset = "OPEN"
                THEN IF s = o.direction THEN [td |-> a[s].td + 1, yd |-> a[s].yd] ELSE a[s]
                ELSE IF s = Closes(o.direction) THEN UnitClosed(a[s], o.offset) ELSE a[s]
<1>1. ASSUME NEW s \in Sides
      PROVE  /\ [td |-> a[s].td + 1, yd |-> a[s].yd] \in SideBooks /\ a[s] \in SideBooks
             /\ UnitClosed(a[s], o.offset) \in SideBooks
  <2>1. a[s].td \in Int /\ a[s].yd \in Int
    BY <1>1, BooksTyped
  <2> QED BY <2>1 DEF UnitClosed, SideBooks
<1>2. ASSUME NEW s \in Sides PROVE UnitTraded(a, o)[s] \in SideBooks
  BY <1>1 DEF UnitTraded
<1>3. UnitTraded(a, o) = [s \in Sides |-> UnitTraded(a, o)[s]]
  BY DEF UnitTraded
<1>4. UnitTraded(a, o) \in [Sides -> SideBooks]
  BY <1>2, <1>3
<1> QED BY <1>4 DEF UnitTraded

\* A trade takes as much off what the account has as off what is due of it.
LEMMA TradeCovers ==
  ASSUME NEW split \in BOOLEAN, NEW orders \in Seq(OffsetOrders(split)),
         NEW l \in Lefts(orders), NEW m \in Lefts(orders),
         NEW a \in [Sides -> SideBooks], NEW b \in [Sides -> SideBooks], NEW e \in Happenings(split),
         Covered(split, orders, m, a), TradeArrives(orders, e, m, l, a, b)
  PROVE  Covered(split, orders, l, b) /\ KeepsSpare(split, orders, m, l, a, b)
<1>1. PICK o, id : o = e.order /\ id = e.id
  OBVIOUS
<1>2. o \in OffsetOrders(split) /\ id \in 1..Len(orders) /\ SamePlan(o, orders[id])
      /\ OneMore(orders, m, l, id) /\ b = UnitTraded(a, o)
  BY <1>1 DEF TradeArrives, Happenings
<1>3. o.offset \in SplitOffsets(split) \cup {"OPEN"} /\ o.direction \in Sides /\ Closes(o.direction) \in Sides
  BY <1>2, LeftOfOrder
<1>4. ASSUME NEW s \in Sides, NEW off \in SplitOffsets(split)
      PROVE  /\ Due(orders, m, s, off) = Due(orders, l, s, off) + (IF Asks(o, s, off) THEN 1 ELSE 0)
             /\ Due(orders, l, s, off) \in Nat
  <2>1. Asks(o, s, off) <=> Asks(orders[id], s, off)
    BY <1>2 DEF SamePlan, Asks
  <2>2. Due(orders, m, s, off) = Due(orders, l, s, off) + (IF Asks(orders[id], s, off) THEN 1 ELSE 0)
    BY <1>2, DueOne
  <2>3. Due(orders, l, s, off) \in Nat
    BY ShareTyped
  <2> QED BY <2>1, <2>2, <2>3
<1>5. ASSUME NEW s \in Sides
      PROVE  /\ 0 <= b[s].td /\ 0 <= b[s].yd
             /\ \A off \in SplitOffsets(split) :
                  Room(b[s], off) - Room(a[s], off) >= (IF Asks(o, s, off) THEN -1 ELSE 0)
             /\ \A off \in SplitOffsets(split) : Room(b[s], off) \in Int /\ Room(a[s], off) \in Int
  <2>1. a[s].td \in Nat /\ a[s].yd \in Nat
    <3>1. a[s].td \in Int /\ a[s].yd \in Int
      BY BooksTyped
    <3>2. 0 <= a[s].td /\ 0 <= a[s].yd
      BY DEF Covered
    <3> QED BY <3>1, <3>2
  <2>2. b[s] = IF o.offset = "OPEN"
               THEN IF s = o.direction THEN [td |-> a[s].td + 1, yd |-> a[s].yd] ELSE a[s]
               ELSE IF s = Closes(o.direction) THEN UnitClosed(a[s], o.offset) ELSE a[s]
    BY <1>2 DEF UnitTraded
  <2>3. CASE o.offset = "OPEN"
    <3>1. b[s].td \in Nat /\ b[s].yd = a[s].yd /\ b[s].td >= a[s].td
      BY <2>1, <2>2, <2>3
    <3>2. \A off \in SplitOffsets(split) : ~Asks(o, s, off)
      BY <2>3 DEF Asks, SplitOffsets
    <3> QED BY <2>1, <3>1, <3>2 DEF Room
  <2>4. CASE o.offset # "OPEN" /\ s # Closes(o.direction)
    <3>1. b[s] = a[s] /\ \A off \in SplitOffsets(split) : ~Asks(o, s, off)
      BY <2>2, <2>4 DEF Asks
    <3> QED BY <2>1, <3>1 DEF Room
  <2>5. CASE o.offset # "OPEN" /\ s = Closes(o.direction)
    <3>1. b[s] = UnitClosed(a[s], o.offset) /\ o.offset \in SplitOffsets(split)
      BY <1>3, <2>2, <2>5
    <3>2. Room(a[s], o.offset) >= 1
      <4>1. Asks(o, s, o.offset)
        BY <2>5 DEF Asks
      <4>2. Due(orders, m, s, o.offset) >= 1
        BY <1>4, <3>1, <4>1
      <4>3. Due(orders, m, s, o.offset) <= Room(a[s], o.offset) /\ Room(a[s], o.offset) \in Int
        BY <2>1, <3>1 DEF Covered, Room
      <4>4. Due(orders, m, s, o.offset) \in Nat
        BY ShareTyped
      <4> QED BY <4>2, <4>3, <4>4
    <3>3. \A off \in SplitOffsets(split) : Asks(o, s, off) <=> off = o.offset
      BY <2>5 DEF Asks
    <3>4. CASE split
      <4>1. SplitOffsets(split) = {"CLOSETODAY", "CLOSEYESTERDAY"}
        BY <3>4 DEF SplitOffsets
      <4>2. CASE o.offset = "CLOSETODAY"
        <5>1. b[s].td = a[s].td - 1 /\ b[s].yd = a[s].yd /\ a[s].td >= 1
          BY <3>1, <3>2, <4>2 DEF UnitClosed, Room
        <5> QED BY <2>1, <3>3, <4>1, <4>2, <5>1 DEF Room
      <4>3. CASE o.offset = "CLOSEYESTERDAY"
        <5>1. b[s].yd = a[s].yd - 1 /\ b[s].td = a[s].td /\ a[s].yd >= 1
          BY <3>1, <3>2, <4>3 DEF UnitClosed, Room
        <5> QED BY <2>1, <3>3, <4>1, <4>3, <5>1 DEF Room
      <4> QED BY <3>1, <4>1, <4>2, <4>3
    <3>5. CASE ~split
      <4>1. SplitOffsets(split) = {"CLOSE"} /\ o.offset = "CLOSE"
        BY <3>1, <3>5 DEF SplitOffsets
      <4>2. a[s].td + a[s].yd >= 1
        BY <3>2, <4>1 DEF Room
      <4>3. /\ b[s].td \in Nat /\ b[s].yd \in Nat
            /\ b[s].td + b[s].yd = a[s].td + a[s].yd - 1
        BY <2>1, <3>1, <4>1, <4>2 DEF UnitClosed
      <4> QED BY <2>1, <3>3, <4>1, <4>3 DEF Room
    <3> QED BY <3>4, <3>5
  <2> QED BY <2>3, <2>4, <2>5
<1>6. ASSUME NEW s \in Sides, NEW off \in SplitOffsets(split)
      PROVE  /\ Due(orders, l, s, off) <= Room(b[s], off)
             /\ Spare(orders, l, b, s, off) >= Spare(orders, m, a, s, off)
  <2>1. PICK x, y, p, q : x = Due(orders, m, s, off) /\ y = Due(orders, l, s, off)
                          /\ p = Room(a[s], off) /\ q = Room(b[s], off)
    OBVIOUS
  <2>2. x = y + (IF Asks(o, s, off) THEN 1 ELSE 0) /\ y \in Nat
    BY <1>4, <2>1
  <2>3. q - p >= (IF Asks(o, s, off) THEN -1 ELSE 0) /\ q \in Int /\ p \in Int
    BY <1>5, <2>1
  <2>4. x <= p
    BY <2>1 DEF Covered
  <2> QED BY <2>1, <2>2, <2>3, <2>4 DEF Spare
<1> QED BY <1>5, <1>6 DEF Covered, KeepsSpare

---------------------------------------------------------------------------
(* The events on their way, one after the other. *)
LEMMA ArrivalCovers ==
  ASSUME NEW split \in BOOLEAN, NEW orders \in Seq(OffsetOrders(split)),
         NEW l \in Lefts(orders), NEW m \in Lefts(orders),
         NEW a \in [Sides -> SideBooks], NEW b \in [Sides -> SideBooks], NEW e \in Happenings(split),
         Covered(split, orders, m, a), Arrives(orders, e, m, l, a, b)
  PROVE  Covered(split, orders, l, b) /\ KeepsSpare(split, orders, m, l, a, b)
<1>1. CASE PositionArrives(e, m, l, a, b)
  <2>1. m = l /\ a = NoBooks /\ b = FirstBooks /\ HeldTd \in Nat /\ HeldYd \in Nat
    BY <1>1, OffsetAssumption DEF PositionArrives
  <2>2. ASSUME NEW s \in Sides
        PROVE  /\ 0 <= b[s].td /\ 0 <= b[s].yd
               /\ \A off \in SplitOffsets(split) :
                    Room(b[s], off) >= Room(a[s], off) /\ Room(b[s], off) \in Int /\ Room(a[s], off) \in Int
    <3>1. a[s].td = 0 /\ a[s].yd = 0 /\ b[s].td \in Nat /\ b[s].yd \in Nat
      BY <2>1 DEF NoBooks, FirstBooks
    <3> QED BY <3>1 DEF Room
  <2>3. ASSUME NEW s \in Sides, NEW off \in SplitOffsets(split)
        PROVE  /\ Due(orders, l, s, off) <= Room(b[s], off)
               /\ Spare(orders, l, b, s, off) >= Spare(orders, m, a, s, off)
    <3>1. PICK x, p, q : x = Due(orders, l, s, off) /\ p = Room(a[s], off) /\ q = Room(b[s], off)
      OBVIOUS
    <3>2. x \in Nat
      BY <3>1, ShareTyped
    <3>3. q >= p /\ q \in Int /\ p \in Int
      BY <2>2, <3>1
    <3>4. x <= p
      BY <2>1, <3>1 DEF Covered
    <3> QED BY <2>1, <3>1, <3>2, <3>3, <3>4 DEF Spare
  <2> QED BY <2>2, <2>3 DEF Covered, KeepsSpare
<1>2. CASE TradeArrives(orders, e, m, l, a, b)
  BY <1>2, TradeCovers
<1>3. CASE OrderArrives(orders, e, m, l, a, b)
  <2>1. m = l /\ a = b
    BY <1>3 DEF OrderArrives
  <2>2. \A s \in Sides, off \in SplitOffsets(split) : Spare(orders, l, b, s, off) \in Int
    <3>1. ASSUME NEW s \in Sides, NEW off \in SplitOffsets(split) PROVE Spare(orders, l, b, s, off) \in Int
      <4>1. Due(orders, l, s, off) \in Nat
        BY ShareTyped
      <4>2. b[s].td \in Int /\ b[s].yd \in Int
        BY BooksTyped
      <4> QED BY <4>1, <4>2 DEF Spare, Room
    <3> QED BY <3>1
  <2> QED BY <2>1, <2>2 DEF Covered, KeepsSpare
<1> QED BY <1>1, <1>2, <1>3 DEF Arrives

---------------------------------------------------------------------------
\* What is on its way leads from the holding to the account, place by place.
Places(evs) == 0..Len(evs)
Flow(split, orders, evs, left, acc) ==
  /\ left \in [Places(evs) -> Lefts(orders)] /\ acc \in [Places(evs) -> [Sides -> SideBooks]]
  /\ \A k \in Places(evs) : k # Len(evs) =>
       Arrives(orders, evs[k + 1], left[k], left[k + 1], acc[k], acc[k + 1])
Ends(hs, acct, orders, evs, left, acc) ==
  /\ \A i \in 1..Len(orders) : left[Len(evs)][i] = Remaining(orders[i])
  /\ acc[0] = BooksOf(hs) /\ acc[Len(evs)] = acct

LEMMA PlaceFacts ==
  ASSUME NEW split \in BOOLEAN, NEW evs \in Seq(Happenings(split))
  PROVE  /\ Len(evs) \in Nat /\ 0 \in Places(evs) /\ Len(evs) \in Places(evs)
         /\ \A k \in Places(evs) : k \in Nat /\ k <= Len(evs)
         /\ \A k \in Places(evs) : k # Len(evs) => k + 1 \in Places(evs) /\ evs[k + 1] \in Happenings(split)
<1>1. Len(evs) \in Nat /\ \A i \in 1..Len(evs) : evs[i] \in Happenings(split)
  OBVIOUS
<1> QED BY <1>1 DEF Places

\* What is covered at the first place is covered at the last.
LEMMA CoveredToTheEnd ==
  ASSUME NEW split \in BOOLEAN, NEW orders \in Seq(OffsetOrders(split)), NEW evs \in Seq(Happenings(split)),
         NEW left, NEW acc, Flow(split, orders, evs, left, acc), Covered(split, orders, left[0], acc[0])
  PROVE  Covered(split, orders, left[Len(evs)], acc[Len(evs)])
<1> DEFINE good == {k \in Nat : k \in Places(evs) => Covered(split, orders, left[k], acc[k])}
<1>1. 0 \in good
  OBVIOUS
<1>2. ASSUME NEW k \in Nat, k \in good PROVE k + 1 \in good
  <2> SUFFICES ASSUME k + 1 \in Places(evs) PROVE Covered(split, orders, left[k + 1], acc[k + 1])
    OBVIOUS
  <2>1. k \in Places(evs) /\ k # Len(evs) /\ evs[k + 1] \in Happenings(split)
    <3>1. Len(evs) \in Nat /\ k + 1 <= Len(evs)
      BY DEF Places
    <3> QED BY <3>1 DEF Places
  <2>2. Covered(split, orders, left[k], acc[k])
    BY <1>2, <2>1
  <2>3. PICK e, m, l, a, b : e = evs[k + 1] /\ m = left[k] /\ l = left[k + 1] /\ a = acc[k] /\ b = acc[k + 1]
    OBVIOUS
  <2>4. m \in Lefts(orders) /\ l \in Lefts(orders) /\ a \in [Sides -> SideBooks] /\ b \in [Sides -> SideBooks]
        /\ Arrives(orders, e, m, l, a, b)
    BY <2>1, <2>3 DEF Flow
  <2>5. Covered(split, orders, l, b)
    BY <2>1, <2>2, <2>3, <2>4, ArrivalCovers
  <2> QED BY <2>3, <2>5
<1>3. \A k \in Nat : k \in good
  <2>1. good \in SUBSET Nat
    OBVIOUS
  <2> HIDE DEF good
  <2> QED BY <1>1, <1>2, <2>1, CountingUp
<1>4. Len(evs) \in Nat /\ Len(evs) \in Places(evs)
  BY PlaceFacts
<1> QED BY <1>3, <1>4

\* Nothing an order has left comes back: at every place it has at least what it has
\* at the end.
\* No order has more left at the end than at an earlier place.
LEMMA LeftAtEnd ==
  ASSUME NEW split \in BOOLEAN, NEW orders \in Seq(OffsetOrders(split)), NEW evs \in Seq(Happenings(split)),
         NEW left, NEW acc, Flow(split, orders, evs, left, acc), NEW k \in Places(evs),
         NEW i \in 1..Len(orders)
  PROVE  left[Len(evs)][i] <= left[k][i]
<1> DEFINE good == {n \in Nat : n <= Len(evs) => left[Len(evs)][i] <= left[Len(evs) - n][i]}
<1>1. Len(evs) \in Nat /\ \A n \in Places(evs) : left[n][i] \in Nat
  BY PlaceFacts DEF Flow, Lefts
<1>2. 0 \in good
  <2>1. Len(evs) - 0 = Len(evs) /\ left[Len(evs)][i] \in Nat
    BY <1>1, PlaceFacts
  <2> QED BY <2>1
<1>3. ASSUME NEW n \in Nat, n \in good PROVE n + 1 \in good
  <2> SUFFICES ASSUME n + 1 <= Len(evs) PROVE left[Len(evs)][i] <= left[Len(evs) - (n + 1)][i]
    OBVIOUS
  <2>1. PICK j : j = Len(evs) - (n + 1)
    OBVIOUS
  <2>2. j \in Places(evs) /\ j # Len(evs) /\ j + 1 = Len(evs) - n /\ j + 1 \in Places(evs) /\ Len(evs) \in Places(evs)
    BY <1>1, <2>1 DEF Places
  <2>3. left[Len(evs)][i] <= left[j + 1][i]
    BY <1>1, <1>3, <2>2
  <2>4. Arrives(orders, evs[j + 1], left[j], left[j + 1], acc[j], acc[j + 1])
    BY <2>2 DEF Flow
  <2>5. left[j + 1][i] <= left[j][i]
    BY <1>1, <2>2, <2>4, SMTT(60) DEF Arrives, PositionArrives, TradeArrives, OrderArrives, OneMore
  <2>6. left[Len(evs)][i] \in Nat /\ left[j + 1][i] \in Nat /\ left[j][i] \in Nat
    BY <1>1, <2>2
  <2> QED BY <2>1, <2>3, <2>5, <2>6
<1>4. \A n \in Nat : n \in good
  <2>1. good \in SUBSET Nat
    OBVIOUS
  <2> HIDE DEF good
  <2> QED BY <1>2, <1>3, <2>1, CountingUp
<1>5. Len(evs) - k \in Nat /\ Len(evs) - k <= Len(evs) /\ Len(evs) - (Len(evs) - k) = k
  BY <1>1 DEF Places
<1> QED BY <1>4, <1>5

---------------------------------------------------------------------------
(* The holding: what is frozen, and what a trade does to it. *)
Holdings == [Sides -> SideHoldings]
FrozenWithin(hs) ==
  \A s \in Sides : /\ 0 <= hs[s].tdFrozen /\ hs[s].tdFrozen <= hs[s].td
                   /\ 0 <= hs[s].ydFrozen /\ hs[s].ydFrozen <= hs[s].yd
NothingOwed(hs) == \A s \in Sides : 0 <= hs[s].td /\ 0 <= hs[s].yd

LEMMA HoldingTyped ==
  ASSUME NEW hs \in Holdings, NEW s \in Sides
  PROVE  /\ hs[s].td \in Int /\ hs[s].yd \in Int /\ hs[s].tdFrozen \in Int /\ hs[s].ydFrozen \in Int
         /\ hs[s] \in SideHoldings
         /\ hs[s] = [td |-> hs[s].td, yd |-> hs[s].yd, tdFrozen |-> hs[s].tdFrozen, ydFrozen |-> hs[s].ydFrozen]
<1>1. hs[s] \in SideHoldings
  BY DEF Holdings
<1> QED BY <1>1 DEF SideHoldings

LEMMA BooksOfTyped ==
  ASSUME NEW hs \in Holdings
  PROVE  BooksOf(hs) \in [Sides -> SideBooks]
<1>1. \A s \in Sides : [td |-> hs[s].td, yd |-> hs[s].yd] \in SideBooks
  BY HoldingTyped DEF SideBooks
<1> QED BY <1>1 DEF BooksOf

LEMMA CappedIs ==
  ASSUME NEW h \in SideHoldings
  PROVE  /\ Capped(h) \in SideHoldings /\ Capped(h).td = h.td /\ Capped(h).yd = h.yd
         /\ Capped(h).tdFrozen = Lesser(h.tdFrozen, h.td) /\ Capped(h).ydFrozen = Lesser(h.ydFrozen, h.yd)
  BY DEF Capped, SideHoldings, Lesser

FrozenAre(f, hs, book, split) ==
  \A s \in Sides, off \in SplitOffsets(split) :
    FrozenFor(f[s], off) = Lesser(Closing(book, s, off), Room(hs[s], off))

\* What is frozen is what the orders of the holding close, capped by what is there.
LEMMA FrozenCalculated ==
  ASSUME NEW split \in BOOLEAN, NEW orders \in Seq(OffsetOrders(split)), NEW book,
         BookOf(split, book, orders), NEW hs \in Holdings, NothingOwed(hs)
  PROVE  /\ CalculateFrozen(book, hs) \in Holdings /\ FrozenWithin(CalculateFrozen(book, hs))
         /\ BooksOf(CalculateFrozen(book, hs)) = BooksOf(hs)
         /\ FrozenAre(CalculateFrozen(book, hs), hs, book, split)
<1>1. PICK f : f = CalculateFrozen(book, hs)
  OBVIOUS
<1>2. PICK l : l = [i \in 1..Len(orders) |-> 0]
  OBVIOUS
<1>3. l \in Lefts(orders)
  BY <1>2 DEF Lefts
<1>4. ASSUME NEW s \in Sides
      PROVE  /\ f[s] \in SideHoldings /\ f[s].td = hs[s].td /\ f[s].yd = hs[s].yd
             /\ 0 <= f[s].tdFrozen /\ f[s].tdFrozen <= f[s].td
             /\ 0 <= f[s].ydFrozen /\ f[s].ydFrozen <= f[s].yd
             /\ \A off \in SplitOffsets(split) :
                  FrozenFor(f[s], off) = Lesser(Closing(book, s, off), Room(hs[s], off))
    <2>1. PICK x, t, y, today, over, h :
            /\ x = Closing(book, s, "CLOSE") /\ t = Closing(book, s, "CLOSETODAY")
            /\ y = Closing(book, s, "CLOSEYESTERDAY") /\ h = hs[s] /\ today = t + x
            /\ over = IF x > 0 /\ today > h.td THEN today - h.td ELSE 0
      OBVIOUS
    <2>2. x \in Nat /\ t \in Nat /\ y \in Nat
      BY <1>3, <2>1, BookCovers
    <2>3. f[s] = Capped([h EXCEPT !.tdFrozen = today - over, !.ydFrozen = y + over])
      BY <1>1, <2>1 DEF CalculateFrozen
    <2>4. h \in SideHoldings /\ h.td \in Nat /\ h.yd \in Nat
      <3>1. h.td \in Int /\ h.yd \in Int /\ h \in SideHoldings
        BY <2>1, HoldingTyped
      <3>2. 0 <= h.td /\ 0 <= h.yd
        BY <2>1 DEF NothingOwed
      <3> QED BY <3>1, <3>2
    <2>5. today \in Nat /\ over \in Nat /\ today - over \in Nat
      <3>1. today = t + x /\ over = IF x > 0 /\ today > h.td THEN today - h.td ELSE 0
        BY <2>1
      <3>2. PICK n \in Nat : n = h.td
        BY <2>4
      <3>3. over = IF x > 0 /\ today > n THEN today - n ELSE 0
        BY <3>1, <3>2
      <3> QED BY <2>2, <3>1, <3>3
    <2>6. PICK g : g = [h EXCEPT !.tdFrozen = today - over, !.ydFrozen = y + over]
      OBVIOUS
    <2>7. g \in SideHoldings /\ g.td = h.td /\ g.yd = h.yd /\ g.tdFrozen = today - over /\ g.ydFrozen = y + over
      <3>1. PICK p, q : p = today - over /\ q = y + over
        OBVIOUS
      <3>2. p \in Int /\ q \in Int
        BY <2>2, <2>5, <3>1
      <3>3. g = [h EXCEPT !.tdFrozen = p, !.ydFrozen = q]
        BY <2>6, <3>1
      <3>4. g = [td |-> h.td, yd |-> h.yd, tdFrozen |-> p, ydFrozen |-> q]
        BY <2>4, <3>3 DEF SideHoldings
      <3> QED BY <2>4, <3>1, <3>2, <3>4 DEF SideHoldings
    <2>8. /\ f[s] \in SideHoldings /\ f[s].td = h.td /\ f[s].yd = h.yd
          /\ f[s].tdFrozen = Lesser(today - over, h.td) /\ f[s].ydFrozen = Lesser(y + over, h.yd)
      BY <2>3, <2>6, <2>7, CappedIs
    <2>9. \A off \in SplitOffsets(split) : FrozenFor(f[s], off) = Lesser(Closing(book, s, off), Room(hs[s], off))
      <3>1. CASE split
        <4>1. SplitOffsets(split) = {"CLOSETODAY", "CLOSEYESTERDAY"}
          BY <3>1 DEF SplitOffsets
        <4>2. x = 0
          <5>1. "CLOSE" \notin SplitOffsets(split) \cup {"OPEN"}
            BY <4>1
          <5> QED BY <1>3, <2>1, <5>1, BookCovers
        <4>3. over = 0 /\ today = t
          BY <2>1, <2>2, <4>2
        <4>4. f[s].tdFrozen = Lesser(t, h.td) /\ f[s].ydFrozen = Lesser(y, h.yd)
          BY <2>2, <2>8, <4>3
        <4> QED BY <2>1, <4>1, <4>4 DEF FrozenFor, Room
      <3>2. CASE ~split
        <4>1. SplitOffsets(split) = {"CLOSE"}
          BY <3>2 DEF SplitOffsets
        <4>2. t = 0 /\ y = 0
          <5>1. "CLOSETODAY" \notin SplitOffsets(split) \cup {"OPEN"} /\ "CLOSEYESTERDAY" \notin SplitOffsets(split) \cup {"OPEN"}
            BY <4>1
          <5> QED BY <1>3, <2>1, <5>1, BookCovers
        <4>3. f[s].tdFrozen + f[s].ydFrozen = Lesser(x, h.td + h.yd)
          <5>1. PICK n, k \in Nat : n = h.td /\ k = h.yd
            BY <2>4
          <5>2. today = x /\ over = IF x > 0 /\ x > n THEN x - n ELSE 0
            BY <2>1, <2>2, <4>2, <5>1
          <5>3. f[s].tdFrozen = Lesser(x - over, n) /\ f[s].ydFrozen = Lesser(over, k)
            BY <2>5, <2>8, <4>2, <5>1, <5>2
          <5>4. Lesser(x - over, n) + Lesser(over, k) = Lesser(x, n + k)
            <6>1. CASE x > n
              <7>1. over = x - n /\ x - over = n
                BY <2>2, <5>1, <5>2, <6>1
              <7>2. Lesser(x - over, n) = n
                BY <7>1 DEF Lesser
              <7>3. Lesser(over, k) = IF x - n < k THEN x - n ELSE k
                BY <7>1 DEF Lesser
              <7>4. Lesser(x, n + k) = IF x < n + k THEN x ELSE n + k
                BY DEF Lesser
              <7>5. x \in Nat /\ n \in Nat /\ k \in Nat
                BY <2>2
              <7> QED BY <7>2, <7>3, <7>4, <7>5
            <6>2. CASE ~(x > n)
              <7>1. over = 0 /\ x - over = x
                BY <2>2, <5>1, <5>2, <6>2
              <7> QED BY <2>2, <5>1, <6>2, <7>1 DEF Lesser
            <6> QED BY <6>1, <6>2
          <5> QED BY <5>1, <5>3, <5>4
        <4> QED BY <2>1, <4>1, <4>3 DEF FrozenFor, Room
      <3> QED BY <3>1, <3>2
    <2>10. /\ 0 <= f[s].tdFrozen /\ f[s].tdFrozen <= f[s].td
           /\ 0 <= f[s].ydFrozen /\ f[s].ydFrozen <= f[s].yd
      BY <2>2, <2>4, <2>5, <2>8 DEF Lesser
    <2> QED BY <2>1, <2>8, <2>9, <2>10
<1>5. f = [s \in Sides |-> f[s]]
  BY <1>1 DEF CalculateFrozen
<1>6. f \in Holdings
  BY <1>4, <1>5 DEF Holdings
<1>7. BooksOf(f) = BooksOf(hs)
  BY <1>4 DEF BooksOf
<1> QED BY <1>1, <1>4, <1>6, <1>7 DEF FrozenWithin, FrozenAre

\* A unit traded, for the holding and for the account.
\* A trade moves the holding, and the account, as the books.
LEMMA HoldingTraded ==
  ASSUME splitsToday \in BOOLEAN, NEW o \in OffsetOrders(splitsToday), NEW hs \in Holdings
  PROVE  /\ Traded(hs, o, 1) \in Holdings
         /\ \A s \in Sides : Traded(hs, o, 1)[s].td = UnitTraded(BooksOf(hs), o)[s].td
         /\ \A s \in Sides : Traded(hs, o, 1)[s].yd = UnitTraded(BooksOf(hs), o)[s].yd
         /\ \A s \in Sides : Traded(hs, o, 1)[s].tdFrozen = hs[s].tdFrozen
         /\ \A s \in Sides : Traded(hs, o, 1)[s].ydFrozen = hs[s].ydFrozen
<1>1. PICK d, c, f : d = o.direction /\ c = Closes(o.direction) /\ f = Traded(hs, o, 1)
  OBVIOUS
<1>2. d \in Sides /\ c \in Sides /\ o.offset \in SplitOffsets(splitsToday) \cup {"OPEN"}
  BY <1>1, LeftOfOrder
<1>3. CASE o.offset = "OPEN"
  <2>1. PICK g : g = [hs[d] EXCEPT !.td = @ + 1]
    OBVIOUS
  <2>2. g \in SideHoldings /\ g.td = hs[d].td + 1 /\ g.yd = hs[d].yd /\ g.tdFrozen = hs[d].tdFrozen
        /\ g.ydFrozen = hs[d].ydFrozen
    <3>1. hs[d] \in SideHoldings
      BY <1>2, HoldingTyped
    <3> QED BY <2>1, <3>1 DEF SideHoldings
  <2>3. f = [hs EXCEPT ![d] = g]
    BY <1>1, <1>3, <2>1 DEF Traded
  <2>4. f \in Holdings /\ f[d] = g /\ \A s \in Sides : s # d => f[s] = hs[s]
    BY <1>2, <2>2, <2>3 DEF Holdings
  <2>5. \A s \in Sides : /\ UnitTraded(BooksOf(hs), o)[s].td = (IF s = d THEN hs[s].td + 1 ELSE hs[s].td)
                         /\ UnitTraded(BooksOf(hs), o)[s].yd = hs[s].yd
    BY <1>1, <1>3 DEF UnitTraded, BooksOf
  <2> QED BY <1>1, <2>2, <2>4, <2>5
<1>4. CASE o.offset # "OPEN"
  <2>1. PICK g : g = Closed(hs[c], o.offset, 1)
    OBVIOUS
  <2>2. PICK b : b = UnitClosed([td |-> hs[c].td, yd |-> hs[c].yd], o.offset)
    OBVIOUS
  <2>3. g \in SideHoldings /\ g.td = b.td /\ g.yd = b.yd /\ g.tdFrozen = hs[c].tdFrozen
        /\ g.ydFrozen = hs[c].ydFrozen
    <3>1. PICK h : h = hs[c] /\ h \in SideHoldings
      BY <1>2, HoldingTyped
    <3>2. o.offset = "CLOSE" => ~splitsToday
      BY <1>4, <1>2 DEF SplitOffsets
    <3>3. o.offset \in {"CLOSE", "CLOSETODAY", "CLOSEYESTERDAY"}
      BY <1>4, <1>2 DEF SplitOffsets
    <3>4. CASE o.offset = "CLOSETODAY"
      <4>1. g = [h EXCEPT !.td = @ - 1]
        BY <2>1, <3>1, <3>4 DEF Closed
      <4> QED BY <2>2, <3>1, <3>4, <4>1 DEF UnitClosed, SideHoldings
    <3>5. CASE o.offset = "CLOSEYESTERDAY"
      <4>1. g = [h EXCEPT !.yd = @ - 1]
        BY <2>1, <3>1, <3>5 DEF Closed
      <4> QED BY <2>2, <3>1, <3>5, <4>1 DEF UnitClosed, SideHoldings
    <3>6. CASE o.offset = "CLOSE" /\ h.td >= 1
      <4>1. g = [h EXCEPT !.td = @ - 1]
        BY <2>1, <3>1, <3>2, <3>6 DEF Closed
      <4> QED BY <2>2, <3>1, <3>6, <4>1 DEF UnitClosed, SideHoldings
    <3>7. CASE o.offset = "CLOSE" /\ ~(h.td >= 1)
      <4>1. g = [h EXCEPT !.td = 0, !.yd = @ - (1 - h.td)]
        BY <2>1, <3>1, <3>2, <3>7 DEF Closed
      <4>2. PICK y : y = h.yd - (1 - h.td)
        OBVIOUS
      <4>3. g = [td |-> 0, yd |-> y, tdFrozen |-> h.tdFrozen, ydFrozen |-> h.ydFrozen]
        BY <3>1, <4>1, <4>2 DEF SideHoldings
      <4>4. y \in Int
        BY <3>1, <4>2 DEF SideHoldings
      <4>5. b = [td |-> 0, yd |-> y]
        BY <2>2, <3>1, <3>7, <4>2 DEF UnitClosed
      <4> QED BY <3>1, <4>3, <4>4, <4>5 DEF SideHoldings
    <3> QED BY <3>3, <3>4, <3>5, <3>6, <3>7
  <2>4. f = [hs EXCEPT ![c] = g]
    BY <1>1, <1>4, <2>1 DEF Traded
  <2>5. f \in Holdings /\ f[c] = g /\ \A s \in Sides : s # c => f[s] = hs[s]
    BY <1>2, <2>3, <2>4 DEF Holdings
  <2>6. \A s \in Sides : /\ UnitTraded(BooksOf(hs), o)[s].td = (IF s = c THEN b.td ELSE hs[s].td)
                         /\ UnitTraded(BooksOf(hs), o)[s].yd = (IF s = c THEN b.yd ELSE hs[s].yd)
    BY <1>1, <1>2, <1>4, <2>2 DEF UnitTraded, BooksOf
  <2> QED BY <1>1, <2>3, <2>5, <2>6
<1> QED BY <1>3, <1>4

LEMMA AccountTraded ==
  ASSUME splitsToday \in BOOLEAN, NEW o \in OffsetOrders(splitsToday), NEW a \in [Sides -> SideBooks]
  PROVE  Traded(a, o, 1) = UnitTraded(a, o) /\ Traded(a, o, 1) \in [Sides -> SideBooks]
<1>1. PICK d, c, f : d = o.direction /\ c = Closes(o.direction) /\ f = Traded(a, o, 1)
  OBVIOUS
<1>2. d \in Sides /\ c \in Sides /\ o.offset \in SplitOffsets(splitsToday) \cup {"OPEN"}
  BY <1>1, LeftOfOrder
<1>3. CASE o.offset = "OPEN"
  <2>1. PICK g : g = [a[d] EXCEPT !.td = @ + 1]
    OBVIOUS
  <2>2. g = [td |-> a[d].td + 1, yd |-> a[d].yd]
    BY <1>2, <2>1, BooksTyped DEF SideBooks
  <2>3. f = [a EXCEPT ![d] = g]
    BY <1>1, <1>3, <2>1 DEF Traded
  <2>4. f = UnitTraded(a, o)
    BY <1>1, <1>2, <1>3, <2>2, <2>3 DEF UnitTraded
  <2> QED BY <1>1, <2>4, UnitTradedTyped
<1>4. CASE o.offset # "OPEN"
  <2>1. PICK g : g = Closed(a[c], o.offset, 1)
    OBVIOUS
  <2>2. g = UnitClosed(a[c], o.offset)
    <3>1. PICK h : h = a[c] /\ h \in SideBooks
      BY <1>2
    <3>2. o.offset = "CLOSE" => ~splitsToday
      BY <1>4, <1>2 DEF SplitOffsets
    <3>3. o.offset \in {"CLOSE", "CLOSETODAY", "CLOSEYESTERDAY"}
      BY <1>4, <1>2 DEF SplitOffsets
    <3>4. CASE o.offset = "CLOSETODAY"
      <4>1. g = [h EXCEPT !.td = @ - 1]
        BY <2>1, <3>1, <3>4 DEF Closed
      <4> QED BY <3>1, <3>4, <4>1 DEF UnitClosed, SideBooks
    <3>5. CASE o.offset = "CLOSEYESTERDAY"
      <4>1. g = [h EXCEPT !.yd = @ - 1]
        BY <2>1, <3>1, <3>5 DEF Closed
      <4> QED BY <3>1, <3>5, <4>1 DEF UnitClosed, SideBooks
    <3>6. CASE o.offset = "CLOSE" /\ h.td >= 1
      <4>1. g = [h EXCEPT !.td = @ - 1]
        BY <2>1, <3>1, <3>2, <3>6 DEF Closed
      <4> QED BY <3>1, <3>6, <4>1 DEF UnitClosed, SideBooks
    <3>7. CASE o.offset = "CLOSE" /\ ~(h.td >= 1)
      <4>1. g = [h EXCEPT !.td = 0, !.yd = @ - (1 - h.td)]
        BY <2>1, <3>1, <3>2, <3>7 DEF Closed
      <4>2. PICK y : y = h.yd - (1 - h.td)
        OBVIOUS
      <4>3. g = [td |-> 0, yd |-> y]
        BY <3>1, <4>1, <4>2 DEF SideBooks
      <4>4. UnitClosed(h, o.offset) = [td |-> 0, yd |-> y]
        BY <3>7, <4>2 DEF UnitClosed
      <4> QED BY <3>1, <4>3, <4>4
    <3> QED BY <3>3, <3>4, <3>5, <3>6, <3>7
  <2>3. f = [a EXCEPT ![c] = g]
    BY <1>1, <1>4, <2>1 DEF Traded
  <2>4. f = UnitTraded(a, o)
    BY <1>1, <1>2, <1>4, <2>2, <2>3 DEF UnitTraded
  <2> QED BY <1>1, <2>4, UnitTradedTyped
<1> QED BY <1>3, <1>4

---------------------------------------------------------------------------
(* What is converted fits into what is not frozen. *)
Requests(F) == [offset : F, volume : Nat \ {0}]
Avail(h, off) == Room(h, off) - FrozenFor(h, off)
\* Requests with different offsets, none to close more than is there and not frozen.
Fits(h, reqs, F) ==
  /\ reqs \in Seq(Requests(F))
  /\ \A i, j \in 1..Len(reqs) : i # j => reqs[i].offset # reqs[j].offset
  /\ \A i \in 1..Len(reqs) : reqs[i].offset = "OPEN" \/ reqs[i].volume <= Avail(h, reqs[i].offset)

LEMMA NoneFits == ASSUME NEW h, NEW F PROVE Fits(h, <<>>, F)
  BY DEF Fits

LEMMA ReqFits ==
  ASSUME NEW h, NEW off, NEW v \in Int, off = "OPEN" \/ v <= Avail(h, off)
  PROVE  Fits(h, Req(off, v), {off})
<1>1. CASE v > 0
  <2>1. PICK r : r = [offset |-> off, volume |-> v]
    OBVIOUS
  <2>2. r \in Requests({off}) /\ r.offset = off /\ r.volume = v
    BY <1>1, <2>1 DEF Requests
  <2>3. Req(off, v) = <<r>>
    BY <1>1, <2>1 DEF Req
  <2>4. <<r>> \in Seq(Requests({off})) /\ Len(<<r>>) = 1 /\ <<r>>[1] = r
    BY <2>2
  <2> QED BY <2>2, <2>3, <2>4 DEF Fits
<1>2. CASE ~(v > 0)
  BY <1>2, NoneFits DEF Req
<1> QED BY <1>1, <1>2

LEMMA FitsMore ==
  ASSUME NEW h, NEW reqs, NEW E, NEW F \in SUBSET E, Fits(h, reqs, F)
  PROVE  Fits(h, reqs, E)
<1>1. Requests(F) \subseteq Requests(E)
  BY DEF Requests
<1>2. reqs \in Seq(Requests(E))
  BY <1>1 DEF Fits
<1> QED BY <1>2 DEF Fits

LEMMA JoinFits ==
  ASSUME NEW h, NEW p, NEW q, NEW E, NEW F, Fits(h, p, E), Fits(h, q, F), E \cap F = {}
  PROVE  Fits(h, p \o q, E \cup F)
<1>1. Fits(h, p, E \cup F) /\ Fits(h, q, E \cup F)
  BY FitsMore
<1>2. PICK G, m, n, r : G = Requests(E \cup F) /\ m = Len(p) /\ n = Len(q) /\ r = p \o q
  OBVIOUS
<1>3. p \in Seq(G) /\ q \in Seq(G) /\ m \in Nat /\ n \in Nat
  BY <1>1, <1>2 DEF Fits
<1>4. r \in Seq(G) /\ Len(r) = m + n
  BY <1>2, <1>3
<1>5. \A i \in 1..m : r[i] = p[i]
  BY <1>2, <1>3
<1>6. \A i \in m+1..m+n : i - m \in 1..n /\ r[i] = q[i - m]
  BY <1>2, <1>3
<1>7. \A i \in 1..m+n : i \in 1..m \/ i \in m+1..m+n
  BY <1>3
<1>8. \A i \in 1..m : p[i].offset \in E
  <2>1. p \in Seq(Requests(E))
    BY DEF Fits
  <2>2. \A i \in 1..m : p[i] \in Requests(E)
    BY <1>2, <2>1
  <2> QED BY <2>2 DEF Requests
<1>9. \A i \in 1..n : q[i].offset \in F
  <2>1. q \in Seq(Requests(F))
    BY DEF Fits
  <2>2. \A i \in 1..n : q[i] \in Requests(F)
    BY <1>2, <2>1
  <2> QED BY <2>2 DEF Requests
<1>10. ASSUME NEW i \in 1..m+n, NEW j \in 1..m+n, i # j PROVE r[i].offset # r[j].offset
  <2>1. CASE i \in 1..m /\ j \in 1..m
    BY <1>2, <1>5, <1>10, <2>1 DEF Fits
  <2>2. CASE i \in m+1..m+n /\ j \in m+1..m+n
    <3>1. i - m # j - m
      BY <1>3, <1>10
    <3> QED BY <1>2, <1>6, <2>2, <3>1 DEF Fits
  <2>3. CASE i \in 1..m /\ j \in m+1..m+n
    BY <1>5, <1>6, <1>8, <1>9, <2>3
  <2>4. CASE i \in m+1..m+n /\ j \in 1..m
    BY <1>5, <1>6, <1>8, <1>9, <2>4
  <2> QED BY <1>7, <2>1, <2>2, <2>3, <2>4
<1>11. ASSUME NEW i \in 1..m+n PROVE r[i].offset = "OPEN" \/ r[i].volume <= Avail(h, r[i].offset)
  <2>1. CASE i \in 1..m
    BY <1>2, <1>5, <2>1 DEF Fits
  <2>2. CASE i \in m+1..m+n
    BY <1>2, <1>6, <2>2 DEF Fits
  <2> QED BY <1>7, <2>1, <2>2
<1>12. \A i, j \in 1..m+n : i # j => r[i].offset # r[j].offset
  BY <1>10
<1> QED BY <1>2, <1>4, <1>11, <1>12 DEF Fits

Sound(h) ==
  /\ h \in SideHoldings
  /\ 0 <= h.tdFrozen /\ h.tdFrozen <= h.td /\ 0 <= h.ydFrozen /\ h.ydFrozen <= h.yd

LEMMA AvailIs ==
  ASSUME NEW h, Sound(h)
  PROVE  /\ TdAvailable(h) \in Nat /\ YdAvailable(h) \in Nat
         /\ PosAvailable(h) = TdAvailable(h) + YdAvailable(h)
         /\ Avail(h, "CLOSETODAY") = TdAvailable(h) /\ Avail(h, "CLOSEYESTERDAY") = YdAvailable(h)
         /\ Avail(h, "CLOSE") = TdAvailable(h) + YdAvailable(h)
<1>1. PICK a, b, c, d : a = h.td /\ b = h.yd /\ c = h.tdFrozen /\ d = h.ydFrozen
  OBVIOUS
<1>2. a \in Int /\ b \in Int /\ c \in Int /\ d \in Int /\ 0 <= c /\ c <= a /\ 0 <= d /\ d <= b
  BY <1>1 DEF Sound, SideHoldings
<1> QED BY <1>1, <1>2 DEF TdAvailable, YdAvailable, PosAvailable, Avail, Room, FrozenFor

LEMMA ShfeFits ==
  ASSUME NEW h, Sound(h), NEW v \in Nat
  PROVE  Fits(h, ConvertShfe(h, v), {"CLOSETODAY", "CLOSEYESTERDAY", "OPEN"})
<1>1. PICK t, y, x : t = TdAvailable(h) /\ y = YdAvailable(h) /\ x = Lesser(v, t)
  OBVIOUS
<1>2. t \in Nat /\ y \in Nat /\ PosAvailable(h) = t + y
      /\ Avail(h, "CLOSETODAY") = t /\ Avail(h, "CLOSEYESTERDAY") = y
  BY <1>1, AvailIs
<1>3. x \in Int /\ v - x \in Int /\ x <= t
  BY <1>1, <1>2 DEF Lesser
<1>4. CASE v > t + y
  <2>1. ConvertShfe(h, v) = <<>>
    BY <1>2, <1>4 DEF ConvertShfe
  <2> QED BY <2>1, NoneFits
<1>5. CASE ~(v > t + y)
  <2>1. ConvertShfe(h, v) = Req("CLOSETODAY", x) \o Req("CLOSEYESTERDAY", v - x)
    BY <1>1, <1>2, <1>5 DEF ConvertShfe
  <2>2. v - x <= y
    BY <1>1, <1>2, <1>5 DEF Lesser
  <2>3. Fits(h, Req("CLOSETODAY", x), {"CLOSETODAY"})
    BY <1>2, <1>3, ReqFits
  <2>4. Fits(h, Req("CLOSEYESTERDAY", v - x), {"CLOSEYESTERDAY"})
    BY <1>2, <1>3, <2>2, ReqFits
  <2>5. Fits(h, ConvertShfe(h, v), {"CLOSETODAY"} \cup {"CLOSEYESTERDAY"})
    <3>1. {"CLOSETODAY"} \cap {"CLOSEYESTERDAY"} = {}
      OBVIOUS
    <3> QED BY <2>1, <2>3, <2>4, <3>1, JoinFits
  <2> QED BY <2>5, FitsMore
<1> QED BY <1>4, <1>5

LEMMA LockFits ==
  ASSUME splitsToday \in BOOLEAN, NEW h, Sound(h), NEW v \in Nat
  PROVE  Fits(h, ConvertLock(h, v), SplitOffsets(splitsToday) \cup {"OPEN"})
<1>1. PICK t, y, x, off :
        /\ t = TdAvailable(h) /\ y = YdAvailable(h) /\ x = Lesser(v, y)
        /\ off = IF splitsToday THEN "CLOSEYESTERDAY" ELSE "CLOSE"
  OBVIOUS
<1>2. t \in Nat /\ y \in Nat /\ Avail(h, "CLOSE") = t + y /\ Avail(h, "CLOSEYESTERDAY") = y
  BY <1>1, AvailIs
<1>3. x \in Int /\ v - x \in Int /\ x <= y
  BY <1>1, <1>2 DEF Lesser
<1>4. off \in SplitOffsets(splitsToday) /\ off # "OPEN" /\ x <= Avail(h, off)
  BY <1>1, <1>2, <1>3 DEF SplitOffsets
<1>5. CASE h.td > 0
  <2>1. ConvertLock(h, v) = Req("OPEN", v)
    BY <1>5 DEF ConvertLock
  <2>2. Fits(h, Req("OPEN", v), {"OPEN"})
    BY ReqFits
  <2> QED BY <2>1, <2>2, FitsMore
<1>6. CASE ~(h.td > 0)
  <2>1. ConvertLock(h, v) = Req(off, x) \o Req("OPEN", v - x)
    BY <1>1, <1>6 DEF ConvertLock
  <2>2. Fits(h, Req(off, x), {off})
    BY <1>3, <1>4, ReqFits
  <2>3. Fits(h, Req("OPEN", v - x), {"OPEN"})
    BY <1>3, ReqFits
  <2>4. Fits(h, ConvertLock(h, v), {off} \cup {"OPEN"})
    <3>1. PICK E, F, p, q : E = {off} /\ F = {"OPEN"} /\ p = Req(off, x) /\ q = Req("OPEN", v - x)
      OBVIOUS
    <3>2. E \cap F = {}
      BY <1>4, <3>1
    <3>3. Fits(h, p \o q, E \cup F)
      BY <2>2, <2>3, <3>1, <3>2, JoinFits
    <3> QED BY <2>1, <3>1, <3>3
  <2>5. {off} \cup {"OPEN"} \in SUBSET (SplitOffsets(splitsToday) \cup {"OPEN"})
    BY <1>4
  <2> QED BY <2>4, <2>5, FitsMore
<1> QED BY <1>5, <1>6

LEMMA NetFits ==
  ASSUME splitsToday \in BOOLEAN, NEW h, Sound(h), NEW v \in Nat
  PROVE  Fits(h, ConvertNet(h, v), SplitOffsets(splitsToday) \cup {"OPEN"})
<1>1. PICK t, y, x, z, w :
        /\ t = TdAvailable(h) /\ y = YdAvailable(h) /\ x = Lesser(v, t) /\ z = Lesser(v - x, y)
        /\ w = Lesser(v, t + y)
  OBVIOUS
<1>2. t \in Nat /\ y \in Nat /\ PosAvailable(h) = t + y /\ Avail(h, "CLOSE") = t + y
      /\ Avail(h, "CLOSETODAY") = t /\ Avail(h, "CLOSEYESTERDAY") = y
  BY <1>1, AvailIs
<1>3. x \in Int /\ x <= t /\ v - x \in Int
  BY <1>1, <1>2 DEF Lesser
<1>4. z \in Int /\ z <= y /\ v - x - z \in Int /\ w \in Int /\ w <= t + y /\ v - w \in Int
  BY <1>1, <1>2, <1>3 DEF Lesser
<1>5. CASE splitsToday
  <2>1. PICK p, q, r : p = Req("CLOSETODAY", x) /\ q = Req("CLOSEYESTERDAY", z) /\ r = Req("OPEN", v - x - z)
    OBVIOUS
  <2>2. ConvertNet(h, v) = p \o q \o r
    BY <1>1, <1>5, <2>1 DEF ConvertNet
  <2>3. Fits(h, p, {"CLOSETODAY"})
    BY <1>2, <1>3, <2>1, ReqFits
  <2>4. Fits(h, q, {"CLOSEYESTERDAY"})
    BY <1>2, <1>4, <2>1, ReqFits
  <2>5. Fits(h, r, {"OPEN"})
    BY <1>4, <2>1, ReqFits
  <2>6. Fits(h, p \o q, {"CLOSETODAY"} \cup {"CLOSEYESTERDAY"})
    <3>1. {"CLOSETODAY"} \cap {"CLOSEYESTERDAY"} = {}
      OBVIOUS
    <3> QED BY <2>3, <2>4, <3>1, JoinFits
  <2>7. Fits(h, (p \o q) \o r, ({"CLOSETODAY"} \cup {"CLOSEYESTERDAY"}) \cup {"OPEN"})
    <3>1. ({"CLOSETODAY"} \cup {"CLOSEYESTERDAY"}) \cap {"OPEN"} = {}
      OBVIOUS
    <3> QED BY <2>5, <2>6, <3>1, JoinFits
  <2>8. ({"CLOSETODAY"} \cup {"CLOSEYESTERDAY"}) \cup {"OPEN"} = SplitOffsets(splitsToday) \cup {"OPEN"}
    BY <1>5 DEF SplitOffsets
  <2> QED BY <2>2, <2>7, <2>8
<1>6. CASE ~splitsToday
  <2>1. ConvertNet(h, v) = Req("CLOSE", w) \o Req("OPEN", v - w)
    BY <1>1, <1>2, <1>6 DEF ConvertNet
  <2>2. Fits(h, Req("CLOSE", w), {"CLOSE"})
    BY <1>2, <1>4, ReqFits
  <2>3. Fits(h, Req("OPEN", v - w), {"OPEN"})
    BY <1>4, ReqFits
  <2>4. Fits(h, ConvertNet(h, v), {"CLOSE"} \cup {"OPEN"})
    <3>1. {"CLOSE"} \cap {"OPEN"} = {}
      OBVIOUS
    <3> QED BY <2>1, <2>2, <2>3, <3>1, JoinFits
  <2>5. {"CLOSE"} \cup {"OPEN"} = SplitOffsets(splitsToday) \cup {"OPEN"}
    BY <1>6 DEF SplitOffsets
  <2> QED BY <2>4, <2>5
<1> QED BY <1>5, <1>6

---------------------------------------------------------------------------
(* The inductive invariant. *)
Unsent(split, toS) ==
  /\ toS \in Seq(OffsetOrders(split))
  /\ \A i \in 1..Len(toS) : toS[i].volume > 0 /\ toS[i].traded = 0 /\ toS[i].live
  /\ \A i, j \in 1..Len(toS) : i # j => toS[i].offset # toS[j].offset
\* What is still to be sent fits into what is not due, where the holding is.
Demand(split, hs, toS, orders, l) ==
  \A i \in 1..Len(toS), s \in Sides, off \in SplitOffsets(split) :
    Asks(toS[i], s, off) => toS[i].volume + Due(orders, l, s, off) <= Room(hs[s], off)
\* Every order with something left is in the book, but for the one not registered yet.
Registered(book, unreg, orders, l) ==
  \A i \in 1..Len(orders) : l[i] <= orders[i].volume /\ (i \in DOMAIN book \/ l[i] = 0 \/ i = unreg)
FrozenCovers(split, hs, orders, l) ==
  \A s \in Sides, off \in SplitOffsets(split) : Due(orders, l, s, off) <= FrozenFor(hs[s], off)

OffsetTyped(split, hs, book, toS, unreg, acct, orders, evs) ==
  /\ split \in BOOLEAN /\ hs \in Holdings /\ acct \in [Sides -> SideBooks]
  /\ orders \in Seq(OffsetOrders(split)) /\ evs \in Seq(Happenings(split))
  /\ BookOf(split, book, orders) /\ Unsent(split, toS) /\ unreg \in 0..Len(orders)
\* How things stand at the place where the holding is.
StandsAt(split, hs, book, toS, unreg, orders, l) ==
  /\ l \in Lefts(orders) /\ FrozenWithin(hs) /\ Covered(split, orders, l, BooksOf(hs))
  /\ Demand(split, hs, toS, orders, l) /\ Outlasts(book, l) /\ Registered(book, unreg, orders, l)
  /\ unreg = 0 => FrozenCovers(split, hs, orders, l)
InFlight(split, hs, acct, orders, evs, left, acc) ==
  Flow(split, orders, evs, left, acc) /\ Ends(hs, acct, orders, evs, left, acc)

\* Some course of the orders and of the account leads from the holding, where what
\* is frozen covers what is due once every order is registered, to the exchange.
OffsetInv ==
  /\ OffsetTyped(splitsToday, holding, holdingOrders, toSend, unregistered, account, placed, events)
  /\ \E left, acc :
       /\ InFlight(splitsToday, holding, account, placed, events, left, acc)
       /\ StandsAt(splitsToday, holding, holdingOrders, toSend, unregistered, placed, left[0])

---------------------------------------------------------------------------
(* An event arrives: the rest of the course, and the requests still to be sent. *)
LEMMA FlowShifts ==
  ASSUME NEW split \in BOOLEAN, NEW orders \in Seq(OffsetOrders(split)), NEW evs \in Seq(Happenings(split)),
         evs # <<>>, NEW hs, NEW hs2, NEW acct, NEW left, NEW acc,
         InFlight(split, hs, acct, orders, evs, left, acc), acc[1] = BooksOf(hs2)
  PROVE  \E left2, acc2 : InFlight(split, hs2, acct, orders, Tail(evs), left2, acc2) /\ left2[0] = left[1]
<1>1. PICK L, tl, l2, a2 :
        /\ L = Len(evs) /\ tl = Tail(evs)
        /\ l2 = [k \in 0..L-1 |-> left[k + 1]] /\ a2 = [k \in 0..L-1 |-> acc[k + 1]]
  OBVIOUS
<1>2. L \in Nat /\ L >= 1 /\ Len(tl) = L - 1 /\ tl \in Seq(Happenings(split))
      /\ \A i \in 1..L-1 : tl[i] = evs[i + 1]
  BY <1>1
<1>3. Places(tl) = 0..L-1 /\ \A k \in 0..L-1 : k + 1 \in Places(evs) /\ k \in Places(evs)
  BY <1>1, <1>2 DEF Places
<1>4. l2 \in [Places(tl) -> Lefts(orders)] /\ a2 \in [Places(tl) -> [Sides -> SideBooks]]
  BY <1>1, <1>3 DEF InFlight, Flow
<1>5. ASSUME NEW k \in Places(tl), k # Len(tl)
      PROVE  Arrives(orders, tl[k + 1], l2[k], l2[k + 1], a2[k], a2[k + 1])
  <2>1. k \in 0..L-1 /\ k + 1 \in 0..L-1 /\ k + 1 \in 1..L-1 /\ k + 1 \in Places(evs) /\ k + 1 # Len(evs)
    BY <1>1, <1>2, <1>3, <1>5
  <2>2. Arrives(orders, evs[(k + 1) + 1], left[k + 1], left[(k + 1) + 1], acc[k + 1], acc[(k + 1) + 1])
    BY <2>1 DEF InFlight, Flow
  <2>3. tl[k + 1] = evs[(k + 1) + 1]
    BY <1>2, <2>1
  <2>4. l2[k] = left[k + 1] /\ l2[k + 1] = left[(k + 1) + 1] /\ a2[k] = acc[k + 1] /\ a2[k + 1] = acc[(k + 1) + 1]
    BY <1>1, <2>1
  <2> QED BY <2>2, <2>3, <2>4
<1>6. Flow(split, orders, tl, l2, a2)
  BY <1>4, <1>5 DEF Flow
<1>7. l2[Len(tl)] = left[L] /\ a2[Len(tl)] = acc[L] /\ l2[0] = left[1] /\ a2[0] = acc[1]
  BY <1>1, <1>2
<1>8. Ends(hs2, acct, orders, tl, l2, a2)
  BY <1>1, <1>7 DEF Ends, InFlight
<1> QED BY <1>1, <1>6, <1>7, <1>8 DEF InFlight

LEMMA DemandStands ==
  ASSUME NEW split \in BOOLEAN, NEW orders \in Seq(OffsetOrders(split)), NEW toS, Unsent(split, toS),
         NEW hs \in Holdings, NEW hs2 \in Holdings, NEW m \in Lefts(orders), NEW l \in Lefts(orders),
         Demand(split, hs, toS, orders, m),
         KeepsSpare(split, orders, m, l, BooksOf(hs), BooksOf(hs2))
  PROVE  Demand(split, hs2, toS, orders, l)
<1> SUFFICES ASSUME NEW i \in 1..Len(toS), NEW s \in Sides, NEW off \in SplitOffsets(split), Asks(toS[i], s, off)
             PROVE  toS[i].volume + Due(orders, l, s, off) <= Room(hs2[s], off)
  BY DEF Demand
<1>1. toS[i].volume + Due(orders, m, s, off) <= Room(hs[s], off)
  BY DEF Demand
<1>2. Spare(orders, l, BooksOf(hs2), s, off) >= Spare(orders, m, BooksOf(hs), s, off)
  BY DEF KeepsSpare
<1>3. Room(BooksOf(hs)[s], off) = Room(hs[s], off) /\ Room(BooksOf(hs2)[s], off) = Room(hs2[s], off)
  BY DEF Room, BooksOf
<1>4. Room(hs[s], off) \in Int /\ Room(hs2[s], off) \in Int
  <2>1. hs[s].td \in Int /\ hs[s].yd \in Int
    BY HoldingTyped
  <2>2. hs2[s].td \in Int /\ hs2[s].yd \in Int
    BY HoldingTyped
  <2> QED BY <2>1, <2>2 DEF Room
<1>5. Due(orders, m, s, off) \in Nat /\ Due(orders, l, s, off) \in Nat
  BY ShareTyped
<1>6. toS[i].volume \in Nat
  <2>1. toS[i] \in OffsetOrders(split)
    BY DEF Unsent
  <2> QED BY <2>1, LeftOfOrder
<1> QED BY <1>1, <1>2, <1>3, <1>4, <1>5, <1>6 DEF Spare

LEMMA RoomOfBooks ==
  ASSUME NEW split, NEW orders, NEW l, NEW hs \in Holdings, Covered(split, orders, l, BooksOf(hs))
  PROVE  /\ NothingOwed(hs)
         /\ \A s \in Sides, off \in SplitOffsets(split) : Due(orders, l, s, off) <= Room(hs[s], off)
<1>1. \A s \in Sides : BooksOf(hs)[s].td = hs[s].td /\ BooksOf(hs)[s].yd = hs[s].yd
  BY DEF BooksOf
<1>2. \A s \in Sides, off \in SplitOffsets(split) : Room(BooksOf(hs)[s], off) = Room(hs[s], off)
  BY <1>1 DEF Room
<1> QED BY <1>1, <1>2 DEF Covered, NothingOwed

\* What is frozen anew covers what is due, once every order is registered.
LEMMA FrozenAnew ==
  ASSUME NEW split \in BOOLEAN, NEW orders \in Seq(OffsetOrders(split)), NEW l \in Lefts(orders),
         NEW book, BookOf(split, book, orders), Outlasts(book, l), NEW unreg, Registered(book, unreg, orders, l),
         unreg \in 0..Len(orders),
         NEW hs \in Holdings, Covered(split, orders, l, BooksOf(hs)), NEW f, f = CalculateFrozen(book, hs)
  PROVE  /\ f \in Holdings /\ FrozenWithin(f) /\ BooksOf(f) = BooksOf(hs)
         /\ unreg = 0 => FrozenCovers(split, f, orders, l)
<1>1. NothingOwed(hs) /\ \A s \in Sides, off \in SplitOffsets(split) : Due(orders, l, s, off) <= Room(hs[s], off)
  BY RoomOfBooks
<1>2. f \in Holdings /\ FrozenWithin(f) /\ BooksOf(f) = BooksOf(hs) /\ FrozenAre(f, hs, book, split)
  BY <1>1, FrozenCalculated
<1>3. ASSUME unreg = 0, NEW s \in Sides, NEW off \in SplitOffsets(split)
      PROVE  Due(orders, l, s, off) <= FrozenFor(f[s], off)
  <2>1. FrozenFor(f[s], off) = Lesser(Closing(book, s, off), Room(hs[s], off))
    BY <1>2 DEF FrozenAre
  <2>2. \A i \in 1..Len(orders) : i \in DOMAIN book \/ l[i] = 0
    BY <1>3 DEF Registered
  <2>3. Closing(book, s, off) >= Due(orders, l, s, off)
    BY <2>2, BookCovers
  <2> QED BY <1>1, <2>1, <2>3 DEF Lesser
<1> QED BY <1>2, <1>3 DEF FrozenCovers

---------------------------------------------------------------------------
(* What the holding is after a trade and after the position. *)
\* A trade arrives: the cap leaves frozen what is due after it.
LEMMA TradeStands ==
  ASSUME splitsToday \in BOOLEAN, NEW orders \in Seq(OffsetOrders(splitsToday)), NEW e \in Happenings(splitsToday),
         NEW m \in Lefts(orders), NEW l \in Lefts(orders), NEW hs \in Holdings, NEW hs2,
         NEW b \in [Sides -> SideBooks], TradeArrives(orders, e, m, l, BooksOf(hs), b),
         FrozenWithin(hs), Covered(splitsToday, orders, m, BooksOf(hs)),
         hs2 = [s \in Sides |-> Capped(Traded(hs, e.order, e.volume)[s])]
  PROVE  /\ hs2 \in Holdings /\ FrozenWithin(hs2) /\ BooksOf(hs2) = b
         /\ FrozenCovers(splitsToday, hs, orders, m) => FrozenCovers(splitsToday, hs2, orders, l)
<1>1. PICK o, id, after : o = e.order /\ id = e.id /\ after = Traded(hs, o, 1)
  OBVIOUS
<1>2. o \in OffsetOrders(splitsToday) /\ id \in 1..Len(orders) /\ SamePlan(o, orders[id]) /\ e.volume = 1
      /\ OneMore(orders, m, l, id) /\ b = UnitTraded(BooksOf(hs), o)
  BY <1>1 DEF TradeArrives, Happenings
<1>3. o.offset \in SplitOffsets(splitsToday) \cup {"OPEN"} /\ o.direction \in Sides /\ Closes(o.direction) \in Sides
  BY <1>2, LeftOfOrder
<1>4. /\ after \in Holdings
      /\ \A s \in Sides : after[s].td = b[s].td
      /\ \A s \in Sides : after[s].yd = b[s].yd
      /\ \A s \in Sides : after[s].tdFrozen = hs[s].tdFrozen
      /\ \A s \in Sides : after[s].ydFrozen = hs[s].ydFrozen
  BY <1>1, <1>2, HoldingTraded
<1>5. BooksOf(hs) \in [Sides -> SideBooks]
  BY BooksOfTyped
<1>6. Covered(splitsToday, orders, l, b)
  BY <1>5, TradeCovers
<1>7. hs2 = [s \in Sides |-> Capped(after[s])]
  BY <1>1, <1>2
<1>8. ASSUME NEW s \in Sides
      PROVE  /\ hs2[s] \in SideHoldings /\ hs2[s].td = b[s].td /\ hs2[s].yd = b[s].yd
             /\ hs2[s].tdFrozen = Lesser(hs[s].tdFrozen, b[s].td)
             /\ hs2[s].ydFrozen = Lesser(hs[s].ydFrozen, b[s].yd)
  <2>1. after[s] \in SideHoldings
    BY <1>4 DEF Holdings
  <2>2. hs2[s] = Capped(after[s])
    BY <1>7
  <2> QED BY <1>4, <2>1, <2>2, CappedIs
<1>9. hs2 \in Holdings
  BY <1>7, <1>8 DEF Holdings
<1>10. BooksOf(hs2) = b
  <2>1. \A s \in Sides : b[s] = [td |-> hs2[s].td, yd |-> hs2[s].yd]
    BY <1>8, BooksTyped
  <2>2. b = [s \in Sides |-> b[s]]
    OBVIOUS
  <2> QED BY <2>1, <2>2 DEF BooksOf
<1>11. ASSUME NEW s \in Sides
       PROVE  /\ hs[s].td \in Int /\ hs[s].yd \in Int /\ hs[s].tdFrozen \in Int /\ hs[s].ydFrozen \in Int
              /\ b[s].td \in Int /\ b[s].yd \in Int /\ 0 <= b[s].td /\ 0 <= b[s].yd
              /\ 0 <= hs[s].tdFrozen /\ hs[s].tdFrozen <= hs[s].td
              /\ 0 <= hs[s].ydFrozen /\ hs[s].ydFrozen <= hs[s].yd
  <2>1. hs[s].td \in Int /\ hs[s].yd \in Int /\ hs[s].tdFrozen \in Int /\ hs[s].ydFrozen \in Int
    BY HoldingTyped
  <2>2. b[s].td \in Int /\ b[s].yd \in Int
    BY BooksTyped
  <2>3. 0 <= b[s].td /\ 0 <= b[s].yd
    BY <1>6 DEF Covered
  <2> QED BY <2>1, <2>2, <2>3 DEF FrozenWithin
<1>12. FrozenWithin(hs2)
  <2>1. ASSUME NEW s \in Sides
        PROVE  /\ 0 <= hs2[s].tdFrozen /\ hs2[s].tdFrozen <= hs2[s].td
               /\ 0 <= hs2[s].ydFrozen /\ hs2[s].ydFrozen <= hs2[s].yd
    BY <1>8, <1>11 DEF Lesser
  <2> QED BY <2>1 DEF FrozenWithin
<1>13. ASSUME FrozenCovers(splitsToday, hs, orders, m), NEW s \in Sides, NEW off \in SplitOffsets(splitsToday)
       PROVE  Due(orders, l, s, off) <= FrozenFor(hs2[s], off)
  <2>1. PICK x, y : x = Due(orders, m, s, off) /\ y = Due(orders, l, s, off)
    OBVIOUS
  <2>2. y \in Nat /\ x = y + (IF Asks(o, s, off) THEN 1 ELSE 0)
    <3>1. Asks(o, s, off) <=> Asks(orders[id], s, off)
      BY <1>2 DEF SamePlan, Asks
    <3>2. x = y + (IF Asks(orders[id], s, off) THEN 1 ELSE 0)
      BY <1>2, <2>1, DueOne
    <3>3. y \in Nat
      BY <2>1, ShareTyped
    <3> QED BY <3>1, <3>2, <3>3
  <2>3. x <= FrozenFor(hs[s], off)
    BY <1>13, <2>1 DEF FrozenCovers
  <2>4. y <= Room(b[s], off)
    BY <1>6, <2>1 DEF Covered
  <2>5. PICK td, yd, tf, yf, td2, yd2 :
          /\ td = hs[s].td /\ yd = hs[s].yd /\ tf = hs[s].tdFrozen /\ yf = hs[s].ydFrozen
          /\ td2 = b[s].td /\ yd2 = b[s].yd
    OBVIOUS
  <2>6. /\ td \in Int /\ yd \in Int /\ tf \in Nat /\ yf \in Nat /\ td2 \in Nat /\ yd2 \in Nat
        /\ tf <= td /\ yf <= yd
    BY <1>11, <2>5
  <2>7. hs2[s].tdFrozen = Lesser(tf, td2) /\ hs2[s].ydFrozen = Lesser(yf, yd2)
    BY <1>8, <2>5
  <2>8. CASE off = "CLOSETODAY"
    <3>1. x <= tf /\ y <= td2 /\ FrozenFor(hs2[s], off) = Lesser(tf, td2)
      BY <2>3, <2>4, <2>5, <2>7, <2>8 DEF FrozenFor, Room
    <3> QED BY <2>1, <2>2, <2>6, <3>1 DEF Lesser
  <2>9. CASE off = "CLOSEYESTERDAY"
    <3>1. x <= yf /\ y <= yd2 /\ FrozenFor(hs2[s], off) = Lesser(yf, yd2)
      BY <2>3, <2>4, <2>5, <2>7, <2>9 DEF FrozenFor, Room
    <3> QED BY <2>1, <2>2, <2>6, <3>1 DEF Lesser
  <2>10. CASE off = "CLOSE"
    <3>1. x <= tf + yf /\ y <= td2 + yd2 /\ FrozenFor(hs2[s], off) = Lesser(tf, td2) + Lesser(yf, yd2)
      BY <2>3, <2>4, <2>5, <2>7, <2>10 DEF FrozenFor, Room
    <3>2. b[s] = IF o.offset = "OPEN"
                 THEN IF s = o.direction THEN [td |-> td + 1, yd |-> yd] ELSE [td |-> td, yd |-> yd]
                 ELSE IF s = Closes(o.direction) THEN UnitClosed([td |-> td, yd |-> yd], o.offset)
                 ELSE [td |-> td, yd |-> yd]
      BY <1>2, <2>5 DEF UnitTraded, BooksOf
    <3>3. CASE o.offset = "OPEN" \/ s # Closes(o.direction)
      <4>1. td2 >= td /\ yd2 = yd
        BY <2>5, <2>6, <3>2, <3>3
      <4>2. Lesser(tf, td2) = tf /\ Lesser(yf, yd2) = yf
        BY <2>6, <4>1 DEF Lesser
      <4> QED BY <2>1, <2>2, <2>6, <3>1, <4>2
    <3>4. CASE o.offset # "OPEN" /\ s = Closes(o.direction)
      <4>1. o.offset = "CLOSE" /\ Asks(o, s, off)
        BY <1>3, <2>10, <3>4 DEF SplitOffsets, Asks
      <4>2. b[s] = UnitClosed([td |-> td, yd |-> yd], "CLOSE")
        BY <3>2, <3>4, <4>1
      <4>3. CASE td >= 1
        <5>1. td2 = td - 1 /\ yd2 = yd
          BY <2>5, <4>2, <4>3 DEF UnitClosed
        <5>2. Lesser(tf, td2) >= tf - 1 /\ Lesser(yf, yd2) = yf /\ Lesser(tf, td2) \in Int
          BY <2>6, <5>1 DEF Lesser
        <5> QED BY <2>1, <2>2, <2>6, <3>1, <4>1, <5>2
      <4>4. CASE ~(td >= 1)
        <5>1. td2 = 0 /\ yd2 = yd - (1 - td)
          BY <2>5, <4>2, <4>4 DEF UnitClosed
        <5>2. td = 0 /\ tf = 0 /\ yd2 = yd - 1
          BY <2>6, <4>4, <5>1
        <5>3. Lesser(tf, td2) = 0 /\ Lesser(yf, yd2) >= yf - 1 /\ Lesser(yf, yd2) \in Int
          BY <2>6, <5>1, <5>2 DEF Lesser
        <5> QED BY <2>1, <2>2, <2>6, <3>1, <4>1, <5>2, <5>3
      <4> QED BY <2>6, <4>3, <4>4
    <3> QED BY <3>3, <3>4
  <2> QED BY <2>8, <2>9, <2>10 DEF SplitOffsets
<1> QED BY <1>9, <1>10, <1>12, <1>13 DEF FrozenCovers

PositionTaken(hs2, hs) == hs2 = [hs EXCEPT !["LONG"].td = HeldTd, !["LONG"].yd = HeldYd]

\* The position arrives: nothing was frozen before.
LEMMA PositionStands ==
  ASSUME NEW split \in BOOLEAN, NEW orders \in Seq(OffsetOrders(split)),
         NEW l \in Lefts(orders), NEW hs \in Holdings, NEW hs2, NEW m,
         NEW b \in [Sides -> SideBooks], NEW e, PositionArrives(e, m, l, BooksOf(hs), b),
         FrozenWithin(hs), PositionTaken(hs2, hs)
  PROVE  /\ hs2 \in Holdings /\ FrozenWithin(hs2) /\ BooksOf(hs2) = b
         /\ FrozenCovers(split, hs, orders, l) => FrozenCovers(split, hs2, orders, l)
<1>1. HeldTd \in Nat /\ HeldYd \in Nat /\ BooksOf(hs) = NoBooks /\ b = FirstBooks
  BY OffsetAssumption DEF PositionArrives
<1>2. \A s \in Sides : hs[s].td = 0 /\ hs[s].yd = 0
  <2>1. \A s \in Sides : BooksOf(hs)[s].td = hs[s].td /\ BooksOf(hs)[s].yd = hs[s].yd
    BY DEF BooksOf
  <2> QED BY <1>1, <2>1 DEF NoBooks
<1>3. \A s \in Sides : hs[s].tdFrozen = 0 /\ hs[s].ydFrozen = 0
  <2>1. ASSUME NEW s \in Sides PROVE hs[s].tdFrozen = 0 /\ hs[s].ydFrozen = 0
    <3>1. hs[s].tdFrozen \in Int /\ hs[s].ydFrozen \in Int
      BY HoldingTyped
    <3> QED BY <1>2, <3>1 DEF FrozenWithin
  <2> QED BY <2>1
<1>4. PICK g : g = [td |-> HeldTd, yd |-> HeldYd, tdFrozen |-> 0, ydFrozen |-> 0]
  OBVIOUS
<1>5. "LONG" \in Sides /\ hs["LONG"] \in SideHoldings
  BY HoldingTyped DEF Sides
<1>6. hs["LONG"] = [td |-> 0, yd |-> 0, tdFrozen |-> 0, ydFrozen |-> 0]
  BY <1>2, <1>3, <1>5 DEF SideHoldings
<1>7. hs2 = [hs EXCEPT !["LONG"] = g]
  <2>1. PICK h1, r, q : /\ h1 = [hs EXCEPT !["LONG"].td = HeldTd] /\ r = hs["LONG"]
                        /\ q = [r EXCEPT !.td = HeldTd]
    OBVIOUS
  <2>2. q = [td |-> HeldTd, yd |-> 0, tdFrozen |-> 0, ydFrozen |-> 0]
    BY <1>6, <2>1
  <2>3. h1 = [hs EXCEPT !["LONG"] = q]
    BY <2>1
  <2>4. hs \in [Sides -> SideHoldings]
    BY DEF Holdings
  <2>5. h1["LONG"] = q /\ DOMAIN h1 = Sides /\ h1 = [s \in Sides |-> h1[s]]
        /\ \A s \in Sides : s # "LONG" => h1[s] = hs[s]
    BY <1>5, <2>3, <2>4
  <2>6. hs2 = [h1 EXCEPT !["LONG"].yd = HeldYd]
    BY <2>1 DEF PositionTaken
  <2>7. PICK p : p = [q EXCEPT !.yd = HeldYd]
    OBVIOUS
  <2>8. p = g
    BY <1>4, <2>2, <2>7
  <2>9. hs2 = [h1 EXCEPT !["LONG"] = p]
    BY <2>5, <2>6, <2>7
  <2>10. hs2 = [s \in Sides |-> IF s = "LONG" THEN g ELSE hs[s]]
    BY <1>5, <2>5, <2>8, <2>9
  <2> QED BY <1>5, <2>4, <2>10
<1>8. g \in SideHoldings
  BY <1>1, <1>4 DEF SideHoldings
<1>9. hs2 \in Holdings /\ hs2["LONG"] = g /\ \A s \in Sides : s # "LONG" => hs2[s] = hs[s]
  BY <1>5, <1>7, <1>8 DEF Holdings
<1>10. \A s \in Sides : hs2[s].tdFrozen = 0 /\ hs2[s].ydFrozen = 0 /\ hs2[s].td >= 0 /\ hs2[s].yd >= 0
  BY <1>1, <1>2, <1>3, <1>4, <1>9
<1>11. FrozenWithin(hs2)
  BY <1>10 DEF FrozenWithin
<1>12. BooksOf(hs2) = b
  BY <1>1, <1>2, <1>4, <1>9 DEF BooksOf, FirstBooks
<1>13. \A s \in Sides, off \in SplitOffsets(split) : FrozenFor(hs2[s], off) = FrozenFor(hs[s], off)
  BY <1>3, <1>10 DEF FrozenFor
<1> QED BY <1>9, <1>11, <1>12, <1>13 DEF FrozenCovers

---------------------------------------------------------------------------
(* The steps of the converter and its caller. *)
UpdatedBook(book, id, o, isActive) ==
  [i \in IF isActive THEN DOMAIN book \cup {id} ELSE DOMAIN book \ {id} |-> IF i = id THEN o ELSE book[i]]

LEMMA BookUpdated ==
  ASSUME NEW split \in BOOLEAN, NEW orders \in Seq(OffsetOrders(split)), NEW l \in Lefts(orders), NEW book,
         BookOf(split, book, orders), Outlasts(book, l), NEW unreg, Registered(book, unreg, orders, l),
         NEW id \in 1..Len(orders), NEW o \in OffsetOrders(split), SamePlan(o, orders[id]),
         NEW isActive \in BOOLEAN, IF isActive THEN Remaining(o) >= l[id] ELSE l[id] = 0,
         NEW book2, book2 = UpdatedBook(book, id, o, isActive)
  PROVE  /\ BookOf(split, book2, orders) /\ Outlasts(book2, l) /\ Registered(book2, unreg, orders, l)
         /\ isActive /\ unreg = id => Registered(book2, 0, orders, l)
<1>1. DOMAIN book2 = IF isActive THEN DOMAIN book \cup {id} ELSE DOMAIN book \ {id}
  BY DEF UpdatedBook
<1>2. \A i \in DOMAIN book2 : book2[i] = IF i = id THEN o ELSE book[i]
  BY <1>1 DEF UpdatedBook
<1>3. \A i \in DOMAIN book2 : i # id => i \in DOMAIN book
  <2> SUFFICES ASSUME NEW i \in DOMAIN book2, i # id PROVE i \in DOMAIN book
    OBVIOUS
  <2>1. PICK D, E : D = DOMAIN book /\ E = DOMAIN book2
    OBVIOUS
  <2>2. E = IF isActive THEN D \cup {id} ELSE D \ {id}
    BY <1>1, <2>1
  <2>3. i \in E
    BY <2>1
  <2>4. i \in D
    BY <2>2, <2>3
  <2> QED BY <2>1, <2>4
<1>4. BookOf(split, book2, orders)
  <2>1. DOMAIN book2 \subseteq 1..Len(orders)
    BY <1>3 DEF BookOf
  <2> QED BY <1>2, <1>3, <2>1 DEF BookOf, SamePlan
<1>5. Outlasts(book2, l)
  <2>1. CASE isActive
    <3>1. Remaining(o) >= l[id]
      BY <2>1
    <3> QED BY <1>2, <1>3, <3>1 DEF Outlasts
  <2>2. CASE ~isActive
    <3>1. \A i \in DOMAIN book2 : i # id /\ i \in DOMAIN book
      BY <1>1, <2>2
    <3> QED BY <1>2, <3>1 DEF Outlasts
  <2> QED BY <2>1, <2>2
<1>6. Registered(book2, unreg, orders, l)
  BY <1>1 DEF Registered
<1>7. isActive /\ unreg = id => Registered(book2, 0, orders, l)
  BY <1>1 DEF Registered
<1> QED BY <1>4, <1>5, <1>6, <1>7

\* An event arrives.
LEMMA DeliverKeeps == ASSUME OffsetInv, Deliver PROVE OffsetInv'
<1>1. PICK split, hs, book, toS, unreg, acct, orders, evs :
        /\ split = splitsToday /\ hs = holding /\ book = holdingOrders /\ toS = toSend
        /\ unreg = unregistered /\ acct = account /\ orders = placed /\ evs = events
  OBVIOUS
<1>2. OffsetTyped(split, hs, book, toS, unreg, acct, orders, evs)
  BY <1>1 DEF OffsetInv
<1>3. PICK left, acc : InFlight(split, hs, acct, orders, evs, left, acc)
                       /\ StandsAt(split, hs, book, toS, unreg, orders, left[0])
  BY <1>1 DEF OffsetInv
<1>4. evs # <<>> /\ events' = Tail(evs)
      /\ splitsToday' = split /\ toSend' = toS /\ unregistered' = unreg /\ account' = acct /\ placed' = orders
  BY <1>1 DEF Deliver, callerVars
<1>5. PICK e, m, l, b : e = evs[1] /\ m = left[0] /\ l = left[1] /\ b = acc[1]
  OBVIOUS
<1>6. /\ split \in BOOLEAN /\ orders \in Seq(OffsetOrders(split)) /\ evs \in Seq(Happenings(split))
      /\ hs \in Holdings /\ acct \in [Sides -> SideBooks] /\ BookOf(split, book, orders)
      /\ Unsent(split, toS) /\ unreg \in 0..Len(orders)
  BY <1>2 DEF OffsetTyped
<1>7. 0 \in Places(evs) /\ 0 # Len(evs) /\ 1 \in Places(evs) /\ e \in Happenings(split) /\ Head(evs) = e
  <2>1. Len(evs) \in Nat /\ Len(evs) >= 1 /\ evs[1] \in Happenings(split) /\ Head(evs) = evs[1]
    BY <1>4, <1>6
  <2> QED BY <1>5, <2>1 DEF Places
<1>8. acc[0] = BooksOf(hs)
  BY <1>3 DEF InFlight, Ends
<1>9. m \in Lefts(orders) /\ l \in Lefts(orders) /\ b \in [Sides -> SideBooks]
      /\ Arrives(orders, e, m, l, BooksOf(hs), b)
  <2>1. left \in [Places(evs) -> Lefts(orders)] /\ acc \in [Places(evs) -> [Sides -> SideBooks]]
    BY <1>3 DEF InFlight, Flow
  <2>2. Arrives(orders, evs[0 + 1], left[0], left[0 + 1], acc[0], acc[0 + 1])
    BY <1>3, <1>7 DEF InFlight, Flow
  <2> QED BY <1>5, <1>7, <1>8, <2>1, <2>2
<1>10. /\ FrozenWithin(hs) /\ Covered(split, orders, m, BooksOf(hs)) /\ Demand(split, hs, toS, orders, m)
       /\ Outlasts(book, m) /\ Registered(book, unreg, orders, m)
       /\ unreg = 0 => FrozenCovers(split, hs, orders, m)
  BY <1>3, <1>5 DEF StandsAt
<1>11. Covered(split, orders, l, b) /\ KeepsSpare(split, orders, m, l, BooksOf(hs), b)
  <2>1. BooksOf(hs) \in [Sides -> SideBooks]
    BY <1>6, BooksOfTyped
  <2> QED BY <1>6, <1>7, <1>9, <1>10, <2>1, ArrivalCovers
<1>12. ASSUME NEW hs2 \in Holdings, NEW book2, holding' = hs2, holdingOrders' = book2,
              FrozenWithin(hs2), BooksOf(hs2) = b, BookOf(split, book2, orders), Outlasts(book2, l),
              Registered(book2, unreg, orders, l), unreg = 0 => FrozenCovers(split, hs2, orders, l)
       PROVE  OffsetInv'
  <2>1. PICK left2, acc2 : InFlight(split, hs2, acct, orders, Tail(evs), left2, acc2) /\ left2[0] = l
    BY <1>3, <1>4, <1>5, <1>6, <1>12, FlowShifts
  <2>2. Demand(split, hs2, toS, orders, l)
    BY <1>6, <1>9, <1>10, <1>11, <1>12, DemandStands
  <2>3. StandsAt(split, hs2, book2, toS, unreg, orders, left2[0])
    BY <1>9, <1>11, <1>12, <2>1, <2>2 DEF StandsAt
  <2>4. OffsetTyped(split, hs2, book2, toS, unreg, acct, orders, Tail(evs))
    <3>1. Tail(evs) \in Seq(Happenings(split))
      BY <1>4, <1>6
    <3> QED BY <1>6, <1>12, <3>1 DEF OffsetTyped
  <2>5. OffsetTyped(splitsToday', holding', holdingOrders', toSend', unregistered', account', placed', events')
    BY <1>4, <1>12, <2>4
  <2>6. /\ InFlight(splitsToday', holding', account', placed', events', left2, acc2)
        /\ StandsAt(splitsToday', holding', holdingOrders', toSend', unregistered', placed', left2[0])
    BY <1>4, <1>12, <2>1, <2>3
  <2> QED BY <2>5, <2>6 DEF OffsetInv
<1>13. /\ Outlasts(book, l) /\ Registered(book, unreg, orders, l)
  <2>1. \A i \in 1..Len(orders) : l[i] \in Nat /\ m[i] \in Nat
    BY <1>9 DEF Lefts
  <2>2. \A i \in 1..Len(orders) : l[i] <= m[i]
    BY <1>9, <2>1 DEF Arrives, PositionArrives, TradeArrives, OrderArrives, OneMore
  <2>3. \A i \in DOMAIN book : i \in 1..Len(orders) /\ Remaining(book[i]) \in Nat
    BY <1>6, LeftOfOrder DEF BookOf
  <2>4. \A i \in 1..Len(orders) : orders[i].volume \in Nat
    BY <1>6, LeftOfOrder
  <2>5. Outlasts(book, l)
    BY <1>10, <2>1, <2>2, <2>3 DEF Outlasts
  <2>6. Registered(book, unreg, orders, l)
    BY <1>10, <2>1, <2>2, <2>4 DEF Registered
  <2> QED BY <2>5, <2>6
<1>14. CASE PositionArrives(e, m, l, BooksOf(hs), b)
  <2>1. e.kind = "position" /\ e.side = "LONG" /\ e.td = HeldTd /\ e.yd = HeldYd /\ m = l
    BY <1>14 DEF PositionArrives
  <2>2. UpdatePosition(e) /\ holdingOrders' = book
    BY <1>1, <1>7, <2>1 DEF Deliver
  <2>3. PICK hs2 : hs2 = holding'
    OBVIOUS
  <2>4. PositionTaken(hs2, hs)
    BY <1>1, <2>1, <2>2, <2>3 DEF UpdatePosition, PositionTaken
  <2>5. /\ hs2 \in Holdings /\ FrozenWithin(hs2) /\ BooksOf(hs2) = b
        /\ FrozenCovers(split, hs, orders, l) => FrozenCovers(split, hs2, orders, l)
    BY <1>6, <1>9, <1>10, <1>14, <2>4, PositionStands
  <2> QED BY <1>6, <1>10, <1>12, <1>13, <2>1, <2>2, <2>3, <2>5
<1>15. CASE TradeArrives(orders, e, m, l, BooksOf(hs), b)
  <2>1. e.kind = "trade" /\ e.volume = 1
    BY <1>15 DEF TradeArrives
  <2>2. UpdateTrade(e) /\ holdingOrders' = book
    BY <1>1, <1>7, <2>1 DEF Deliver
  <2>3. PICK hs2 : hs2 = holding'
    OBVIOUS
  <2>4. hs2 = [s \in Sides |-> Capped(Traded(hs, e.order, e.volume)[s])]
    BY <1>1, <2>2, <2>3 DEF UpdateTrade
  <2>5. /\ hs2 \in Holdings /\ FrozenWithin(hs2) /\ BooksOf(hs2) = b
        /\ FrozenCovers(split, hs, orders, m) => FrozenCovers(split, hs2, orders, l)
    <3>1. split = splitsToday
      BY <1>1
    <3> QED BY <1>6, <1>7, <1>9, <1>10, <1>15, <2>4, <3>1, TradeStands
  <2> QED BY <1>6, <1>10, <1>12, <1>13, <2>2, <2>3, <2>5
<1>16. CASE OrderArrives(orders, e, m, l, BooksOf(hs), b)
  <2>1. /\ e.kind = "order" /\ e.id \in 1..Len(orders) /\ SamePlan(e.order, orders[e.id]) /\ m = l
        /\ b = BooksOf(hs) /\ IF e.active THEN Remaining(e.order) >= l[e.id] ELSE l[e.id] = 0
    BY <1>16 DEF OrderArrives
  <2>2. e.order \in OffsetOrders(split) /\ e.active \in BOOLEAN
    BY <1>7, <2>1 DEF Happenings
  <2>3. UpdateOrder(e.id, e.order, e.active)
    BY <1>1, <1>7, <2>1 DEF Deliver
  <2>4. PICK hs2, book2, id, o, isActive :
          hs2 = holding' /\ book2 = holdingOrders' /\ id = e.id /\ o = e.order /\ isActive = e.active
    OBVIOUS
  <2>5. book2 = UpdatedBook(book, id, o, isActive) /\ hs2 = CalculateFrozen(book2, hs)
    BY <1>1, <2>3, <2>4 DEF UpdateOrder, UpdatedBook
  <2>6. id \in 1..Len(orders) /\ o \in OffsetOrders(split) /\ isActive \in BOOLEAN /\ SamePlan(o, orders[id])
        /\ IF isActive THEN Remaining(o) >= l[id] ELSE l[id] = 0
    BY <2>1, <2>2, <2>4
  <2>7. BookOf(split, book2, orders) /\ Outlasts(book2, l) /\ Registered(book2, unreg, orders, l)
    BY <1>6, <1>9, <1>13, <2>5, <2>6, BookUpdated
  <2>8. Covered(split, orders, l, BooksOf(hs))
    BY <1>11, <2>1
  <2>9. /\ hs2 \in Holdings /\ FrozenWithin(hs2) /\ BooksOf(hs2) = BooksOf(hs)
        /\ unreg = 0 => FrozenCovers(split, hs2, orders, l)
    BY <1>6, <1>9, <2>5, <2>7, <2>8, FrozenAnew
  <2> QED BY <1>12, <2>1, <2>4, <2>7, <2>9
<1> QED BY <1>9, <1>14, <1>15, <1>16 DEF Arrives

\* The caller converts: what fits what is not frozen fits what is not due.
LEMMA ConvertKeeps ==
  ASSUME OffsetInv, NEW direction \in Sides, NEW v \in RequestVolumes, NEW mode \in {"split", "lock", "net"},
         ConvertOrderRequest(direction, v, mode)
  PROVE  OffsetInv'
<1>1. PICK split, hs, orders, c, h, reqs, toS :
        /\ split = splitsToday /\ hs = holding /\ orders = placed /\ c = Closes(direction) /\ h = hs[c]
        /\ reqs = (CASE mode = "lock" -> ConvertLock(h, v)
                     [] mode = "net" -> ConvertNet(h, v)
                     [] OTHER -> ConvertShfe(h, v))
        /\ toS = [i \in 1..Len(reqs) |-> [direction |-> direction, offset |-> reqs[i].offset,
                                          volume |-> reqs[i].volume, traded |-> 0, live |-> TRUE]]
  OBVIOUS
<1>2. /\ unregistered = 0 /\ toSend' = toS /\ (mode = "split" => splitsToday)
      /\ UNCHANGED <<splitsToday, holding, holdingOrders, unregistered, account, placed, events>>
  BY <1>1 DEF ConvertOrderRequest, converterVars, exchangeVars
<1>3. OffsetTyped(split, hs, holdingOrders, toSend, unregistered, account, orders, events)
  BY <1>1 DEF OffsetInv
<1>4. PICK left, acc : InFlight(split, hs, account, orders, events, left, acc)
                       /\ StandsAt(split, hs, holdingOrders, toSend, unregistered, orders, left[0])
  BY <1>1 DEF OffsetInv
<1>5. PICK l : l = left[0]
  OBVIOUS
<1>6. /\ split \in BOOLEAN /\ orders \in Seq(OffsetOrders(split)) /\ hs \in Holdings /\ l \in Lefts(orders)
      /\ FrozenWithin(hs) /\ FrozenCovers(split, hs, orders, l)
  BY <1>2, <1>3, <1>4, <1>5 DEF OffsetTyped, StandsAt
<1>7. c \in Sides /\ v \in Nat
  BY <1>1, OffsetAssumption DEF Closes, Sides
<1>8. Sound(h)
  BY <1>1, <1>6, <1>7, HoldingTyped DEF Sound, FrozenWithin
<1>9. PICK F : F = SplitOffsets(split) \cup {"OPEN"}
  OBVIOUS
<1>10. Fits(h, reqs, F)
  <2>1. CASE mode = "lock"
    <3>1. reqs = ConvertLock(h, v)
      BY <1>1, <2>1
    <3> QED BY <1>1, <1>6, <1>7, <1>8, <1>9, <3>1, LockFits
  <2>2. CASE mode = "net"
    <3>1. reqs = ConvertNet(h, v)
      BY <1>1, <2>2
    <3> QED BY <1>1, <1>6, <1>7, <1>8, <1>9, <3>1, NetFits
  <2>3. CASE mode = "split"
    <3>1. reqs = ConvertShfe(h, v)
      BY <1>1, <2>3
    <3>2. F = {"CLOSETODAY", "CLOSEYESTERDAY", "OPEN"}
      BY <1>1, <1>2, <1>9, <2>3 DEF SplitOffsets
    <3> QED BY <1>7, <1>8, <3>1, <3>2, ShfeFits
  <2> QED BY <2>1, <2>2, <2>3
<1>11. Len(reqs) \in Nat /\ \A i \in 1..Len(reqs) : reqs[i].offset \in F /\ reqs[i].volume \in Nat \ {0}
  <2>1. reqs \in Seq(Requests(F))
    BY <1>10 DEF Fits
  <2>2. Len(reqs) \in Nat /\ \A i \in 1..Len(reqs) : reqs[i] \in Requests(F)
    BY <2>1
  <2> QED BY <2>2 DEF Requests
<1>12. /\ Len(toS) = Len(reqs) /\ toS \in Seq(OffsetOrders(split))
       /\ \A i \in 1..Len(reqs) : /\ toS[i].direction = direction /\ toS[i].offset = reqs[i].offset
                                  /\ toS[i].volume = reqs[i].volume /\ toS[i].traded = 0 /\ toS[i].live
  <2>1. \A i \in 1..Len(reqs) : toS[i] = [direction |-> direction, offset |-> reqs[i].offset,
                                          volume |-> reqs[i].volume, traded |-> 0, live |-> TRUE]
    BY <1>1
  <2>2. ASSUME NEW i \in 1..Len(reqs) 
        PROVE  /\ toS[i] \in OffsetOrders(split) /\ toS[i].direction = direction /\ toS[i].offset = reqs[i].offset
               /\ toS[i].volume = reqs[i].volume /\ toS[i].traded = 0 /\ toS[i].live
    <3>1. reqs[i].offset \in SplitOffsets(split) \cup {"OPEN"} /\ reqs[i].volume \in Nat
      BY <1>9, <1>11
    <3>2. PICK x, y : x = reqs[i].offset /\ y = reqs[i].volume
      OBVIOUS
    <3>3. toS[i] = [direction |-> direction, offset |-> x, volume |-> y, traded |-> 0, live |-> TRUE]
      BY <2>1, <3>2
    <3>4. 0 <= y
      BY <3>1, <3>2
    <3>5. toS[i] \in OffsetOrders(split)
      BY <3>1, <3>2, <3>3, <3>4 DEF OffsetOrders
    <3> QED BY <3>2, <3>3, <3>5
  <2>3. toS = [i \in 1..Len(reqs) |-> toS[i]]
    BY <1>1
  <2>4. toS \in [1..Len(reqs) -> OffsetOrders(split)]
    BY <2>2, <2>3
  <2>5. toS \in Seq(OffsetOrders(split)) /\ Len(toS) = Len(reqs)
    BY <1>11, <2>4
  <2> QED BY <2>2, <2>5
<1>13. Unsent(split, toS)
  <2>1. \A i, j \in 1..Len(reqs) : i # j => reqs[i].offset # reqs[j].offset
    BY <1>10 DEF Fits
  <2>2. \A i \in 1..Len(reqs) : toS[i].volume > 0
    BY <1>11, <1>12
  <2> QED BY <1>12, <2>1, <2>2 DEF Unsent
<1>14. Demand(split, hs, toS, orders, l)
  <2> SUFFICES ASSUME NEW i \in 1..Len(toS), NEW s \in Sides, NEW off \in SplitOffsets(split), Asks(toS[i], s, off)
               PROVE  toS[i].volume + Due(orders, l, s, off) <= Room(hs[s], off)
    BY DEF Demand
  <2>1. i \in 1..Len(reqs)
    BY <1>12
  <2>2. s = c /\ reqs[i].offset = off /\ toS[i].volume = reqs[i].volume /\ off # "OPEN"
    BY <1>1, <1>12, <2>1 DEF Asks, SplitOffsets
  <2>3. reqs[i].volume <= Avail(h, off)
    BY <1>10, <2>1, <2>2 DEF Fits
  <2>4. Due(orders, l, s, off) <= FrozenFor(h, off)
    BY <1>1, <1>6, <2>2 DEF FrozenCovers
  <2>5. Due(orders, l, s, off) \in Nat /\ reqs[i].volume \in Nat
    BY <1>6, <1>11, <2>1, ShareTyped
  <2>6. Room(h, off) \in Int /\ FrozenFor(h, off) \in Int
    <3>1. h.td \in Int /\ h.yd \in Int /\ h.tdFrozen \in Int /\ h.ydFrozen \in Int
      BY <1>8 DEF Sound, SideHoldings
    <3> QED BY <3>1 DEF Room, FrozenFor
  <2>7. hs[s] = h
    BY <1>1, <2>2
  <2> QED BY <2>2, <2>3, <2>4, <2>5, <2>6, <2>7 DEF Avail
<1>15. OffsetTyped(split, hs, holdingOrders, toS, unregistered, account, orders, events)
  BY <1>3, <1>13 DEF OffsetTyped
<1>16. StandsAt(split, hs, holdingOrders, toS, unregistered, orders, left[0])
  BY <1>4, <1>5, <1>14 DEF StandsAt
<1>17. OffsetTyped(splitsToday', holding', holdingOrders', toSend', unregistered', account', placed', events')
  BY <1>1, <1>2, <1>15
<1>18. /\ InFlight(splitsToday', holding', account', placed', events', left, acc)
       /\ StandsAt(splitsToday', holding', holdingOrders', toSend', unregistered', placed', left[0])
  BY <1>1, <1>2, <1>4, <1>16
<1> QED BY <1>17, <1>18 DEF OffsetInv

\* Registering an order counts it in full.
LEMMA RegisterKeeps == ASSUME OffsetInv, UpdateOrderRequest PROVE OffsetInv'
<1>1. PICK split, hs, book, orders, id : split = splitsToday /\ hs = holding /\ book = holdingOrders
                                         /\ orders = placed /\ id = unregistered
  OBVIOUS
<1>2. /\ id # 0 /\ unregistered' = 0
      /\ UpdateOrder(id, [orders[id] EXCEPT !.traded = 0, !.live = TRUE], TRUE)
      /\ UNCHANGED <<splitsToday, toSend, account, placed, events>>
  BY <1>1 DEF UpdateOrderRequest, exchangeVars
<1>3. OffsetTyped(split, hs, book, toSend, id, account, orders, events)
  BY <1>1 DEF OffsetInv
<1>4. PICK left, acc : InFlight(split, hs, account, orders, events, left, acc)
                       /\ StandsAt(split, hs, book, toSend, id, orders, left[0])
  BY <1>1 DEF OffsetInv
<1>5. PICK l, o, hs2, book2 :
        /\ l = left[0] /\ o = [orders[id] EXCEPT !.traded = 0, !.live = TRUE]
        /\ hs2 = holding' /\ book2 = holdingOrders'
  OBVIOUS
<1>6. /\ split \in BOOLEAN /\ orders \in Seq(OffsetOrders(split)) /\ events \in Seq(Happenings(split))
      /\ hs \in Holdings /\ BookOf(split, book, orders) /\ id \in 0..Len(orders)
  BY <1>3 DEF OffsetTyped
<1>7. /\ l \in Lefts(orders) /\ Covered(split, orders, l, BooksOf(hs)) /\ Demand(split, hs, toSend, orders, l)
      /\ Outlasts(book, l) /\ Registered(book, id, orders, l)
  BY <1>4, <1>5 DEF StandsAt
<1>8. id \in 1..Len(orders) /\ orders[id] \in OffsetOrders(split)
  BY <1>2, <1>6
<1>9. o = [direction |-> orders[id].direction, offset |-> orders[id].offset, volume |-> orders[id].volume,
           traded |-> 0, live |-> TRUE]
  BY <1>5, <1>8 DEF OffsetOrders
<1>10. o \in OffsetOrders(split) /\ SamePlan(o, orders[id]) /\ Remaining(o) >= l[id]
  <2>1. /\ orders[id].direction \in Sides /\ orders[id].offset \in SplitOffsets(split) \cup {"OPEN"}
        /\ orders[id].volume \in Nat
    <3>1. PICK p : p = orders[id]
      OBVIOUS
    <3>2. p \in OffsetOrders(split)
      BY <1>8, <3>1
    <3>3. p.direction \in Sides /\ p.offset \in SplitOffsets(split) \cup {"OPEN"} /\ p.volume \in Nat
      BY <1>6, <3>2, LeftOfOrder
    <3> QED BY <3>1, <3>3
  <2>2. o \in OffsetOrders(split)
    BY <1>9, <2>1 DEF OffsetOrders
  <2>3. Remaining(o) = orders[id].volume
    BY <1>9, <2>1 DEF Remaining
  <2>4. l[id] <= orders[id].volume
    BY <1>7, <1>8 DEF Registered
  <2> QED BY <1>7, <1>8, <1>9, <2>1, <2>2, <2>3, <2>4 DEF SamePlan, Lefts
<1>11. book2 = UpdatedBook(book, id, o, TRUE) /\ hs2 = CalculateFrozen(book2, hs)
  BY <1>1, <1>2, <1>5 DEF UpdateOrder, UpdatedBook
<1>12. BookOf(split, book2, orders) /\ Outlasts(book2, l) /\ Registered(book2, 0, orders, l)
  BY <1>6, <1>7, <1>8, <1>10, <1>11, BookUpdated
<1>13. hs2 \in Holdings /\ FrozenWithin(hs2) /\ BooksOf(hs2) = BooksOf(hs) /\ FrozenCovers(split, hs2, orders, l)
  <2>1. PICK none : none = 0
    OBVIOUS
  <2>2. none \in 0..Len(orders) /\ Registered(book2, none, orders, l)
    BY <1>6, <1>12, <2>1
  <2>3. /\ hs2 \in Holdings /\ FrozenWithin(hs2) /\ BooksOf(hs2) = BooksOf(hs)
        /\ none = 0 => FrozenCovers(split, hs2, orders, l)
    <3>1. hs2 = CalculateFrozen(book2, hs)
      BY <1>11
    <3>2. BookOf(split, book2, orders) /\ Outlasts(book2, l)
      BY <1>12
    <3> QED BY <1>6, <1>7, <2>2, <3>1, <3>2, FrozenAnew
  <2> QED BY <2>1, <2>3
<1>14. Demand(split, hs2, toSend, orders, l)
  <2>1. \A s \in Sides : hs2[s].td = hs[s].td /\ hs2[s].yd = hs[s].yd
    <3>1. \A s \in Sides : BooksOf(hs)[s].td = hs[s].td /\ BooksOf(hs)[s].yd = hs[s].yd
      BY DEF BooksOf
    <3>2. \A s \in Sides : BooksOf(hs2)[s].td = hs2[s].td /\ BooksOf(hs2)[s].yd = hs2[s].yd
      BY DEF BooksOf
    <3> QED BY <1>13, <3>1, <3>2
  <2>2. \A s \in Sides, off \in SplitOffsets(split) : Room(hs2[s], off) = Room(hs[s], off)
    BY <2>1 DEF Room
  <2> QED BY <1>7, <2>2 DEF Demand
<1>15. StandsAt(split, hs2, book2, toSend, 0, orders, left[0])
  BY <1>5, <1>7, <1>12, <1>13, <1>14 DEF StandsAt
<1>16. InFlight(split, hs2, account, orders, events, left, acc)
  BY <1>4, <1>13 DEF InFlight, Ends
<1>17. OffsetTyped(split, hs2, book2, toSend, 0, account, orders, events)
  <2>1. 0 \in 0..Len(orders)
    BY <1>6
  <2> QED BY <1>3, <1>12, <1>13, <2>1 DEF OffsetTyped
<1>18. OffsetTyped(splitsToday', holding', holdingOrders', toSend', unregistered', account', placed', events')
  BY <1>1, <1>2, <1>5, <1>17
<1>19. /\ InFlight(splitsToday', holding', account', placed', events', left, acc)
       /\ StandsAt(splitsToday', holding', holdingOrders', toSend', unregistered', placed', left[0])
  BY <1>1, <1>2, <1>5, <1>15, <1>16
<1> QED BY <1>18, <1>19 DEF OffsetInv

\* At the start the account's position is on its way.
LEMMA InitOffset == ASSUME OffsetInit PROVE OffsetInv
<1>1. PICK split, hs, evs, acct, orders, book, toS, unreg :
        /\ split = splitsToday /\ hs = holding /\ evs = events /\ acct = account /\ orders = placed
        /\ book = holdingOrders /\ toS = toSend /\ unreg = unregistered
  OBVIOUS
<1>2. PICK e, none, left, acc :
        /\ e = [kind |-> "position", side |-> "LONG", td |-> HeldTd, yd |-> HeldYd]
        /\ none = [i \in 1..0 |-> 0] /\ left = [k \in 0..1 |-> none]
        /\ acc = [k \in 0..1 |-> IF k = 0 THEN NoBooks ELSE FirstBooks]
  OBVIOUS
<1>3. /\ split \in BOOLEAN /\ hs = [s \in Sides |-> NoHolding] /\ evs = <<e>>
      /\ acct = [s \in Sides |-> IF s = "LONG" THEN [td |-> HeldTd, yd |-> HeldYd] ELSE [td |-> 0, yd |-> 0]]
      /\ orders = <<>> /\ book = <<>> /\ toS = <<>> /\ unreg = 0
  BY <1>1, <1>2 DEF OffsetInit
<1>4. HeldTd \in Nat /\ HeldYd \in Nat
  BY OffsetAssumption
<1>5. acct = FirstBooks
  BY <1>3 DEF FirstBooks
<1>6. e \in Happenings(split) /\ evs \in Seq(Happenings(split)) /\ Len(evs) = 1 /\ evs[1] = e
  BY <1>2, <1>3, <1>4 DEF Happenings
<1>7. NoBooks \in [Sides -> SideBooks] /\ FirstBooks \in [Sides -> SideBooks]
  BY <1>4 DEF NoBooks, FirstBooks, SideBooks
<1>8. hs \in Holdings /\ FrozenWithin(hs) /\ BooksOf(hs) = NoBooks
  BY <1>3 DEF Holdings, SideHoldings, NoHolding, FrozenWithin, BooksOf, NoBooks
<1>9. orders \in Seq(OffsetOrders(split)) /\ Len(orders) = 0 /\ 1..Len(orders) = {} /\ none \in Lefts(orders)
  <2>1. orders \in Seq(OffsetOrders(split)) /\ Len(orders) = 0
    BY <1>3
  <2>2. 1..0 = {}
    OBVIOUS
  <2> QED BY <1>2, <2>1, <2>2 DEF Lefts
<1>10. Places(evs) = 0..1
  BY <1>6 DEF Places
<1>11. PositionArrives(e, left[0], left[1], acc[0], acc[1])
  <2>1. left[0] = left[1] /\ acc[0] = NoBooks /\ acc[1] = FirstBooks
    BY <1>2
  <2> QED BY <1>2, <2>1 DEF PositionArrives
<1>12. Flow(split, orders, evs, left, acc)
  <2>1. left \in [0..1 -> Lefts(orders)]
    BY <1>2, <1>9
  <2>2. acc \in [0..1 -> [Sides -> SideBooks]]
    BY <1>2, <1>7
  <2>3. ASSUME NEW k \in Places(evs), k # Len(evs)
        PROVE  Arrives(orders, evs[k + 1], left[k], left[k + 1], acc[k], acc[k + 1])
    <3>1. k = 0 /\ k + 1 = 1
      BY <1>6, <1>10, <2>3
    <3> QED BY <1>6, <1>11, <3>1 DEF Arrives
  <2> QED BY <1>10, <2>1, <2>2, <2>3 DEF Flow
<1>13. Ends(hs, acct, orders, evs, left, acc)
  <2>1. acc[0] = NoBooks /\ acc[Len(evs)] = FirstBooks
    BY <1>2, <1>6
  <2> QED BY <1>5, <1>8, <1>9, <2>1 DEF Ends
<1>14. ASSUME NEW s \in Sides, NEW off PROVE Due(orders, none, s, off) = 0
  <2>1. PICK w, S : w = Share(orders, none, s, off) /\ S = 1..Len(orders)
    OBVIOUS
  <2>2. ShareIs(w, S, orders, none, s, off)
    <3>1. split \in BOOLEAN /\ orders \in Seq(OffsetOrders(split)) /\ none \in Lefts(orders)
      BY <1>3, <1>9
    <3> QED BY <2>1, <3>1, ShareTyped
  <2>3. SumOver(w, {}) = 0
    BY <2>2, SumRules DEF ShareIs
  <2> QED BY <1>9, <2>1, <2>3 DEF Due
<1>15. StandsAt(split, hs, book, toS, unreg, orders, none)
  <2>1. Covered(split, orders, none, NoBooks)
    <3>1. \A s \in Sides : NoBooks[s].td = 0 /\ NoBooks[s].yd = 0
      BY DEF NoBooks
    <3>2. \A s \in Sides : \A off : Room(NoBooks[s], off) = 0
      BY <3>1 DEF Room
    <3> QED BY <1>14, <3>1, <3>2 DEF Covered
  <2>2. FrozenCovers(split, hs, orders, none)
    <3>1. \A s \in Sides : hs[s].tdFrozen = 0 /\ hs[s].ydFrozen = 0
      BY <1>3 DEF NoHolding
    <3>2. \A s \in Sides : \A off : FrozenFor(hs[s], off) = 0
      BY <3>1 DEF FrozenFor
    <3> QED BY <1>14, <3>2 DEF FrozenCovers
  <2>3. Demand(split, hs, toS, orders, none)
    <3>1. 1..Len(toS) = {}
      BY <1>3
    <3> QED BY <3>1 DEF Demand
  <2>4. Outlasts(book, none)
    BY <1>3 DEF Outlasts
  <2>5. Registered(book, unreg, orders, none)
    BY <1>9 DEF Registered
  <2> QED BY <1>8, <1>9, <2>1, <2>2, <2>3, <2>4, <2>5 DEF StandsAt
<1>16. OffsetTyped(split, hs, book, toS, unreg, acct, orders, evs)
  <2>1. BookOf(split, book, orders)
    BY <1>3, <1>9 DEF BookOf
  <2>2. Unsent(split, toS)
    BY <1>3 DEF Unsent
  <2>3. unreg \in 0..Len(orders)
    BY <1>3, <1>9
  <2>4. acct \in [Sides -> SideBooks]
    BY <1>5, <1>7
  <2> QED BY <1>3, <1>6, <1>8, <1>9, <2>1, <2>2, <2>3, <2>4 DEF OffsetTyped
<1>17. left[0] = none
  BY <1>2
<1>18. InFlight(split, hs, acct, orders, evs, left, acc)
  BY <1>12, <1>13 DEF InFlight
<1> QED BY <1>1, <1>15, <1>16, <1>17, <1>18 DEF OffsetInv

---------------------------------------------------------------------------
(* The caller sends: the order is due in full at every place from now on. *)
Longer(l, n, v) == [i \in 1..n + 1 |-> IF i = n + 1 THEN v ELSE l[i]]

LEMMA ArrivesStill ==
  ASSUME NEW split \in BOOLEAN, NEW orders \in Seq(OffsetOrders(split)), NEW o \in OffsetOrders(split),
         NEW m \in Lefts(orders), NEW l \in Lefts(orders), NEW e, NEW a, NEW b, Arrives(orders, e, m, l, a, b),
         NEW n, n = Len(orders)
  PROVE  Arrives(Append(orders, o), e, Longer(m, n, o.volume), Longer(l, n, o.volume), a, b)
<1>1. PICK m2, l2, more : m2 = Longer(m, n, o.volume) /\ l2 = Longer(l, n, o.volume) /\ more = Append(orders, o)
  OBVIOUS
<1>2. n \in Nat /\ Len(more) = n + 1 /\ \A i \in 1..n : i \in 1..n + 1 /\ i # n + 1 /\ more[i] = orders[i]
  BY <1>1
<1>3. \A i \in 1..n : m2[i] = m[i] /\ l2[i] = l[i]
  BY <1>1, <1>2 DEF Longer
<1>4. m2[n + 1] = l2[n + 1]
  BY <1>1, <1>2 DEF Longer
<1>5. \A i \in 1..n + 1 : i \in 1..n \/ i = n + 1
  BY <1>2
<1>6. CASE PositionArrives(e, m, l, a, b)
  BY <1>1, <1>6 DEF Arrives, PositionArrives
<1>7. CASE TradeArrives(orders, e, m, l, a, b)
  <2>1. PICK id : id = e.id
    OBVIOUS
  <2>2. id \in 1..n /\ SamePlan(e.order, orders[id]) /\ OneMore(orders, m, l, id)
        /\ e.kind = "trade" /\ e.volume = 1 /\ b = UnitTraded(a, e.order)
    BY <1>7, <2>1 DEF TradeArrives
  <2>3. OneMore(more, m2, l2, id)
    <3>1. m2[id] = l2[id] + 1
      BY <1>3, <2>2 DEF OneMore
    <3>2. \A i \in 1..n : i # id => m2[i] = l2[i]
      BY <1>3, <2>2 DEF OneMore
    <3> QED BY <1>2, <1>4, <1>5, <3>1, <3>2 DEF OneMore
  <2>4. id \in 1..Len(more) /\ SamePlan(e.order, more[id])
    BY <1>2, <2>2
  <2>5. TradeArrives(more, e, m2, l2, a, b)
    BY <2>1, <2>2, <2>3, <2>4 DEF TradeArrives
  <2> QED BY <1>1, <2>5 DEF Arrives
<1>8. CASE OrderArrives(orders, e, m, l, a, b)
  <2>1. PICK id, r : id = e.id /\ r = e.order
    OBVIOUS
  <2>2. id \in 1..n /\ SamePlan(r, orders[id]) /\ e.kind = "order" /\ m = l /\ a = b
        /\ IF e.active THEN Remaining(r) >= l[id] ELSE l[id] = 0
    BY <1>8, <2>1 DEF OrderArrives
  <2>3. id \in 1..Len(more) /\ SamePlan(r, more[id]) /\ l2[id] = l[id] /\ m2 = l2
    BY <1>1, <1>2, <1>3, <2>2
  <2>4. OrderArrives(more, e, m2, l2, a, b)
    BY <2>1, <2>2, <2>3 DEF OrderArrives
  <2> QED BY <1>1, <2>4 DEF Arrives
<1> QED BY <1>6, <1>7, <1>8 DEF Arrives

\* The caller sends what it converted.
LEMMA SendKeeps == ASSUME OffsetInv, SendConverted PROVE OffsetInv'
<1>1. PICK split, hs, book, toS, acct, orders, evs, o, n, more, rest :
        /\ split = splitsToday /\ hs = holding /\ book = holdingOrders /\ toS = toSend
        /\ acct = account /\ orders = placed /\ evs = events
        /\ o = toS[1] /\ n = Len(orders) /\ more = Append(orders, o) /\ rest = Tail(toS)
  OBVIOUS
<1>2. OffsetTyped(split, hs, book, toS, unregistered, acct, orders, evs)
  BY <1>1 DEF OffsetInv
<1>3. PICK left, acc : InFlight(split, hs, acct, orders, evs, left, acc)
                       /\ StandsAt(split, hs, book, toS, unregistered, orders, left[0])
  BY <1>1 DEF OffsetInv
<1>4. /\ split \in BOOLEAN /\ orders \in Seq(OffsetOrders(split)) /\ evs \in Seq(Happenings(split))
      /\ hs \in Holdings /\ acct \in [Sides -> SideBooks] /\ BookOf(split, book, orders) /\ Unsent(split, toS)
  BY <1>2 DEF OffsetTyped
<1>5. /\ toS # <<>> /\ unregistered = 0 /\ placed' = Append(orders, Head(toS)) /\ unregistered' = Len(placed')
      /\ toSend' = rest
      /\ splitsToday' = split /\ holding' = hs /\ holdingOrders' = book /\ account' = acct /\ events' = evs
  BY <1>1 DEF SendConverted, converterVars
<1>6. /\ toS \in Seq(OffsetOrders(split)) /\ Len(toS) \in Nat /\ Len(toS) >= 1 /\ 1 \in 1..Len(toS)
      /\ Head(toS) = o /\ o \in OffsetOrders(split)
      /\ Len(rest) = Len(toS) - 1 /\ rest \in Seq(OffsetOrders(split))
      /\ \A i \in 1..Len(rest) : i + 1 \in 1..Len(toS) /\ i + 1 # 1 /\ rest[i] = toS[i + 1]
  <2>1. toS \in Seq(OffsetOrders(split))
    BY <1>4 DEF Unsent
  <2>2. Len(toS) \in Nat /\ Len(toS) >= 1 /\ Head(toS) = toS[1] /\ toS[1] \in OffsetOrders(split)
    BY <1>5, <2>1
  <2>3. Len(rest) = Len(toS) - 1 /\ rest \in Seq(OffsetOrders(split))
        /\ \A i \in 1..Len(rest) : rest[i] = toS[i + 1]
    BY <1>1, <1>5, <2>1
  <2> QED BY <1>1, <2>1, <2>2, <2>3
<1>7. PICK v : v = o.volume
  OBVIOUS
<1>8. /\ v \in Nat /\ v > 0 /\ o.traded = 0 /\ o.live /\ Remaining(o) = v
      /\ o.direction \in Sides /\ o.offset \in SplitOffsets(split) \cup {"OPEN"}
  <2>1. v \in Nat /\ o.direction \in Sides /\ o.offset \in SplitOffsets(split) \cup {"OPEN"}
    BY <1>4, <1>6, <1>7, LeftOfOrder
  <2>2. v > 0 /\ o.traded = 0 /\ o.live
    BY <1>1, <1>4, <1>6, <1>7 DEF Unsent
  <2> QED BY <1>7, <2>1, <2>2 DEF Remaining
<1>9. /\ n \in Nat /\ more \in Seq(OffsetOrders(split)) /\ Len(more) = n + 1 /\ more[n + 1] = o
      /\ \A i \in 1..n : more[i] = orders[i]
  BY <1>1, <1>4, <1>6
<1>10. ASSUME NEW l \in Lefts(orders)
       PROVE  /\ Longer(l, n, v) \in Lefts(more) /\ Longer(l, n, v)[n + 1] = v
              /\ \A i \in 1..n : Longer(l, n, v)[i] = l[i]
  BY <1>1, <1>8, <1>9 DEF Longer, Lefts
<1>11. PICK left2 : left2 = [k \in Places(evs) |-> Longer(left[k], n, v)]
  OBVIOUS
<1>12. left \in [Places(evs) -> Lefts(orders)] /\ acc \in [Places(evs) -> [Sides -> SideBooks]]
  BY <1>3 DEF InFlight, Flow
<1>13. left2 \in [Places(evs) -> Lefts(more)]
  BY <1>10, <1>11, <1>12
<1>14. Flow(split, more, evs, left2, acc)
  <2>1. ASSUME NEW k \in Places(evs), k # Len(evs)
        PROVE  Arrives(more, evs[k + 1], left2[k], left2[k + 1], acc[k], acc[k + 1])
    <3>1. Arrives(orders, evs[k + 1], left[k], left[k + 1], acc[k], acc[k + 1])
      BY <1>3, <2>1 DEF InFlight, Flow
    <3>2. k + 1 \in Places(evs)
      BY <1>4, <2>1, PlaceFacts
    <3>3. PICK m, l, e, a, b : m = left[k] /\ l = left[k + 1] /\ e = evs[k + 1] /\ a = acc[k] /\ b = acc[k + 1]
      OBVIOUS
    <3>4. m \in Lefts(orders) /\ l \in Lefts(orders) /\ Arrives(orders, e, m, l, a, b)
      BY <1>12, <3>1, <3>2, <3>3
    <3>5. Arrives(more, e, Longer(m, n, v), Longer(l, n, v), a, b)
      BY <1>1, <1>4, <1>6, <1>7, <3>4, ArrivesStill
    <3> QED BY <1>11, <3>2, <3>3, <3>5
  <2> QED BY <1>12, <1>13, <2>1 DEF Flow
<1>15. Ends(hs, acct, more, evs, left2, acc)
  <2>1. PICK L, l : L = Len(evs) /\ l = left[L]
    OBVIOUS
  <2>2. L \in Places(evs) /\ l \in Lefts(orders) /\ left2[L] = Longer(l, n, v)
    BY <1>4, <1>11, <1>12, <2>1, PlaceFacts
  <2>3. \A i \in 1..n : l[i] = Remaining(orders[i])
    BY <1>1, <1>3, <2>1 DEF InFlight, Ends
  <2>4. \A i \in 1..n : Longer(l, n, v)[i] = Remaining(more[i])
    BY <1>9, <1>10, <2>2, <2>3
  <2>5. Longer(l, n, v)[n + 1] = Remaining(more[n + 1])
    BY <1>8, <1>9, <1>10, <2>2
  <2>6. \A i \in 1..n + 1 : i \in 1..n \/ i = n + 1
    BY <1>9
  <2>7. \A i \in 1..Len(more) : left2[Len(evs)][i] = Remaining(more[i])
    BY <1>9, <2>1, <2>2, <2>4, <2>5, <2>6
  <2> QED BY <1>3, <2>7 DEF InFlight, Ends
<1>16. PICK l, l2 : l = left[0] /\ l2 = left2[0]
  OBVIOUS
<1>17. /\ l \in Lefts(orders) /\ l2 \in Lefts(more) /\ l2[n + 1] = v
       /\ \A i \in 1..n : l2[i] = l[i]
  <2>1. 0 \in Places(evs)
    BY <1>4, PlaceFacts
  <2>2. l \in Lefts(orders) /\ l2 = Longer(l, n, v)
    BY <1>11, <1>12, <1>16, <2>1
  <2> QED BY <1>10, <2>2
<1>18. /\ FrozenWithin(hs) /\ Covered(split, orders, l, BooksOf(hs)) /\ Demand(split, hs, toS, orders, l)
       /\ Outlasts(book, l) /\ Registered(book, 0, orders, l)
  BY <1>3, <1>5, <1>16 DEF StandsAt
<1>19. \A s \in Sides, off \in SplitOffsets(split) :
         Due(more, l2, s, off) = Due(orders, l, s, off) + (IF Asks(o, s, off) THEN v ELSE 0)
  <2> SUFFICES ASSUME NEW s \in Sides, NEW off \in SplitOffsets(split)
               PROVE  Due(more, l2, s, off) = Due(orders, l, s, off) + (IF Asks(o, s, off) THEN v ELSE 0)
    OBVIOUS
  <2>1. l2 \in Lefts(Append(orders, o)) /\ \A i \in 1..Len(orders) : l2[i] = l[i]
    BY <1>1, <1>17
  <2>2. Due(Append(orders, o), l2, s, off)
          = Due(orders, l, s, off) + (IF Asks(o, s, off) THEN l2[Len(orders) + 1] ELSE 0)
    BY <1>4, <1>6, <1>17, <2>1, DueGrows, SMTT(60)
  <2> QED BY <1>1, <1>17, <2>2
<1>20. \A s \in Sides, off \in SplitOffsets(split) : Due(orders, l, s, off) \in Nat
  BY <1>4, <1>17, ShareTyped
<1>21. Covered(split, more, l2, BooksOf(hs))
  <2>1. ASSUME NEW s \in Sides, NEW off \in SplitOffsets(split)
        PROVE  Due(more, l2, s, off) <= Room(BooksOf(hs)[s], off)
    <3>1. CASE Asks(o, s, off)
      <4>1. v + Due(orders, l, s, off) <= Room(hs[s], off)
        BY <1>1, <1>6, <1>7, <1>18, <3>1 DEF Demand
      <4>2. Room(BooksOf(hs)[s], off) = Room(hs[s], off)
        BY DEF Room, BooksOf
      <4>3. Due(more, l2, s, off) = v + Due(orders, l, s, off)
        BY <1>8, <1>19, <1>20, <3>1
      <4> QED BY <4>1, <4>2, <4>3
    <3>2. CASE ~Asks(o, s, off)
      <4>1. Due(more, l2, s, off) = Due(orders, l, s, off)
        BY <1>19, <1>20, <3>2
      <4> QED BY <1>18, <4>1 DEF Covered
    <3> QED BY <3>1, <3>2
  <2> QED BY <1>18, <2>1 DEF Covered
<1>22. Demand(split, hs, rest, more, l2)
  <2> SUFFICES ASSUME NEW i \in 1..Len(rest), NEW s \in Sides, NEW off \in SplitOffsets(split),
                      Asks(rest[i], s, off)
               PROVE  rest[i].volume + Due(more, l2, s, off) <= Room(hs[s], off)
    BY DEF Demand
  <2>1. PICK j, r : j = i + 1 /\ r = toS[j]
    OBVIOUS
  <2>2. j \in 1..Len(toS) /\ j # 1 /\ rest[i] = r
    BY <1>6, <2>1
  <2>3. r.offset # o.offset
    BY <1>1, <1>4, <1>6, <2>1, <2>2 DEF Unsent
  <2>4. Asks(r, s, off) /\ ~Asks(o, s, off)
    BY <2>2, <2>3 DEF Asks
  <2>5. Due(more, l2, s, off) = Due(orders, l, s, off)
    BY <1>19, <1>20, <2>4
  <2>6. r.volume + Due(orders, l, s, off) <= Room(hs[s], off)
    BY <1>18, <2>1, <2>2, <2>4 DEF Demand
  <2> QED BY <2>2, <2>5, <2>6
<1>23. Outlasts(book, l2) /\ BookOf(split, book, more)
  <2>1. \A i \in DOMAIN book : i \in 1..n
    BY <1>1, <1>4 DEF BookOf
  <2>2. Outlasts(book, l2)
    BY <1>17, <1>18, <2>1 DEF Outlasts
  <2>3. \A i \in 1..n : i \in 1..Len(more)
    BY <1>9
  <2> QED BY <1>4, <1>9, <2>1, <2>2, <2>3 DEF BookOf
<1>24. Registered(book, n + 1, more, l2)
  <2> SUFFICES ASSUME NEW i \in 1..n + 1
               PROVE  l2[i] <= more[i].volume /\ (i \in DOMAIN book \/ l2[i] = 0 \/ i = n + 1)
    BY <1>9 DEF Registered
  <2>1. CASE i = n + 1
    BY <1>7, <1>8, <1>9, <1>17, <2>1
  <2>2. CASE i # n + 1
    <3>1. i \in 1..n /\ i # 0
      BY <1>9, <2>2
    <3>2. l[i] <= orders[i].volume /\ (i \in DOMAIN book \/ l[i] = 0)
      BY <1>1, <1>18, <3>1 DEF Registered
    <3> QED BY <1>9, <1>17, <3>1, <3>2
  <2> QED BY <2>1, <2>2
<1>25. Unsent(split, rest)
  <2>1. \A i \in 1..Len(rest) : rest[i].volume > 0 /\ rest[i].traded = 0 /\ rest[i].live
    BY <1>4, <1>6 DEF Unsent
  <2>2. ASSUME NEW i \in 1..Len(rest), NEW j \in 1..Len(rest), i # j PROVE rest[i].offset # rest[j].offset
    <3>1. PICK p, q : p = i + 1 /\ q = j + 1
      OBVIOUS
    <3>2. p # q
      BY <1>6, <2>2, <3>1
    <3>3. p \in 1..Len(toS) /\ q \in 1..Len(toS) /\ rest[i] = toS[p] /\ rest[j] = toS[q]
      BY <1>6, <3>1
    <3> QED BY <1>4, <3>2, <3>3 DEF Unsent
  <2> QED BY <1>6, <2>1, <2>2 DEF Unsent
<1>26. n + 1 # 0 /\ n + 1 \in 0..Len(more) /\ placed' = more /\ unregistered' = n + 1
  BY <1>1, <1>5, <1>6, <1>9
<1>27. StandsAt(split, hs, book, rest, n + 1, more, left2[0])
  BY <1>16, <1>17, <1>18, <1>21, <1>22, <1>23, <1>24, <1>26 DEF StandsAt
<1>28. OffsetTyped(split, hs, book, rest, n + 1, acct, more, evs)
  BY <1>4, <1>9, <1>23, <1>25, <1>26 DEF OffsetTyped
<1>29. InFlight(split, hs, acct, more, evs, left2, acc)
  BY <1>14, <1>15 DEF InFlight
<1>30. OffsetTyped(splitsToday', holding', holdingOrders', toSend', unregistered', account', placed', events')
  BY <1>5, <1>26, <1>28
<1>31. /\ InFlight(splitsToday', holding', account', placed', events', left2, acc)
       /\ StandsAt(splitsToday', holding', holdingOrders', toSend', unregistered', placed', left2[0])
  BY <1>5, <1>26, <1>27, <1>29
<1> QED BY <1>30, <1>31 DEF OffsetInv

---------------------------------------------------------------------------
(* Fills and cancels: orders with less left. *)
SameVolumes(others, orders) == \A i \in 1..Len(orders) : others[i].volume = orders[i].volume
NoMore(orders, l2, l) == \A i \in 1..Len(orders) : l2[i] <= l[i]

\* Everything still stands where the orders have less left.
LEMMA StandsStill ==
  ASSUME NEW split \in BOOLEAN, NEW orders \in Seq(OffsetOrders(split)), NEW others \in Seq(OffsetOrders(split)),
         SamePlans(others, orders), SameVolumes(others, orders),
         NEW l \in Lefts(orders), NEW l2 \in Lefts(others), NoMore(orders, l2, l),
         NEW hs \in Holdings, NEW book, BookOf(split, book, orders), NEW toS, Unsent(split, toS), NEW unreg,
         StandsAt(split, hs, book, toS, unreg, orders, l)
  PROVE  StandsAt(split, hs, book, toS, unreg, others, l2) /\ BookOf(split, book, others)
<1>1. PICK n : n = Len(orders)
  OBVIOUS
<1>2. n \in Nat /\ Len(orders) = n /\ Len(others) = n /\ l \in [1..n -> Nat] /\ l2 \in [1..n -> Nat]
      /\ \A i \in 1..n : l2[i] <= l[i]
  BY <1>1 DEF SamePlans, Lefts, NoMore
<1>3. ASSUME NEW s \in Sides, NEW off \in SplitOffsets(split)
      PROVE  /\ Due(others, l2, s, off) <= Due(orders, l, s, off)
             /\ Due(others, l2, s, off) \in Nat /\ Due(orders, l, s, off) \in Nat
  <2>1. \A i \in 1..Len(others) : l2[i] <= l[i]
    BY <1>2
  <2>2. Due(others, l2, s, off) <= Due(orders, l, s, off)
    BY <2>1, DueFalls
  <2>3. Due(others, l2, s, off) \in Nat
    BY ShareTyped
  <2>4. Due(orders, l, s, off) \in Nat
    BY ShareTyped
  <2> QED BY <2>2, <2>3, <2>4
<1>4. /\ FrozenWithin(hs) /\ Covered(split, orders, l, BooksOf(hs)) /\ Demand(split, hs, toS, orders, l)
      /\ Outlasts(book, l) /\ Registered(book, unreg, orders, l)
      /\ unreg = 0 => FrozenCovers(split, hs, orders, l)
  BY DEF StandsAt
<1>5. \A s \in Sides, off \in SplitOffsets(split) :
        Room(hs[s], off) \in Int /\ FrozenFor(hs[s], off) \in Int /\ Room(BooksOf(hs)[s], off) = Room(hs[s], off)
  <2>1. ASSUME NEW s \in Sides, NEW off
        PROVE  Room(hs[s], off) \in Int /\ FrozenFor(hs[s], off) \in Int
               /\ Room(BooksOf(hs)[s], off) = Room(hs[s], off)
    <3>1. hs[s].td \in Int /\ hs[s].yd \in Int /\ hs[s].tdFrozen \in Int /\ hs[s].ydFrozen \in Int
      BY HoldingTyped
    <3>2. BooksOf(hs)[s].td = hs[s].td /\ BooksOf(hs)[s].yd = hs[s].yd
      BY DEF BooksOf
    <3> QED BY <3>1, <3>2 DEF Room, FrozenFor
  <2> QED BY <2>1
<1>6. Covered(split, others, l2, BooksOf(hs))
  <2>1. \A s \in Sides, off \in SplitOffsets(split) : Due(others, l2, s, off) <= Room(BooksOf(hs)[s], off)
    <3>1. \A s \in Sides, off \in SplitOffsets(split) : Due(orders, l, s, off) <= Room(BooksOf(hs)[s], off)
      BY <1>4 DEF Covered
    <3> QED BY <1>3, <1>5, <3>1
  <2> QED BY <1>4, <2>1 DEF Covered
<1>7. Demand(split, hs, toS, others, l2)
  <2> SUFFICES ASSUME NEW i \in 1..Len(toS), NEW s \in Sides, NEW off \in SplitOffsets(split), Asks(toS[i], s, off)
               PROVE  toS[i].volume + Due(others, l2, s, off) <= Room(hs[s], off)
    BY DEF Demand
  <2>1. toS[i].volume + Due(orders, l, s, off) <= Room(hs[s], off)
    BY <1>4 DEF Demand
  <2>2. toS[i].volume \in Nat
    <3>1. toS[i] \in OffsetOrders(split)
      BY DEF Unsent
    <3> QED BY <3>1, LeftOfOrder
  <2> QED BY <1>3, <1>5, <2>1, <2>2
<1>8. BookOf(split, book, others)
  BY <1>2 DEF BookOf, SamePlans
<1>9. Outlasts(book, l2)
  <2> SUFFICES ASSUME NEW i \in DOMAIN book PROVE Remaining(book[i]) >= l2[i]
    BY DEF Outlasts
  <2>1. i \in 1..n /\ book[i] \in OffsetOrders(split)
    BY <1>1 DEF BookOf
  <2>2. Remaining(book[i]) \in Nat
    BY <2>1, LeftOfOrder
  <2>3. Remaining(book[i]) >= l[i]
    BY <1>4 DEF Outlasts
  <2>4. l[i] \in Nat /\ l2[i] \in Nat /\ l2[i] <= l[i]
    BY <1>2, <2>1
  <2> QED BY <2>2, <2>3, <2>4
<1>10. Registered(book, unreg, others, l2)
  <2> SUFFICES ASSUME NEW i \in 1..n
               PROVE  l2[i] <= others[i].volume /\ (i \in DOMAIN book \/ l2[i] = 0 \/ i = unreg)
    BY <1>2 DEF Registered
  <2>1. l[i] <= orders[i].volume /\ (i \in DOMAIN book \/ l[i] = 0 \/ i = unreg)
    BY <1>1, <1>4 DEF Registered
  <2>2. others[i].volume = orders[i].volume
    BY <1>1 DEF SameVolumes
  <2>3. orders[i].volume \in Nat
    <3>1. orders[i] \in OffsetOrders(split)
      BY <1>1
    <3> QED BY <3>1, LeftOfOrder
  <2>4. l[i] \in Nat /\ l2[i] \in Nat /\ l2[i] <= l[i]
    BY <1>2
  <2> QED BY <2>1, <2>2, <2>3, <2>4
<1>11. unreg = 0 => FrozenCovers(split, hs, others, l2)
  <2> SUFFICES ASSUME unreg = 0, NEW s \in Sides, NEW off \in SplitOffsets(split)
               PROVE  Due(others, l2, s, off) <= FrozenFor(hs[s], off)
    BY DEF FrozenCovers
  <2>1. Due(orders, l, s, off) <= FrozenFor(hs[s], off)
    BY <1>4 DEF FrozenCovers
  <2> QED BY <1>3, <1>5, <2>1
<1> QED BY <1>4, <1>6, <1>7, <1>8, <1>9, <1>10, <1>11 DEF StandsAt

---------------------------------------------------------------------------
(* The exchange fills a unit or cancels.                                       *)
Shorter(l, n, id, r) == [i \in 1..n |-> IF i = id THEN l[i] - r ELSE l[i]]

\* What arrives still does when an order has so much less left at every place.
LEMMA ArrivesLess ==
  ASSUME NEW split \in BOOLEAN, NEW orders \in Seq(OffsetOrders(split)), NEW others, SamePlans(others, orders),
         NEW m \in Lefts(orders), NEW l \in Lefts(orders), NEW e \in Happenings(split), NEW a, NEW b,
         Arrives(orders, e, m, l, a, b), NEW n, n = Len(orders),
         NEW id \in 1..n, NEW r \in Nat, r <= l[id]
  PROVE  Arrives(others, e, Shorter(m, n, id, r), Shorter(l, n, id, r), a, b)
<1>1. PICK m2, l2 : m2 = Shorter(m, n, id, r) /\ l2 = Shorter(l, n, id, r)
  OBVIOUS
<1>2. n \in Nat /\ Len(others) = n /\ l \in [1..n -> Nat] /\ m \in [1..n -> Nat]
      /\ \A i \in 1..n : others[i].direction = orders[i].direction /\ others[i].offset = orders[i].offset
  BY DEF SamePlans, Lefts
<1>3. /\ \A i \in 1..n : i # id => m2[i] = m[i] /\ l2[i] = l[i]
      /\ m2[id] = m[id] - r /\ l2[id] = l[id] - r /\ m[id] \in Nat /\ l[id] \in Nat
  BY <1>1, <1>2 DEF Shorter
<1>4. CASE PositionArrives(e, m, l, a, b)
  BY <1>1, <1>4 DEF Arrives, PositionArrives
<1>5. CASE TradeArrives(orders, e, m, l, a, b)
  <2>1. PICK x : x = e.id
    OBVIOUS
  <2>2. x \in 1..n /\ SamePlan(e.order, orders[x]) /\ OneMore(orders, m, l, x)
        /\ e.kind = "trade" /\ e.volume = 1 /\ b = UnitTraded(a, e.order)
    BY <1>5, <2>1 DEF TradeArrives
  <2>3. OneMore(others, m2, l2, x)
    <3>1. m[x] = l[x] + 1 /\ \A i \in 1..n : i # x => m[i] = l[i]
      BY <2>2 DEF OneMore
    <3>2. m2[x] = l2[x] + 1
      <4>1. CASE x = id
        BY <1>3, <3>1, <4>1
      <4>2. CASE x # id
        BY <1>3, <2>2, <3>1, <4>2
      <4> QED BY <4>1, <4>2
    <3>3. ASSUME NEW i \in 1..n, i # x PROVE m2[i] = l2[i]
      <4>1. m[i] = l[i]
        BY <3>1, <3>3
      <4> QED BY <1>1, <4>1 DEF Shorter
    <3> QED BY <1>2, <3>2, <3>3 DEF OneMore
  <2>4. x \in 1..Len(others) /\ SamePlan(e.order, others[x])
    BY <1>2, <2>2 DEF SamePlan
  <2>5. TradeArrives(others, e, m2, l2, a, b)
    BY <2>1, <2>2, <2>3, <2>4 DEF TradeArrives
  <2> QED BY <1>1, <2>5 DEF Arrives
<1>6. CASE OrderArrives(orders, e, m, l, a, b)
  <2>1. PICK x, o, isActive : x = e.id /\ o = e.order /\ isActive = e.active
    OBVIOUS
  <2>2. x \in 1..n /\ SamePlan(o, orders[x]) /\ e.kind = "order" /\ m = l /\ a = b
        /\ IF isActive THEN Remaining(o) >= l[x] ELSE l[x] = 0
    BY <1>6, <2>1 DEF OrderArrives
  <2>3. x \in 1..Len(others) /\ SamePlan(o, others[x]) /\ m2 = l2
    BY <1>1, <1>2, <2>2 DEF SamePlan
  <2>4. l2[x] \in Nat /\ l2[x] <= l[x] /\ l[x] \in Nat
    <3>1. CASE x = id
      BY <1>3, <3>1
    <3>2. CASE x # id
      BY <1>2, <1>3, <2>2, <3>2
    <3> QED BY <3>1, <3>2
  <2>5. IF isActive THEN Remaining(o) >= l2[x] ELSE l2[x] = 0
    <3>1. CASE isActive
      <4>1. Remaining(o) \in Nat
        <5>1. e.kind # "position" /\ o \in OffsetOrders(split)
          BY <2>1, <2>2 DEF Happenings
        <5> QED BY <5>1, LeftOfOrder
      <4> QED BY <2>2, <2>4, <3>1, <4>1
    <3>2. CASE ~isActive
      BY <2>2, <2>4, <3>2
    <3> QED BY <3>1, <3>2
  <2>6. OrderArrives(others, e, m2, l2, a, b)
    BY <2>1, <2>2, <2>3, <2>5 DEF OrderArrives
  <2> QED BY <1>1, <2>6 DEF Arrives
<1> QED BY <1>4, <1>5, <1>6 DEF Arrives

Shortened(l2, l, n, id, r) ==
  /\ l2 \in [1..n -> Nat] /\ l2[id] = l[id] - r
  /\ \A i \in 1..n : i # id => l2[i] = l[i]
  /\ \A i \in 1..n : l2[i] <= l[i]
LEMMA ShorterTyped ==
  ASSUME NEW n \in Nat, NEW l \in [1..n -> Nat], NEW id \in 1..n, NEW r \in Nat, r <= l[id]
  PROVE  Shortened(Shorter(l, n, id, r), l, n, id, r)
<1>1. l[id] \in Nat /\ l[id] - r \in Nat /\ l[id] - r <= l[id]
  OBVIOUS
<1>2. ASSUME NEW i \in 1..n
      PROVE  Shorter(l, n, id, r)[i] \in Nat /\ Shorter(l, n, id, r)[i] <= l[i]
  <2>1. CASE i = id
    BY <1>1, <2>1 DEF Shorter
  <2>2. CASE i # id
    BY <2>2 DEF Shorter
  <2> QED BY <2>1, <2>2
<1>3. Shorter(l, n, id, r) \in [1..n -> Nat]
  BY <1>2 DEF Shorter
<1> QED BY <1>1, <1>2, <1>3 DEF Shorter, Shortened

\* An order that takes the place of one of the exchange's.
Swapped(orders, id, o) == [orders EXCEPT ![id] = o]
SwappedAre(split, others, orders, id, o) ==
  /\ others \in Seq(OffsetOrders(split)) /\ Len(others) = Len(orders) /\ others[id] = o
  /\ SamePlans(others, orders) /\ SameVolumes(others, orders)
  /\ \A i \in 1..Len(orders) : i # id => others[i] = orders[i]
LEMMA OrderSwapped ==
  ASSUME NEW split \in BOOLEAN, NEW orders \in Seq(OffsetOrders(split)), NEW id \in 1..Len(orders),
         NEW o \in OffsetOrders(split), SamePlan(o, orders[id]), o.volume = orders[id].volume
  PROVE  SwappedAre(split, Swapped(orders, id, o), orders, id, o)
<1>1. PICK others : others = [orders EXCEPT ![id] = o]
  OBVIOUS
<1>2. others \in Seq(OffsetOrders(split)) /\ Len(others) = Len(orders) /\ others[id] = o
      /\ \A i \in 1..Len(orders) : i # id => others[i] = orders[i]
  BY <1>1
<1>3. SamePlans(others, orders) /\ SameVolumes(others, orders)
  BY <1>2 DEF SamePlans, SameVolumes, SamePlan
<1> QED BY <1>1, <1>2, <1>3 DEF Swapped, SwappedAre

LEMMA OrderWithLeft ==
  ASSUME NEW split \in BOOLEAN, NEW p \in OffsetOrders(split), Remaining(p) > 0
  PROVE  /\ p.live /\ p.traded < p.volume /\ Remaining(p) = p.volume - p.traded
         /\ LET o == [p EXCEPT !.traded = @ + 1] IN
              o \in OffsetOrders(split) /\ SamePlan(o, p) /\ o.volume = p.volume /\ Remaining(o) = Remaining(p) - 1
         /\ LET o == [p EXCEPT !.live = FALSE] IN
              o \in OffsetOrders(split) /\ SamePlan(o, p) /\ o.volume = p.volume /\ Remaining(o) = 0
<1>1. /\ p.volume \in Nat /\ p.traded \in Nat /\ p.live \in BOOLEAN /\ p.direction \in Sides
      /\ p.offset \in SplitOffsets(split) \cup {"OPEN"}
  BY LeftOfOrder
<1>2. p.live /\ p.traded < p.volume /\ Remaining(p) = p.volume - p.traded
  BY <1>1 DEF Remaining
<1>3. p = [direction |-> p.direction, offset |-> p.offset, volume |-> p.volume, traded |-> p.traded, live |-> p.live]
  BY DEF OffsetOrders
<1>4. ASSUME NEW o, o = [p EXCEPT !.traded = @ + 1]
      PROVE  o \in OffsetOrders(split) /\ SamePlan(o, p) /\ o.volume = p.volume /\ Remaining(o) = Remaining(p) - 1
  <2>1. PICK t : t = p.traded + 1
    OBVIOUS
  <2>2. o = [direction |-> p.direction, offset |-> p.offset, volume |-> p.volume, traded |-> t, live |-> p.live]
    BY <1>3, <1>4, <2>1
  <2>3. t \in Nat /\ t <= p.volume
    BY <1>1, <1>2, <2>1
  <2>4. o \in OffsetOrders(split) /\ SamePlan(o, p) /\ o.volume = p.volume
    BY <1>1, <2>2, <2>3 DEF OffsetOrders, SamePlan
  <2>5. Remaining(o) = p.volume - t
    BY <1>2, <2>2 DEF Remaining
  <2> QED BY <1>1, <1>2, <2>1, <2>4, <2>5
<1>5. ASSUME NEW o, o = [p EXCEPT !.live = FALSE]
      PROVE  o \in OffsetOrders(split) /\ SamePlan(o, p) /\ o.volume = p.volume /\ Remaining(o) = 0
  <2>1. o = [direction |-> p.direction, offset |-> p.offset, volume |-> p.volume, traded |-> p.traded,
             live |-> FALSE]
    BY <1>3, <1>5
  <2> QED BY <1>1, <1>2, <2>1 DEF OffsetOrders, SamePlan, Remaining
<1> QED BY <1>2, <1>4, <1>5

\* The exchange fills a unit: a trade and an order update are on their way.
LEMMA FillKeeps == ASSUME OffsetInv, NEW id \in DOMAIN placed, ExchangeFills(id) PROVE OffsetInv'
<1>1. PICK split, hs, book, toS, unreg, acct, orders, evs, n, L, p :
        /\ split = splitsToday /\ hs = holding /\ book = holdingOrders /\ toS = toSend /\ unreg = unregistered
        /\ acct = account /\ orders = placed /\ evs = events
        /\ n = Len(orders) /\ L = Len(evs) /\ p = orders[id]
  OBVIOUS
<1>2. OffsetTyped(split, hs, book, toS, unreg, acct, orders, evs)
  BY <1>1 DEF OffsetInv
<1>3. PICK left, acc : InFlight(split, hs, acct, orders, evs, left, acc)
                       /\ StandsAt(split, hs, book, toS, unreg, orders, left[0])
  BY <1>1 DEF OffsetInv
<1>4. /\ split \in BOOLEAN /\ orders \in Seq(OffsetOrders(split)) /\ evs \in Seq(Happenings(split))
      /\ hs \in Holdings /\ acct \in [Sides -> SideBooks] /\ BookOf(split, book, orders) /\ Unsent(split, toS)
      /\ unreg \in 0..Len(orders)
  BY <1>2 DEF OffsetTyped
<1>5. PICK o, others, acct2, isActive, t, u :
        /\ o = [p EXCEPT !.traded = @ + 1] /\ others = [orders EXCEPT ![id] = o] /\ acct2 = Traded(acct, o, 1)
        /\ isActive = (Remaining(o) > 0)
        /\ t = [kind |-> "trade", id |-> id, order |-> o, volume |-> 1]
        /\ u = [kind |-> "order", id |-> id, order |-> o, active |-> isActive]
  OBVIOUS
<1>6. /\ Remaining(p) > 0 /\ placed' = others /\ account' = acct2 /\ events' = evs \o <<t, u>>
      /\ splitsToday' = split /\ holding' = hs /\ holdingOrders' = book /\ toSend' = toS /\ unregistered' = unreg
  BY <1>1, <1>5 DEF ExchangeFills, OrderEventOf, converterVars, callerVars
<1>7. id \in 1..n /\ n \in Nat /\ p \in OffsetOrders(split)
  BY <1>1, <1>4
<1>8. /\ o \in OffsetOrders(split) /\ SamePlan(o, p) /\ o.volume = p.volume /\ Remaining(o) = Remaining(p) - 1
      /\ Remaining(p) \in Nat /\ Remaining(o) \in Nat /\ isActive \in BOOLEAN
  <2>1. o \in OffsetOrders(split) /\ SamePlan(o, p) /\ o.volume = p.volume /\ Remaining(o) = Remaining(p) - 1
    BY <1>4, <1>5, <1>6, <1>7, OrderWithLeft
  <2>2. Remaining(p) \in Nat
    BY <1>4, <1>7, LeftOfOrder
  <2>3. isActive \in BOOLEAN
    BY <1>5
  <2> QED BY <1>6, <2>1, <2>2, <2>3
<1>9. /\ others \in Seq(OffsetOrders(split)) /\ Len(others) = n /\ others[id] = o
      /\ SamePlans(others, orders) /\ SameVolumes(others, orders)
      /\ \A i \in 1..n : i # id => others[i] = orders[i]
  <2>1. id \in 1..Len(orders) /\ SamePlan(o, orders[id]) /\ o.volume = orders[id].volume
    BY <1>1, <1>7, <1>8
  <2>2. SwappedAre(split, Swapped(orders, id, o), orders, id, o)
    BY <1>4, <1>8, <2>1, OrderSwapped
  <2>3. others = Swapped(orders, id, o)
    BY <1>5 DEF Swapped
  <2> QED BY <1>1, <2>2, <2>3 DEF SwappedAre
<1>10. acct2 = UnitTraded(acct, o) /\ acct2 \in [Sides -> SideBooks]
  <2>1. splitsToday \in BOOLEAN /\ o \in OffsetOrders(splitsToday)
    BY <1>1, <1>4, <1>8
  <2> QED BY <1>4, <1>5, <2>1, AccountTraded
<1>11. t \in Happenings(split) /\ u \in Happenings(split)
  <2>1. id \in Nat
    BY <1>7
  <2> QED BY <1>5, <1>8, <2>1 DEF Happenings
<1>12. PICK evs2 : evs2 = evs \o <<t, u>>
  OBVIOUS
<1>13. /\ L \in Nat /\ evs2 \in Seq(Happenings(split)) /\ Len(evs2) = L + 2
       /\ evs2[L + 1] = t /\ evs2[L + 2] = u /\ \A k \in 1..L : evs2[k] = evs[k]
  BY <1>1, <1>4, <1>11, <1>12
<1>14. Places(evs) = 0..L /\ Places(evs2) = 0..L + 2 /\ 0 \in Places(evs) /\ L \in Places(evs)
  BY <1>1, <1>13 DEF Places
<1>15. left \in [0..L -> Lefts(orders)] /\ acc \in [0..L -> [Sides -> SideBooks]]
  BY <1>3, <1>14 DEF InFlight, Flow
<1>16. Lefts(orders) = [1..n -> Nat] /\ Lefts(others) = [1..n -> Nat]
  BY <1>1, <1>9 DEF Lefts
<1>17. PICK last, new, left2, acc2 :
         /\ last = left[L] /\ new = Shorter(last, n, id, 1)
         /\ left2 = [k \in 0..L + 2 |-> IF k <= L THEN left[k] ELSE new]
         /\ acc2 = [k \in 0..L + 2 |-> IF k <= L THEN acc[k] ELSE acct2]
  OBVIOUS
<1>18. last \in [1..n -> Nat] /\ (\A i \in 1..n : last[i] = Remaining(orders[i])) /\ acc[L] = acct
  BY <1>1, <1>3, <1>14, <1>15, <1>16, <1>17 DEF InFlight, Ends
<1>19. last[id] = Remaining(p) /\ 1 <= last[id] /\ last[id] \in Nat
  BY <1>1, <1>6, <1>7, <1>8, <1>18
<1>20. new \in [1..n -> Nat] /\ new[id] = last[id] - 1 /\ \A i \in 1..n : i # id => new[i] = last[i]
  <2>1. PICK one : one = 1
    OBVIOUS
  <2>2. one \in Nat /\ one <= last[id] /\ new = Shorter(last, n, id, one)
    BY <1>17, <1>19, <2>1
  <2>3. Shortened(new, last, n, id, one)
    BY <1>7, <1>18, <2>2, ShorterTyped
  <2> QED BY <2>1, <2>3 DEF Shortened
<1>21. left2 \in [0..L + 2 -> [1..n -> Nat]] /\ acc2 \in [0..L + 2 -> [Sides -> SideBooks]]
  <2>1. ASSUME NEW k \in 0..L + 2 PROVE left2[k] \in [1..n -> Nat] /\ acc2[k] \in [Sides -> SideBooks]
    <3>1. CASE k <= L
      <4>1. k \in 0..L
        BY <1>13, <3>1
      <4>2. left2[k] = left[k] /\ acc2[k] = acc[k]
        BY <1>17, <3>1
      <4> QED BY <1>15, <1>16, <4>1, <4>2
    <3>2. CASE ~(k <= L)
      <4>1. left2[k] = new /\ acc2[k] = acct2
        BY <1>17, <3>2
      <4> QED BY <1>10, <1>20, <4>1
    <3> QED BY <3>1, <3>2
  <2>2. left2 = [k \in 0..L + 2 |-> left2[k]] /\ acc2 = [k \in 0..L + 2 |-> acc2[k]]
    BY <1>17
  <2> QED BY <2>1, <2>2
<1>22. Flow(split, others, evs2, left2, acc2)
  <2>1. ASSUME NEW k \in 0..L + 2, k # L + 2
        PROVE  Arrives(others, evs2[k + 1], left2[k], left2[k + 1], acc2[k], acc2[k + 1])
    <3>1. CASE k < L
      <4>1. k \in Places(evs) /\ k # Len(evs) /\ k + 1 \in 0..L /\ k \in 0..L /\ k + 1 \in 1..L
        BY <1>1, <1>13, <1>14, <3>1
      <4>2. PICK m, l, e, a, b : m = left[k] /\ l = left[k + 1] /\ e = evs[k + 1] /\ a = acc[k] /\ b = acc[k + 1]
        OBVIOUS
      <4>3. Arrives(orders, e, m, l, a, b)
        BY <1>3, <4>1, <4>2 DEF InFlight, Flow
      <4>4. m \in Lefts(orders) /\ l \in Lefts(orders) /\ e \in Happenings(split)
        <5>1. m \in Lefts(orders) /\ l \in Lefts(orders)
          BY <1>15, <4>1, <4>2
        <5>2. evs \in Seq(Happenings(split)) /\ k + 1 \in 1..Len(evs)
          BY <1>1, <1>4, <4>1
        <5>3. e \in Happenings(split)
          BY <4>2, <5>2
        <5> QED BY <5>1, <5>3
      <4>5. PICK none : none = 0
        OBVIOUS
      <4>6. none \in Nat /\ none <= l[id]
        BY <1>7, <1>16, <4>4, <4>5
      <4>7. Arrives(others, e, Shorter(m, n, id, none), Shorter(l, n, id, none), a, b)
        BY <1>1, <1>4, <1>7, <1>9, <4>3, <4>4, <4>6, ArrivesLess
      <4>8. Shorter(m, n, id, 0) = m /\ Shorter(l, n, id, 0) = l
        <5>1. \A i \in 1..n : l[i] - 0 = l[i] /\ m[i] - 0 = m[i]
          BY <1>16, <4>4
        <5>2. Shorter(m, n, id, 0) = [i \in 1..n |-> m[i]] /\ Shorter(l, n, id, 0) = [i \in 1..n |-> l[i]]
          BY <5>1 DEF Shorter
        <5> QED BY <1>16, <4>4, <5>2
      <4>9. left2[k] = m /\ left2[k + 1] = l /\ acc2[k] = a /\ acc2[k + 1] = b /\ evs2[k + 1] = e
        BY <1>13, <1>17, <3>1, <4>1, <4>2
      <4> QED BY <4>5, <4>7, <4>8, <4>9
    <3>2. CASE k = L
      <4>1. left2[k] = last /\ acc2[k] = acct /\ left2[k + 1] = new /\ acc2[k + 1] = acct2 /\ evs2[k + 1] = t
        BY <1>13, <1>17, <1>18, <3>2
      <4>2. OneMore(others, last, new, id)
        <5>1. last[id] = new[id] + 1
          BY <1>19, <1>20
        <5> QED BY <1>9, <1>20, <5>1 DEF OneMore
      <4>3. id \in 1..Len(others) /\ SamePlan(o, others[id])
        BY <1>7, <1>9 DEF SamePlan
      <4>4. TradeArrives(others, t, last, new, acct, acct2)
        BY <1>5, <1>10, <4>2, <4>3 DEF TradeArrives
      <4> QED BY <4>1, <4>4 DEF Arrives
    <3>3. CASE k = L + 1
      <4>1. left2[k] = new /\ acc2[k] = acct2 /\ left2[k + 1] = new /\ acc2[k + 1] = acct2 /\ evs2[k + 1] = u
        <5>1. k + 1 = L + 2 /\ ~(k <= L) /\ ~(k + 1 <= L) /\ k + 1 \in 0..L + 2
          BY <1>13, <3>3
        <5> QED BY <1>13, <1>17, <5>1
      <4>2. id \in 1..Len(others) /\ SamePlan(o, others[id])
        BY <1>7, <1>9 DEF SamePlan
      <4>3. new[id] = Remaining(o)
        BY <1>8, <1>19, <1>20
      <4>4. IF isActive THEN Remaining(o) >= new[id] ELSE new[id] = 0
        <5>1. CASE Remaining(o) > 0
          <6>1. isActive
            BY <1>5, <5>1
          <6> QED BY <1>8, <4>3, <6>1
        <5>2. CASE ~(Remaining(o) > 0)
          <6>1. ~isActive
            BY <1>5, <5>2
          <6> QED BY <1>8, <4>3, <5>2, <6>1
        <5> QED BY <5>1, <5>2
      <4>5. u.kind = "order" /\ u.id = id /\ u.order = o /\ u.active = isActive
        BY <1>5
      <4>6. OrderArrives(others, u, new, new, acct2, acct2)
        BY <4>2, <4>4, <4>5 DEF OrderArrives
      <4> QED BY <4>1, <4>6 DEF Arrives
    <3> QED BY <1>13, <2>1, <3>1, <3>2, <3>3
  <2> QED BY <1>13, <1>14, <1>16, <1>21, <2>1 DEF Flow
<1>23. Ends(hs, acct2, others, evs2, left2, acc2)
  <2>1. left2[L + 2] = new /\ acc2[L + 2] = acct2 /\ acc2[0] = acc[0]
    BY <1>13, <1>17
  <2>2. \A i \in 1..n : new[i] = Remaining(others[i])
    BY <1>8, <1>9, <1>18, <1>19, <1>20
  <2>3. acc[0] = BooksOf(hs)
    BY <1>3 DEF InFlight, Ends
  <2> QED BY <1>9, <1>13, <2>1, <2>2, <2>3 DEF Ends
<1>24. StandsAt(split, hs, book, toS, unreg, others, left2[0]) /\ BookOf(split, book, others)
  <2>1. PICK l : l = left[0]
    OBVIOUS
  <2>2. left2[0] = l /\ l \in Lefts(orders) /\ l \in Lefts(others)
    BY <1>13, <1>15, <1>16, <1>17, <2>1
  <2>3. NoMore(orders, l, l)
    BY <2>2 DEF NoMore, Lefts
  <2>4. StandsAt(split, hs, book, toS, unreg, orders, l)
    BY <1>3, <2>1
  <2>5. StandsAt(split, hs, book, toS, unreg, others, l) /\ BookOf(split, book, others)
    BY <1>4, <1>9, <2>2, <2>3, <2>4, StandsStill
  <2> QED BY <2>2, <2>5
<1>25. OffsetTyped(split, hs, book, toS, unreg, acct2, others, evs2)
  BY <1>1, <1>4, <1>9, <1>10, <1>13, <1>24 DEF OffsetTyped
<1>26. InFlight(split, hs, acct2, others, evs2, left2, acc2)
  BY <1>22, <1>23 DEF InFlight
<1>27. OffsetTyped(splitsToday', holding', holdingOrders', toSend', unregistered', account', placed', events')
  BY <1>6, <1>12, <1>25
<1>28. /\ InFlight(splitsToday', holding', account', placed', events', left2, acc2)
       /\ StandsAt(splitsToday', holding', holdingOrders', toSend', unregistered', placed', left2[0])
  BY <1>6, <1>12, <1>24, <1>26
<1> QED BY <1>27, <1>28 DEF OffsetInv

\* The exchange cancels: the order has so much less left at every place.
LEMMA CancelKeeps == ASSUME OffsetInv, NEW id \in DOMAIN placed, ExchangeCancels(id) PROVE OffsetInv'
<1>1. PICK split, hs, book, toS, unreg, acct, orders, evs, n, L, p :
        /\ split = splitsToday /\ hs = holding /\ book = holdingOrders /\ toS = toSend /\ unreg = unregistered
        /\ acct = account /\ orders = placed /\ evs = events
        /\ n = Len(orders) /\ L = Len(evs) /\ p = orders[id]
  OBVIOUS
<1>2. OffsetTyped(split, hs, book, toS, unreg, acct, orders, evs)
  BY <1>1 DEF OffsetInv
<1>3. PICK left, acc : InFlight(split, hs, acct, orders, evs, left, acc)
                       /\ StandsAt(split, hs, book, toS, unreg, orders, left[0])
  BY <1>1 DEF OffsetInv
<1>4. /\ split \in BOOLEAN /\ orders \in Seq(OffsetOrders(split)) /\ evs \in Seq(Happenings(split))
      /\ hs \in Holdings /\ acct \in [Sides -> SideBooks] /\ BookOf(split, book, orders) /\ Unsent(split, toS)
      /\ unreg \in 0..Len(orders)
  BY <1>2 DEF OffsetTyped
<1>5. PICK o, others, u, r :
        /\ o = [p EXCEPT !.live = FALSE] /\ others = [orders EXCEPT ![id] = o]
        /\ u = [kind |-> "order", id |-> id, order |-> o, active |-> FALSE] /\ r = Remaining(p)
  OBVIOUS
<1>6. /\ Remaining(p) > 0 /\ placed' = others /\ account' = acct /\ events' = Append(evs, u)
      /\ splitsToday' = split /\ holding' = hs /\ holdingOrders' = book /\ toSend' = toS /\ unregistered' = unreg
  BY <1>1, <1>5 DEF ExchangeCancels, OrderEventOf, converterVars, callerVars
<1>7. id \in 1..n /\ n \in Nat /\ p \in OffsetOrders(split)
  BY <1>1, <1>4
<1>8. o \in OffsetOrders(split) /\ SamePlan(o, p) /\ o.volume = p.volume /\ Remaining(o) = 0
      /\ r \in Nat /\ r > 0
  <2>1. o \in OffsetOrders(split) /\ SamePlan(o, p) /\ o.volume = p.volume /\ Remaining(o) = 0
    BY <1>4, <1>5, <1>6, <1>7, OrderWithLeft
  <2>2. Remaining(p) \in Nat
    BY <1>4, <1>7, LeftOfOrder
  <2> QED BY <1>5, <1>6, <2>1, <2>2
<1>9. /\ others \in Seq(OffsetOrders(split)) /\ Len(others) = n /\ others[id] = o
      /\ SamePlans(others, orders) /\ SameVolumes(others, orders)
      /\ \A i \in 1..n : i # id => others[i] = orders[i]
  <2>1. id \in 1..Len(orders) /\ SamePlan(o, orders[id]) /\ o.volume = orders[id].volume
    BY <1>1, <1>7, <1>8
  <2>2. SwappedAre(split, Swapped(orders, id, o), orders, id, o)
    BY <1>4, <1>8, <2>1, OrderSwapped
  <2>3. others = Swapped(orders, id, o)
    BY <1>5 DEF Swapped
  <2> QED BY <1>1, <2>2, <2>3 DEF SwappedAre
<1>10. u \in Happenings(split)
  <2>1. id \in Nat
    BY <1>7
  <2> QED BY <1>5, <1>8, <2>1 DEF Happenings
<1>11. PICK evs2 : evs2 = Append(evs, u)
  OBVIOUS
<1>12. /\ L \in Nat /\ evs2 \in Seq(Happenings(split)) /\ Len(evs2) = L + 1
       /\ evs2[L + 1] = u /\ \A k \in 1..L : evs2[k] = evs[k]
  BY <1>1, <1>4, <1>10, <1>11
<1>13. Places(evs) = 0..L /\ Places(evs2) = 0..L + 1 /\ 0 \in Places(evs) /\ L \in Places(evs)
  BY <1>1, <1>12 DEF Places
<1>14. left \in [0..L -> Lefts(orders)] /\ acc \in [0..L -> [Sides -> SideBooks]]
  BY <1>3, <1>13 DEF InFlight, Flow
<1>15. Lefts(orders) = [1..n -> Nat] /\ Lefts(others) = [1..n -> Nat]
  BY <1>1, <1>9 DEF Lefts
<1>16. PICK left2, acc2 :
         /\ left2 = [k \in 0..L + 1 |-> Shorter(left[IF k <= L THEN k ELSE L], n, id, r)]
         /\ acc2 = [k \in 0..L + 1 |-> acc[IF k <= L THEN k ELSE L]]
  OBVIOUS
<1>17. /\ \A k \in 0..L : left2[k] = Shorter(left[k], n, id, r) /\ acc2[k] = acc[k]
       /\ left2[L + 1] = Shorter(left[L], n, id, r) /\ acc2[L + 1] = acc[L]
  BY <1>12, <1>16
<1>18. /\ \A i \in 1..n : left[L][i] = Remaining(orders[i])
       /\ acc[0] = BooksOf(hs) /\ acc[L] = acct
  BY <1>1, <1>3 DEF InFlight, Ends
<1>19. ASSUME NEW k \in 0..L PROVE r <= left[k][id]
  <2>1. left[L][id] <= left[k][id]
    BY <1>1, <1>3, <1>4, <1>7, <1>13, LeftAtEnd DEF InFlight
  <2>2. left[L][id] = r
    BY <1>1, <1>5, <1>7, <1>18
  <2> QED BY <2>1, <2>2
<1>20. ASSUME NEW k \in 0..L
       PROVE  /\ left2[k] \in [1..n -> Nat] /\ left2[k][id] = left[k][id] - r
              /\ \A i \in 1..n : i # id => left2[k][i] = left[k][i]
              /\ \A i \in 1..n : left2[k][i] <= left[k][i]
  <2>1. PICK l : l = left[k]
    OBVIOUS
  <2>2. l \in [1..n -> Nat] /\ r <= l[id] /\ left2[k] = Shorter(l, n, id, r)
    BY <1>14, <1>15, <1>17, <1>19, <2>1
  <2>3. Shortened(Shorter(l, n, id, r), l, n, id, r)
    <3>1. n \in Nat /\ id \in 1..n /\ r \in Nat
      BY <1>7, <1>8
    <3> QED BY <2>2, <3>1, ShorterTyped
  <2> QED BY <2>1, <2>2, <2>3 DEF Shortened
<1>21. left2[L + 1] = left2[L] /\ acc2[L + 1] = acc2[L] /\ L \in 0..L /\ L + 1 \in 0..L + 1
  BY <1>12, <1>17
<1>22. left2 \in [0..L + 1 -> [1..n -> Nat]] /\ acc2 \in [0..L + 1 -> [Sides -> SideBooks]]
  <2>1. \A k \in 0..L + 1 : k \in 0..L \/ k = L + 1
    BY <1>12
  <2>2. ASSUME NEW k \in 0..L PROVE left2[k] \in [1..n -> Nat] /\ acc2[k] \in [Sides -> SideBooks]
    BY <1>14, <1>17, <1>20
  <2>3. \A k \in 0..L + 1 : left2[k] \in [1..n -> Nat] /\ acc2[k] \in [Sides -> SideBooks]
    BY <1>21, <2>1, <2>2
  <2>4. left2 = [k \in 0..L + 1 |-> left2[k]] /\ acc2 = [k \in 0..L + 1 |-> acc2[k]]
    BY <1>16
  <2> QED BY <2>3, <2>4
<1>23. Flow(split, others, evs2, left2, acc2)
  <2>1. ASSUME NEW k \in 0..L + 1, k # L + 1
        PROVE  Arrives(others, evs2[k + 1], left2[k], left2[k + 1], acc2[k], acc2[k + 1])
    <3>1. CASE k < L
      <4>1. k \in Places(evs) /\ k # Len(evs) /\ k + 1 \in 0..L /\ k \in 0..L /\ k + 1 \in 1..L
        BY <1>1, <1>12, <1>13, <3>1
      <4>2. PICK m, l, e, a, b : m = left[k] /\ l = left[k + 1] /\ e = evs[k + 1] /\ a = acc[k] /\ b = acc[k + 1]
        OBVIOUS
      <4>3. Arrives(orders, e, m, l, a, b)
        BY <1>3, <4>1, <4>2 DEF InFlight, Flow
      <4>4. m \in Lefts(orders) /\ l \in Lefts(orders) /\ e \in Happenings(split) /\ r <= l[id]
        BY <1>1, <1>4, <1>14, <1>19, <4>1, <4>2
      <4>5. Arrives(others, e, Shorter(m, n, id, r), Shorter(l, n, id, r), a, b)
        BY <1>1, <1>4, <1>7, <1>8, <1>9, <4>3, <4>4, ArrivesLess
      <4>6. left2[k] = Shorter(m, n, id, r) /\ left2[k + 1] = Shorter(l, n, id, r)
            /\ acc2[k] = a /\ acc2[k + 1] = b /\ evs2[k + 1] = e
        BY <1>12, <1>17, <4>1, <4>2
      <4> QED BY <4>5, <4>6
    <3>2. CASE k = L
      <4>1. PICK l, a : l = left2[L] /\ a = acc2[L]
        OBVIOUS
      <4>2. left2[k] = l /\ acc2[k] = a /\ left2[k + 1] = l /\ acc2[k + 1] = a /\ evs2[k + 1] = u
        BY <1>12, <1>21, <3>2, <4>1
      <4>3. id \in 1..Len(others) /\ SamePlan(o, others[id])
        BY <1>7, <1>9 DEF SamePlan
      <4>4. l[id] = 0
        <5>1. left[L][id] = r
          BY <1>1, <1>5, <1>7, <1>18
        <5> QED BY <1>8, <1>20, <1>21, <4>1, <5>1
      <4>5. OrderArrives(others, u, l, l, a, a)
        BY <1>5, <4>3, <4>4 DEF OrderArrives
      <4> QED BY <4>2, <4>5 DEF Arrives
    <3> QED BY <1>12, <2>1, <3>1, <3>2
  <2> QED BY <1>12, <1>13, <1>15, <1>22, <2>1 DEF Flow
<1>24. Ends(hs, acct, others, evs2, left2, acc2)
  <2>1. acc2[L + 1] = acct /\ acc2[0] = BooksOf(hs)
    BY <1>13, <1>17, <1>18
  <2>2. \A i \in 1..n : left2[L][i] = Remaining(others[i])
    <3>1. left2[L][id] = Remaining(others[id])
      <4>1. left[L][id] = r
        BY <1>1, <1>5, <1>7, <1>18
      <4> QED BY <1>8, <1>9, <1>20, <1>21, <4>1
    <3>2. \A i \in 1..n : i # id => left2[L][i] = Remaining(others[i])
      BY <1>9, <1>18, <1>20, <1>21
    <3> QED BY <3>1, <3>2
  <2> QED BY <1>9, <1>12, <1>21, <2>1, <2>2 DEF Ends
<1>25. StandsAt(split, hs, book, toS, unreg, others, left2[0]) /\ BookOf(split, book, others)
  <2>1. PICK l, l2 : l = left[0] /\ l2 = left2[0]
    OBVIOUS
  <2>2. l \in Lefts(orders) /\ l2 \in Lefts(others) /\ NoMore(orders, l2, l)
    BY <1>1, <1>13, <1>14, <1>15, <1>20, <2>1 DEF NoMore
  <2>3. StandsAt(split, hs, book, toS, unreg, orders, l)
    BY <1>3, <2>1
  <2>4. StandsAt(split, hs, book, toS, unreg, others, l2) /\ BookOf(split, book, others)
    BY <1>4, <1>9, <2>2, <2>3, StandsStill
  <2> QED BY <2>1, <2>4
<1>26. OffsetTyped(split, hs, book, toS, unreg, acct, others, evs2)
  BY <1>1, <1>4, <1>9, <1>12, <1>25 DEF OffsetTyped
<1>27. InFlight(split, hs, acct, others, evs2, left2, acc2)
  BY <1>23, <1>24 DEF InFlight
<1>28. OffsetTyped(splitsToday', holding', holdingOrders', toSend', unregistered', account', placed', events')
  BY <1>6, <1>11, <1>26
<1>29. /\ InFlight(splitsToday', holding', account', placed', events', left2, acc2)
       /\ StandsAt(splitsToday', holding', holdingOrders', toSend', unregistered', placed', left2[0])
  BY <1>6, <1>11, <1>25, <1>27
<1> QED BY <1>28, <1>29 DEF OffsetInv

LEMMA OffsetStands == ASSUME OffsetInv, UNCHANGED offsetVars PROVE OffsetInv'
<1>1. /\ splitsToday' = splitsToday /\ holding' = holding /\ holdingOrders' = holdingOrders
      /\ toSend' = toSend /\ unregistered' = unregistered /\ account' = account
      /\ placed' = placed /\ events' = events
  BY DEF offsetVars, converterVars, callerVars, exchangeVars
<1>2. OffsetTyped(splitsToday, holding, holdingOrders, toSend, unregistered, account, placed, events)
  BY DEF OffsetInv
<1>3. PICK left, acc :
        /\ InFlight(splitsToday, holding, account, placed, events, left, acc)
        /\ StandsAt(splitsToday, holding, holdingOrders, toSend, unregistered, placed, left[0])
  BY DEF OffsetInv
<1>4. OffsetTyped(splitsToday', holding', holdingOrders', toSend', unregistered', account', placed', events')
  BY <1>1, <1>2
<1>5. /\ InFlight(splitsToday', holding', account', placed', events', left, acc)
      /\ StandsAt(splitsToday', holding', holdingOrders', toSend', unregistered', placed', left[0])
  BY <1>1, <1>3
<1> QED BY <1>4, <1>5 DEF OffsetInv

LEMMA OffsetStep == ASSUME OffsetInv, OffsetNext PROVE OffsetInv'
<1>1. CASE \E direction \in Sides, v \in RequestVolumes, mode \in {"split", "lock", "net"} :
             ConvertOrderRequest(direction, v, mode)
  BY <1>1, ConvertKeeps
<1>2. CASE SendConverted
  BY <1>2, SendKeeps
<1>3. CASE UpdateOrderRequest
  BY <1>3, RegisterKeeps
<1>4. CASE Deliver
  BY <1>4, DeliverKeeps
<1>5. CASE \E id \in DOMAIN placed : ExchangeFills(id) \/ ExchangeCancels(id)
  BY <1>5, FillKeeps, CancelKeeps
<1> QED BY <1>1, <1>2, <1>3, <1>4, <1>5 DEF OffsetNext

\* At the last place what is due is what the exchange's orders close.
LEMMA OffsetGives == ASSUME OffsetInv PROVE ClosesCovered
<1>1. PICK split, hs, acct, orders, evs, L :
        /\ split = splitsToday /\ hs = holding /\ acct = account /\ orders = placed /\ evs = events
        /\ L = Len(evs)
  OBVIOUS
<1>2. /\ split \in BOOLEAN /\ orders \in Seq(OffsetOrders(split)) /\ evs \in Seq(Happenings(split))
      /\ hs \in Holdings /\ acct \in [Sides -> SideBooks]
  BY <1>1 DEF OffsetInv, OffsetTyped
<1>3. PICK left, acc : InFlight(split, hs, acct, orders, evs, left, acc)
                       /\ StandsAt(split, hs, holdingOrders, toSend, unregistered, orders, left[0])
  BY <1>1 DEF OffsetInv
<1>4. /\ Flow(split, orders, evs, left, acc) /\ acc[0] = BooksOf(hs) /\ acc[L] = acct
      /\ \A i \in 1..Len(orders) : left[L][i] = Remaining(orders[i])
  BY <1>1, <1>3 DEF InFlight, Ends
<1>5. PICK l : l = left[L]
  OBVIOUS
<1>6. Covered(split, orders, l, acct)
  <2>1. Covered(split, orders, left[0], acc[0])
    BY <1>3, <1>4 DEF StandsAt
  <2>2. Covered(split, orders, left[Len(evs)], acc[Len(evs)])
    BY <1>2, <1>4, <2>1, CoveredToTheEnd
  <2> QED BY <1>1, <1>4, <1>5, <2>2
<1>7. l \in Lefts(orders)
  <2>1. L \in Places(evs)
    BY <1>1, <1>2, PlaceFacts
  <2> QED BY <1>4, <1>5, <2>1 DEF Flow
<1>8. ASSUME NEW s \in Sides, NEW off
      PROVE  /\ Closing(orders, s, off) \in Nat /\ Closing(orders, s, off) = Due(orders, l, s, off)
             /\ off \notin SplitOffsets(split) \cup {"OPEN"} => Closing(orders, s, off) = 0
  <2>1. Closing(orders, s, off) = Due(orders, l, s, off)
    <3>1. \A i \in 1..Len(orders) : l[i] = Remaining(orders[i])
      BY <1>4, <1>5
    <3> QED BY <1>2, <1>7, <3>1, ClosingIsDue
  <2>2. BookOf(split, orders, orders)
    <3>1. DOMAIN orders = 1..Len(orders) /\ \A i \in 1..Len(orders) : orders[i] \in OffsetOrders(split)
      BY <1>2
    <3> QED BY <3>1 DEF BookOf
  <2>3. PICK book : book = orders
    OBVIOUS
  <2>4. BookOf(split, book, orders)
    BY <2>2, <2>3
  <2>5. /\ Closing(book, s, off) \in Nat
        /\ off \notin SplitOffsets(split) \cup {"OPEN"} => Closing(book, s, off) = 0
    BY <1>2, <1>7, <2>4, BookCovers
  <2> QED BY <2>1, <2>3, <2>5
<1>9. ASSUME NEW s \in Sides
      PROVE  LET td == Closing(orders, s, "CLOSETODAY")  yd == Closing(orders, s, "CLOSEYESTERDAY") IN
             /\ td <= acct[s].td /\ yd <= acct[s].yd
             /\ td + yd + Closing(orders, s, "CLOSE") <= acct[s].td + acct[s].yd
  <2>1. PICK td, yd, either :
          /\ td = Closing(orders, s, "CLOSETODAY") /\ yd = Closing(orders, s, "CLOSEYESTERDAY")
          /\ either = Closing(orders, s, "CLOSE")
    OBVIOUS
  <2>2. acct[s].td \in Int /\ acct[s].yd \in Int /\ 0 <= acct[s].td /\ 0 <= acct[s].yd
    BY <1>2, <1>6, BooksTyped DEF Covered
  <2>3. td \in Nat /\ yd \in Nat /\ either \in Nat
    BY <1>8, <2>1
  <2>4. CASE split
    <3>1. SplitOffsets(split) = {"CLOSETODAY", "CLOSEYESTERDAY"}
      BY <2>4 DEF SplitOffsets
    <3>2. td <= Room(acct[s], "CLOSETODAY") /\ yd <= Room(acct[s], "CLOSEYESTERDAY")
      BY <1>6, <1>8, <2>1, <3>1 DEF Covered
    <3>3. td <= acct[s].td /\ yd <= acct[s].yd
      BY <3>2 DEF Room
    <3>4. either = 0
      BY <1>8, <2>1, <3>1
    <3> QED BY <2>1, <2>2, <2>3, <3>3, <3>4
  <2>5. CASE ~split
    <3>1. SplitOffsets(split) = {"CLOSE"}
      BY <2>5 DEF SplitOffsets
    <3>2. either <= Room(acct[s], "CLOSE")
      BY <1>6, <1>8, <2>1, <3>1 DEF Covered
    <3>3. either <= acct[s].td + acct[s].yd
      BY <3>2 DEF Room
    <3>4. td = 0 /\ yd = 0
      BY <1>8, <2>1, <3>1
    <3> QED BY <2>1, <2>2, <2>3, <3>3, <3>4
  <2> QED BY <1>2, <2>4, <2>5
<1>10. ASSUME evs = <<>>, NEW s \in Sides PROVE [td |-> hs[s].td, yd |-> hs[s].yd] = acct[s]
  <2>1. L = 0
    BY <1>1, <1>10
  <2>2. acct = BooksOf(hs)
    BY <1>4, <2>1
  <2> QED BY <2>2 DEF BooksOf
<1> QED BY <1>1, <1>9, <1>10 DEF ClosesCovered

\* In whatever order fills, cancels, registrations and new requests meet, no close
\* is sent for a position the account does not have.
THEOREM ClosesCoveredEver == DeskSpec => []ClosesCovered
<1>1. DeskInit => OffsetInv
  BY InitOffset DEF DeskInit
<1>2. OffsetInv /\ [DeskNext]_deskVars => OffsetInv'
  <2> SUFFICES ASSUME OffsetInv, [DeskNext]_deskVars PROVE OffsetInv'
    OBVIOUS
  <2>1. CASE OffsetTrades
    BY <2>1, OffsetStep DEF OffsetTrades
  <2>2. CASE ~OffsetTrades
    <3>1. UNCHANGED offsetVars
      BY <2>2 DEF DeskNext, deskVars, ledgerVars, GridTrades, BacktestTrades, TargetTrades,
         ValidationTrades, BuiltinTrades, AccountTrades, ContextTrades, Optimizes, Judges, NoBrokerage
    <3> QED BY <3>1, OffsetStands
  <2> QED BY <2>1, <2>2
<1>3. OffsetInv => ClosesCovered
  BY OffsetGives
<1> QED BY <1>1, <1>2, <1>3, PTL DEF DeskSpec
==============================================================================
