-------------------------- MODULE BoardPageProofs --------------------------
(***************************************************************************)
(* Proofs about the board page, for any number of columns, cards, actions, *)
(* requests and faults: the types, that the page is reconciled with the    *)
(* server, and that an item is shown where it was dropped.  The last two   *)
(* need that there is a last position, and that halving stays exact.       *)
(***************************************************************************)
EXTENDS BoardPage, FiniteSetTheorems, TLAPS

-----------------------------------------------------------------------------
(* The last position *)

\* Of a finite set of items some have the last position: those with the fewest
\* behind them.
LEMMA LastExists ==
    ASSUME NEW b, NEW S, IsFiniteSet(S), S # {}, \A x \in S : b[x].pos \in Nat
    PROVE  \E p \in {b[x].pos : x \in S} : \A x \in S : b[x].pos <= p
<1> DEFINE Behind(x) == {y \in S : b[x].pos < b[y].pos}
           T == {Behind(x) : x \in S}
<1>1. T # {} /\ T \subseteq FiniteSubsetsOf(S)
  <2>1. ASSUME NEW x \in S PROVE Behind(x) \in SUBSET S /\ IsFiniteSet(Behind(x))
    <3>1. Behind(x) \in SUBSET S
      OBVIOUS
    <3> QED BY <3>1, FS_Subset
  <2> QED BY <2>1 DEF FiniteSubsetsOf
<1>2. PICK few \in T : \A other \in T : <<other, few>> \notin StrictSubsetOrdering(S)
  <2> HIDE DEF T
  <2> QED BY <1>1, FS_StrictSubsetOrderingWellFounded, WFMin
<1>3. PICK x \in S : few = Behind(x)
  OBVIOUS
<1>4. ASSUME NEW y \in S, b[x].pos < b[y].pos PROVE FALSE
  <2>1. Behind(y) \subseteq Behind(x) /\ y \in Behind(x) /\ y \notin Behind(y)
    BY <1>4
  <2>2. Behind(y) # Behind(x) /\ Behind(x) \in SUBSET S /\ Behind(y) \in SUBSET S
    BY <2>1
  <2> HIDE DEF Behind
  <2>3. <<Behind(y), Behind(x)>> \in StrictSubsetOrdering(S)
    BY <2>1, <2>2 DEF StrictSubsetOrdering
  <2> QED BY <1>2, <1>3, <2>3
<1>5. \A y \in S : b[y].pos <= b[x].pos
  BY <1>4
<1> QED BY <1>5

\* LastPos finds it.
LEMMA LastFound ==
    ASSUME NEW b, NEW S, IsFiniteSet(S), S # {}, \A x \in S : b[x].pos \in Nat
    PROVE  /\ \E x \in S : LastPos(b, S) = b[x].pos
           /\ \A x \in S : b[x].pos <= LastPos(b, S)
<1> DEFINE P == {b[x].pos : x \in S}
           last == CHOOSE p \in P : \A x \in S : b[x].pos <= p
<1>1. last \in P /\ \A x \in S : b[x].pos <= last
  BY LastExists
<1>2. LastPos(b, S) = last
  BY DEF LastPos
<1> QED BY <1>1, <1>2

-----------------------------------------------------------------------------
(* Multiples *)

Multiples(u) == {q * u : q \in Nat \ {0}}

\* Positions that are halved stay multiples of the half.
LEMMA Halving ==
    ASSUME NEW v \in Nat \ {0}
    PROVE  /\ \A x \in Multiples(2 * v) : x \in Multiples(v) /\ x \div 2 \in Multiples(v) /\ x \div 2 < x
           /\ \A x, y \in Multiples(2 * v) :
                 /\ (x + y) \div 2 \in Multiples(v)
                 /\ x < y => x < (x + y) \div 2 /\ (x + y) \div 2 < y
<1>1. ASSUME NEW x \in Multiples(2 * v) PROVE \E a \in Nat \ {0} : x = 2 * (a * v)
  <2>1. PICK a \in Nat \ {0} : x = a * (2 * v)
    BY DEF Multiples
  <2>2. x = 2 * (a * v)
    BY <2>1
  <2> QED BY <2>2
<1>2. ASSUME NEW a \in Nat \ {0} PROVE a * v \in Nat \ {0} /\ a * v \in Multiples(v) /\ 2 * (a * v) = (2 * a) * v
  <2>1. a * v \in Nat \ {0}
    OBVIOUS
  <2>2. 2 * (a * v) = (2 * a) * v
    OBVIOUS
  <2> QED BY <2>1, <2>2 DEF Multiples
<1>3. ASSUME NEW x \in Multiples(2 * v)
      PROVE  x \in Multiples(v) /\ x \div 2 \in Multiples(v) /\ x \div 2 < x
  <2>1. PICK a \in Nat \ {0} : x = 2 * (a * v)
    BY <1>1
  <2> DEFINE half == a * v
  <2>2. half \in Nat \ {0} /\ half \in Multiples(v) /\ x = 2 * half /\ x = (2 * a) * v
    BY <1>2, <2>1
  <2>3. x \in Multiples(v)
    BY <2>2 DEF Multiples
  <2> HIDE DEF half
  <2>4. x \div 2 = half /\ half < x
    BY <2>2
  <2> QED BY <2>2, <2>3, <2>4
<1>4. ASSUME NEW x \in Multiples(2 * v), NEW y \in Multiples(2 * v)
      PROVE  /\ (x + y) \div 2 \in Multiples(v)
             /\ x < y => x < (x + y) \div 2 /\ (x + y) \div 2 < y
  <2>1. PICK a \in Nat \ {0}, c \in Nat \ {0} : x = 2 * (a * v) /\ y = 2 * (c * v)
    BY <1>1
  <2> DEFINE half == a * v
             other == c * v
  <2>2. half \in Nat \ {0} /\ other \in Nat \ {0} /\ x = 2 * half /\ y = 2 * other
    BY <1>2, <2>1
  <2>3. half + other = (a + c) * v
    OBVIOUS
  <2>4. half + other \in Multiples(v)
    BY <2>3 DEF Multiples
  <2> HIDE DEF half, other
  <2>5. (x + y) \div 2 = half + other
    BY <2>2
  <2> QED BY <2>2, <2>4, <2>5
<1> QED BY <1>3, <1>4

\* A step further is a multiple, too.
LEMMA Adding ==
    ASSUME NEW u \in Nat \ {0}, NEW x \in Multiples(u), NEW y \in Multiples(u)
    PROVE  x + y \in Multiples(u) /\ x \in Nat /\ y \in Nat /\ y > 0 /\ x < x + y
<1>1. PICK a \in Nat \ {0}, c \in Nat \ {0} : x = a * u /\ y = c * u
  BY DEF Multiples
<1>2. x + y = (a + c) * u /\ a + c \in Nat \ {0}
  BY <1>1
<1>3. x \in Nat \ {0} /\ y \in Nat \ {0}
  BY <1>1
<1> QED BY <1>2, <1>3 DEF Multiples

\* What positions are multiples of, after so many actions.
Unit == CHOOSE half \in [0..MaxActs -> 1..STEP] :
           half[0] = STEP /\ \A n \in 1..MaxActs : half[n - 1] = 2 * half[n]

\* The units are whole, and each is half of the one before.
LEMMA UnitHalves ==
    /\ Unit \in [0..MaxActs -> 1..STEP] /\ Unit[0] = STEP
    /\ \A n \in 1..MaxActs : Unit[n - 1] = 2 * Unit[n]
BY DropAssumption DEF Unit

-----------------------------------------------------------------------------
(* The inductive invariant *)

\* Columns are in the board and cards in columns.
Home(x, place) == place \in Place /\ IF x \in Columns THEN place.in = Root ELSE place.in \in Columns

\* A board whose rows are where they may be, at multiples of the unit.
Fits(b, u) ==
    /\ b \in Board
    /\ \A x \in Items : b[x] \notin {New, Gone} => Home(x, b[x]) /\ b[x].pos \in Multiples(u)

\* A request that puts something puts it where it may be.
Sendable(m, u) ==
    /\ m \in Request
    /\ m.kind # "remove" => Home(m.id, m.to)
    /\ m.kind = "move" => m.to.pos \in Multiples(u)

\* Both boards, what a fetch has read and what is in flight are multiples of u.
Fitting(u) ==
    /\ STEP \in Multiples(u)
    /\ Fits(server, u) /\ Fits(page, u)
    /\ fetch \in {None, Asked} \/ Fits(fetch, u)
    /\ \A m \in sent : Sendable(m, u)

Counted == unsure \in BOOLEAN /\ acts \in 0..MaxActs /\ faults \in 0..MaxFaults

BoardInv == Counted /\ Fitting(Unit[acts])

\* The bounds are numbers.
LEMMA BoundsAre == MaxActs \in Nat /\ MaxFaults \in Nat /\ 0 \in 0..MaxActs /\ 0 \in 0..MaxFaults
BY DropAssumption

\* What fits is typed.
LEMMA InvTyped == BoardInv => TypeOK
BY DEF BoardInv, Counted, Fitting, Fits, Sendable, TypeOK

\* What fits a unit fits its half.
LEMMA FittingHalved ==
    ASSUME NEW v \in Nat \ {0}, Fitting(2 * v)
    PROVE  Fitting(v)
<1>1. ASSUME NEW b, Fits(b, 2 * v) PROVE Fits(b, v)
  BY <1>1, Halving DEF Fits
<1>2. ASSUME NEW m, Sendable(m, 2 * v) PROVE Sendable(m, v)
  BY <1>2, Halving DEF Sendable
<1> QED BY <1>1, <1>2, Halving DEF Fitting

\* As long as the user may act the unit can be halved.
LEMMA UnitNow ==
    ASSUME Counted
    PROVE  /\ Unit[acts] \in Nat \ {0}
           /\ acts < MaxActs => Unit[acts + 1] \in Nat \ {0} /\ Unit[acts] = 2 * Unit[acts + 1]
<1>1. acts \in 0..MaxActs /\ MaxActs \in Nat
  BY DropAssumption DEF Counted
<1>2. Unit[acts] \in Nat \ {0}
  BY <1>1, UnitHalves, DropAssumption
<1>3. ASSUME acts < MaxActs PROVE Unit[acts + 1] \in Nat \ {0} /\ Unit[acts] = 2 * Unit[acts + 1]
  <2>1. acts + 1 \in 1..MaxActs /\ acts + 1 \in 0..MaxActs /\ (acts + 1) - 1 = acts
    BY <1>1, <1>3
  <2>2. Unit[(acts + 1) - 1] = 2 * Unit[acts + 1]
    BY <2>1, UnitHalves
  <2>3. Unit[acts + 1] \in 1..STEP /\ STEP \in Nat
    BY <2>1, UnitHalves, DropAssumption
  <2>4. Unit[acts + 1] \in Nat \ {0}
    BY <2>3
  <2> QED BY <2>1, <2>2, <2>4
<1> QED BY <1>2, <1>3

-----------------------------------------------------------------------------
(* Lists and positions *)

\* The items in a list of a board that fits.
LEMMA ListedFits ==
    ASSUME NEW u \in Nat \ {0}, NEW b, Fits(b, u), NEW c
    PROVE  /\ IsFiniteSet(Listed(b, c)) /\ Listed(b, c) \subseteq Items
           /\ \A x \in Listed(b, c) : Home(x, b[x]) /\ b[x].pos \in Multiples(u) /\ b[x].pos \in Nat
           /\ \A S \in SUBSET Listed(b, c) : IsFiniteSet(S)
<1>1. IsFiniteSet(Items)
  BY FS_Union, IdAssumption DEF Items
<1>2. Listed(b, c) \in SUBSET Items
  BY DEF Listed
<1>3. IsFiniteSet(Listed(b, c))
  BY <1>1, <1>2, FS_Subset
<1>4. \A S \in SUBSET Listed(b, c) : IsFiniteSet(S)
  BY <1>3, FS_Subset
<1>5. \A x \in Listed(b, c) : Home(x, b[x]) /\ b[x].pos \in Multiples(u) /\ b[x].pos \in Nat
  BY DEF Listed, Shown, Fits, Home, Place
<1> QED BY <1>2, <1>3, <1>4, <1>5

\* What is put last comes after the others.
LEMMA AppendedLast ==
    ASSUME NEW v \in Nat \ {0}, STEP \in Multiples(2 * v), NEW b, Fits(b, 2 * v), NEW c,
           NEW S \in SUBSET Listed(b, c)
    PROVE  AppendedAt(b, S) \in Multiples(v) /\ \A z \in S : b[z].pos < AppendedAt(b, S)
<1>1. /\ IsFiniteSet(S)
      /\ \A x \in S : b[x].pos \in Multiples(2 * v) /\ b[x].pos \in Nat
  BY ListedFits
<1>2. CASE S = {}
  <2>1. AppendedAt(b, S) = STEP
    BY <1>2 DEF AppendedAt, Midpoint
  <2> QED BY <1>2, <2>1, Halving
<1>3. CASE S # {}
  <2> DEFINE last == LastPos(b, S)
  <2>1. (\E x \in S : last = b[x].pos) /\ \A x \in S : b[x].pos <= last
    BY <1>1, <1>3, LastFound
  <2> HIDE DEF last
  <2>2. last \in Multiples(2 * v) /\ last \in Nat
    BY <1>1, <2>1
  <2>3. AppendedAt(b, S) = last + STEP
    BY <1>3, <2>2, IdAssumption DEF AppendedAt, Midpoint, last
  <2>4. last + STEP \in Multiples(2 * v) /\ last < last + STEP /\ STEP \in Nat
    BY <2>2, Adding
  <2>5. last + STEP \in Multiples(v)
    BY <2>4, Halving
  <2> QED BY <1>1, <2>1, <2>2, <2>3, <2>4, <2>5
<1> QED BY <1>2, <1>3

\* What is put before another comes right before it.
LEMMA InsertedBefore ==
    ASSUME NEW v \in Nat \ {0}, NEW b, Fits(b, 2 * v), NEW c,
           NEW S \in SUBSET Listed(b, c), NEW y \in S, NEW at \in InsertedAt(b, S, y)
    PROVE  /\ at \in Multiples(v)
           /\ Distinct(b, S) =>
                \A z \in S : IF b[z].pos >= b[y].pos THEN at < b[z].pos ELSE b[z].pos < at
<1>1. /\ \A x \in S : b[x].pos \in Multiples(2 * v) /\ b[x].pos \in Nat
      /\ \A less \in SUBSET S : IsFiniteSet(less)
  BY ListedFits
<1> DEFINE next == b[y].pos
           tied == {z \in S \ {y} : b[z].pos = next}
           less == {z \in S : b[z].pos < next}
<1>2. PICK prev \in Before(b, S, y) : at = Midpoint(prev, next)
  BY DEF InsertedAt
<1>3. next \in Multiples(2 * v) /\ next \in Nat /\ next # None
  BY <1>1, IdAssumption
<1>4. \/ prev = None /\ less = {}
      \/ less # {} /\ prev = LastPos(b, less)
      \/ \E z \in tied : prev = b[z].pos
  BY <1>2 DEF Before
<1>5. CASE prev = None /\ less = {}
  <2>1. at = next \div 2
    BY <1>2, <1>3, <1>5 DEF Midpoint
  <2>2. at \in Multiples(v) /\ at < next
    BY <1>3, <2>1, Halving
  <2>3. \A z \in S : b[z].pos >= next
    BY <1>1, <1>3, <1>5
  <2> HIDE DEF next
  <2>4. at \in Nat
    BY <2>2, Adding
  <2> QED BY <1>1, <1>3, <2>2, <2>3, <2>4 DEF next
<1>6. CASE less # {} /\ prev = LastPos(b, less)
  <2>1. (\E x \in less : prev = b[x].pos) /\ \A x \in less : b[x].pos <= prev
    BY <1>1, <1>6, LastFound
  <2>2. prev \in Multiples(2 * v) /\ prev \in Nat /\ prev < next /\ prev # None
    BY <1>1, <2>1, IdAssumption
  <2>3. at = (prev + next) \div 2
    BY <1>2, <1>3, <2>2 DEF Midpoint
  <2>4. at \in Multiples(v) /\ prev < at /\ at < next
    BY <1>3, <2>2, <2>3, Halving
  <2>5. at \in Nat
    BY <2>4, Adding
  <2>6. ASSUME NEW z \in S PROVE IF b[z].pos >= next THEN at < b[z].pos ELSE b[z].pos < at
    <3>1. b[z].pos < next => b[z].pos <= prev
      BY <2>1
    <3> HIDE DEF next
    <3> QED BY <1>1, <1>3, <2>2, <2>4, <2>5, <3>1
  <2> QED BY <2>4, <2>6
<1>7. CASE \E z \in tied : prev = b[z].pos
  <2>1. prev = next /\ ~Distinct(b, S)
    BY <1>7 DEF Distinct
  <2>2. at = (next + next) \div 2
    BY <1>2, <1>3, <2>1 DEF Midpoint
  <2>3. at \in Multiples(v)
    BY <1>3, <2>2, Halving
  <2> QED BY <2>1, <2>3
<1> QED BY <1>4, <1>5, <1>6, <1>7

-----------------------------------------------------------------------------
(* Where a drop puts something *)

\* A column is put before one that is there.
LEMMA ColumnTarget ==
    ASSUME NEW u, Fits(page, u), NEW c \in Columns, NEW over \in Items, DropColumn(c, over)
    PROVE  /\ Target(c, over) \in Listed(page, Root) \ {c}
           /\ \E at \in InsertedAt(page, Listed(page, Root) \ {c}, Target(c, over)) :
                 Drop(c, [in |-> Root, pos |-> at])
<1> DEFINE target == IF over \in Columns THEN over ELSE page[over].in
<1>1. target = Target(c, over)
  BY IdAssumption DEF Target, Items
<1>2. Shown(page, over) /\ Home(over, page[over])
  BY DEF DropColumn, Shown, Fits
<1>3. target \in Columns /\ Shown(page, target)
  BY <1>2, IdAssumption DEF Home, Shown, Items
<1>4. page[target].in = Root
  BY <1>3 DEF Shown, Fits, Home, Items
<1>5. target \in Listed(page, Root) /\ target # c
  BY <1>3, <1>4 DEF Listed, Items, DropColumn
<1>6. \E at \in InsertedAt(page, Listed(page, Root) \ {c}, target) : Drop(c, [in |-> Root, pos |-> at])
  BY DEF DropColumn
<1> HIDE DEF target
<1> QED BY <1>1, <1>5, <1>6

\* A card is put into a column, before the card it is dropped on or last.
LEMMA CardTarget ==
    ASSUME NEW u, Fits(page, u), NEW k \in Cards, NEW over \in Items, DropCard(k, over)
    PROVE  \E dest \in Columns : \E at :
              LET others == Listed(page, dest) \ {k}
              IN  /\ Drop(k, [in |-> dest, pos |-> at])
                  /\ IF over \in others THEN at \in InsertedAt(page, others, over)
                     ELSE at = AppendedAt(page, others)
<1> DEFINE dest == IF over \in Columns THEN over ELSE page[over].in
           others == Listed(page, dest) \ {k}
<1>1. Shown(page, over) /\ Home(over, page[over])
  BY DEF DropCard, Shown, Fits
<1>2. dest \in Columns
  BY <1>1 DEF Home
<1>3. PICK at \in IF over \in others THEN InsertedAt(page, others, over) ELSE {AppendedAt(page, others)} :
         Drop(k, [in |-> dest, pos |-> at])
  BY DEF DropCard
<1> HIDE DEF dest
<1> QED BY <1>2, <1>3

\* Whatever is dropped, it is put where it may be.
LEMMA DroppedFits ==
    ASSUME NEW v \in Nat \ {0}, Fitting(2 * v), NEW x \in Items, NEW over \in Items,
           \/ x \in Columns /\ DropColumn(x, over)
           \/ x \in Cards /\ DropCard(x, over)
    PROVE  \E place : Home(x, place) /\ place.pos \in Multiples(v) /\ Drop(x, place)
<1>0. Fits(page, 2 * v) /\ STEP \in Multiples(2 * v) /\ \A at \in Multiples(v) : at \in Nat
  BY Adding DEF Fitting
<1>1. CASE x \in Columns /\ DropColumn(x, over)
  <2> DEFINE S == Listed(page, Root) \ {x}
  <2>1. PICK at \in InsertedAt(page, S, Target(x, over)) : Drop(x, [in |-> Root, pos |-> at])
    BY <1>0, <1>1, ColumnTarget
  <2>2. Target(x, over) \in S /\ S \in SUBSET Listed(page, Root)
    BY <1>0, <1>1, ColumnTarget
  <2> HIDE DEF S
  <2>3. at \in Multiples(v)
    BY <1>0, <2>1, <2>2, InsertedBefore
  <2>4. Home(x, [in |-> Root, pos |-> at])
    BY <1>0, <1>1, <2>3 DEF Home, Place
  <2> QED BY <2>1, <2>3, <2>4
<1>2. CASE x \in Cards /\ DropCard(x, over)
  <2>0. PICK dest \in Columns : \E at :
              LET others == Listed(page, dest) \ {x}
              IN  /\ Drop(x, [in |-> dest, pos |-> at])
                  /\ IF over \in others THEN at \in InsertedAt(page, others, over)
                     ELSE at = AppendedAt(page, others)
    BY <1>0, <1>2, CardTarget
  <2>1. PICK at :
          LET others == Listed(page, dest) \ {x}
          IN  /\ Drop(x, [in |-> dest, pos |-> at])
              /\ IF over \in others THEN at \in InsertedAt(page, others, over)
                 ELSE at = AppendedAt(page, others)
    BY <2>0
  <2> DEFINE others == Listed(page, dest) \ {x}
  <2>2. others \in SUBSET Listed(page, dest)
    OBVIOUS
  <2>3. IF over \in others THEN at \in InsertedAt(page, others, over) ELSE at = AppendedAt(page, others)
    BY <2>1
  <2> HIDE DEF others
  <2>4. at \in Multiples(v)
    <3>1. CASE over \in others
      BY <1>0, <2>2, <2>3, <3>1, InsertedBefore
    <3>2. CASE over \notin others
      BY <1>0, <2>2, <2>3, <3>2, AppendedLast
    <3> QED BY <3>1, <3>2
  <2>5. Home(x, [in |-> dest, pos |-> at])
    BY <1>0, <1>2, <2>4, IdAssumption DEF Home, Place
  <2> QED BY <2>1, <2>4, <2>5
<1> QED BY <1>1, <1>2

-----------------------------------------------------------------------------
(* Every step keeps the invariant *)

\* What the user does: one action more, and positions at multiples of the half.
LEMMA InvSend ==
    ASSUME BoardInv, NEW m, Send(m), UNCHANGED <<server, fetch, unsure, faults>>,
           \A v \in Nat \ {0} : Fitting(2 * v) => Fits(page, v)' /\ Sendable(m, v)
    PROVE  BoardInv'
<1>1. Counted /\ acts < MaxActs /\ acts' = acts + 1
  BY DEF BoardInv, Send
<1>2. PICK v \in Nat \ {0} : v = Unit[acts + 1] /\ Unit[acts] = 2 * v
  BY <1>1, UnitNow
<1>3. Fitting(2 * v)
  BY <1>2 DEF BoardInv
<1>4. Fitting(v) /\ Fits(page, v)' /\ Sendable(m, v)
  BY <1>3, FittingHalved
<1>5. Fitting(v)'
  BY <1>4 DEF Fitting, Send, Fits
<1>6. Counted'
  BY <1>1, DropAssumption DEF Counted
<1> QED BY <1>1, <1>2, <1>5, <1>6 DEF BoardInv

\* A drop is written to the page and sent.
LEMMA InvDrop ==
    ASSUME BoardInv, NEW x \in Items, NEW over \in Items,
           \/ x \in Columns /\ DropColumn(x, over)
           \/ x \in Cards /\ DropCard(x, over)
    PROVE  BoardInv'
<1>1. Counted /\ acts < MaxActs
  BY DEF BoardInv, DropColumn, DropCard, Drop, Send
<1>2. PICK v \in Nat \ {0} : Unit[acts] = 2 * v
  BY <1>1, UnitNow
<1>3. Fitting(2 * v)
  BY <1>2 DEF BoardInv
<1>4. PICK place : Home(x, place) /\ Drop(x, place)
  BY <1>3, DroppedFits
<1> QED
  <2>1. \A w \in Nat \ {0} : Fitting(2 * w) => \E there : Home(x, there) /\ there.pos \in Multiples(w) /\ Drop(x, there)
    BY DroppedFits
  <2>2. ASSUME NEW there, Drop(x, there) PROVE page'[x] = there
    BY <1>3, <2>2 DEF Drop, Fitting, Fits, Board
  <2>3. place.pos \in Multiples(v) /\ \A w \in Nat \ {0} : Fitting(2 * w) => place.pos \in Multiples(w)
    BY <1>3, <1>4, <2>1, <2>2
  <2>4. ASSUME NEW w \in Nat \ {0}, Fitting(2 * w)
        PROVE  Fits(page, w)' /\ Sendable(NewRequest("move", x, place), w)
    <3>1. Fits(page, w)
      BY <2>4, FittingHalved DEF Fitting
    <3>2. place \in Place /\ place.pos \in Multiples(w)
      BY <1>4, <2>3, <2>4 DEF Home
    <3>3. page' = [page EXCEPT ![x] = place]
      BY <1>4 DEF Drop
    <3>4. Fits(page, w)'
      BY <1>4, <3>1, <3>2, <3>3 DEF Fits, Board
    <3>5. Sendable(NewRequest("move", x, place), w)
      BY <1>4, <3>2 DEF Sendable, NewRequest, Request
    <3> QED BY <3>4, <3>5
  <2> QED BY <1>4, <2>4, InvSend DEF Drop

\* So are a creation and a removal, which the page does not show yet.
LEMMA InvAsk ==
    ASSUME BoardInv, NEW x \in Items, (\E c \in Columns \cup {Root} : Create(x, c)) \/ Remove(x)
    PROVE  BoardInv'
<1>1. ASSUME NEW w \in Nat \ {0}, Fitting(2 * w), page' = page PROVE Fits(page, w)'
  BY <1>1, FittingHalved DEF Fitting, Fits
<1>2. ASSUME NEW c \in Columns \cup {Root}, Create(x, c) PROVE BoardInv'
  <2>1. Home(x, [in |-> c, pos |-> 0])
    BY <1>2 DEF Create, Home, Place
  <2>2. \A w : Sendable(NewRequest("create", x, [in |-> c, pos |-> 0]), w)
    BY <2>1 DEF Sendable, NewRequest, Request, Home
  <2> QED BY <1>1, <1>2, <2>2, InvSend DEF Create
<1>3. CASE Remove(x)
  <2>1. \A w : Sendable(NewRequest("remove", x, None), w)
    BY DEF Sendable, NewRequest, Request
  <2> QED BY <1>1, <1>3, <2>1, InvSend DEF Remove
<1> QED BY <1>2, <1>3

\* A request that is accepted leaves a board that fits.
LEMMA EffectFits ==
    ASSUME NEW u \in Nat \ {0}, STEP \in Multiples(u), Fits(server, u), NEW m, Sendable(m, u)
    PROVE  Fits(Effect(m), u)
<1>1. m.kind \in {"move", "create", "remove"} /\ m.id \in Items
  BY DEF Sendable, Request
<1>2. CASE m.kind = "move"
  <2>1. m.to \in Place /\ Home(m.id, m.to) /\ m.to.pos \in Multiples(u)
    BY <1>2 DEF Sendable, Home
  <2>2. Effect(m) = [server EXCEPT ![m.id] = m.to]
    BY <1>2 DEF Effect
  <2> QED BY <1>1, <2>1, <2>2 DEF Fits, Board
<1>3. CASE m.kind = "create"
  <2> DEFINE pos == LastPos(server, Listed(server, m.to.in)) + STEP
  <2>1. pos \in Multiples(u) /\ pos \in Nat
    <3> DEFINE S == Listed(server, m.to.in)
    <3>1. IsFiniteSet(S) /\ \A x \in S : server[x].pos \in Multiples(u) /\ server[x].pos \in Nat
      BY ListedFits
    <3> HIDE DEF S
    <3>2. S = {} => LastPos(server, S) = 0
      BY DEF LastPos
    <3>3. S # {} => LastPos(server, S) \in Multiples(u) /\ LastPos(server, S) \in Nat
      BY <3>1, LastFound
    <3>4. STEP \in Nat
      BY DropAssumption
    <3>5. S = {} => LastPos(server, S) + STEP = STEP
      BY <3>2, <3>4
    <3>6. S # {} => LastPos(server, S) + STEP \in Multiples(u) /\ LastPos(server, S) + STEP \in Nat
      BY <3>3, <3>4, Adding
    <3> QED BY <3>4, <3>5, <3>6 DEF S
  <2> HIDE DEF pos
  <2>2. Effect(m) = [server EXCEPT ![m.id] = [m.to EXCEPT !.pos = pos]]
    BY <1>3 DEF Effect, pos
  <2> DEFINE place == [m.to EXCEPT !.pos = pos]
  <2>3. place \in Place /\ Home(m.id, place) /\ place.pos \in Multiples(u)
    BY <1>3, <2>1 DEF Sendable, Home, Place
  <2> HIDE DEF place
  <2>4. Effect(m) = [server EXCEPT ![m.id] = place]
    BY <2>2 DEF place
  <2> QED BY <1>1, <2>3, <2>4 DEF Fits, Board
<1>4. CASE m.kind = "remove"
  <2>1. Effect(m) = [x \in Items |-> IF x = m.id \/ x \in Listed(server, m.id) THEN Gone ELSE server[x]]
    BY <1>4 DEF Effect
  <2> QED BY <2>1 DEF Fits, Board
<1> QED BY <1>1, <1>2, <1>3, <1>4

\* What the user does not do: the unit stays.
LEMMA InvKept ==
    ASSUME BoardInv, acts' = acts, unsure' \in BOOLEAN, faults' \in 0..MaxFaults,
           \A u \in Nat \ {0} : Fitting(u) => /\ Fits(server, u)' /\ Fits(page, u)'
                                              /\ fetch' \in {None, Asked} \/ Fits(fetch, u)'
                                              /\ \A m \in sent' : Sendable(m, u)
    PROVE  BoardInv'
<1>1. Counted /\ Fitting(Unit[acts])
  BY DEF BoardInv
<1>2. PICK u \in Nat \ {0} : u = Unit[acts]
  BY <1>1, UnitNow
<1>3. Fitting(u)'
  BY <1>1, <1>2 DEF Fitting
<1> QED BY <1>1, <1>2, <1>3 DEF BoardInv, Counted

\* The server answers.
LEMMA InvServe ==
    ASSUME BoardInv, NEW m \in sent, Serve(m)
    PROVE  BoardInv'
<1> DEFINE done == [m EXCEPT !.state = IF Accepts(m) THEN "ok" ELSE "refused"]
<1>1. sent' \subseteq sent \cup {done} /\ UNCHANGED <<page, fetch, acts, faults>> /\ server' \in {server, Effect(m)}
  BY DEF Serve
<1>2. ASSUME NEW u, Sendable(m, u) PROVE Sendable(done, u)
  BY <1>2 DEF Sendable, Request
<1> HIDE DEF done
<1>3. ASSUME NEW u \in Nat \ {0}, Fitting(u)
      PROVE  /\ Fits(server, u)' /\ Fits(page, u)' /\ (fetch' \in {None, Asked} \/ Fits(fetch, u)')
             /\ \A n \in sent' : Sendable(n, u)
  <2>1. Sendable(m, u) /\ Fits(Effect(m), u)
    BY <1>3, EffectFits DEF Fitting
  <2>2. Fits(server, u)'
    BY <1>1, <1>3, <2>1 DEF Fitting, Fits
  <2> QED BY <1>1, <1>2, <1>3, <2>1, <2>2 DEF Fitting, Fits
<1>4. unsure' \in BOOLEAN /\ faults' \in 0..MaxFaults
  <2>1. m \in Request
    BY DEF BoardInv, Fitting, Sendable
  <2> QED BY <1>1, <2>1 DEF Serve, BoardInv, Counted, Request
<1> QED BY <1>1, <1>3, <1>4, InvKept

\* The page hears of an answer, or of none; a request is lost.
LEMMA InvReply ==
    ASSUME BoardInv, NEW m \in sent, Settled(m) \/ Failed(m) \/ Lost(m)
    PROVE  BoardInv'
<1> DEFINE unheard == [m EXCEPT !.waiting = FALSE]
<1>1. sent' \subseteq sent \cup {unheard} /\ UNCHANGED <<page, server, acts>> /\ fetch' \in {Asked, fetch}
  BY DEF Settled, Failed, Lost, Invalidate
<1>2. ASSUME NEW u, Sendable(m, u) PROVE Sendable(unheard, u)
  BY <1>2 DEF Sendable, Request
<1> HIDE DEF unheard
<1>3. unsure' \in BOOLEAN /\ faults' \in 0..MaxFaults
  <2>1. unsure \in BOOLEAN /\ faults \in 0..MaxFaults
    BY DEF BoardInv, Counted
  <2>2. unsure' \in {unsure, FALSE, unsure \/ m.state = "ok"}
    BY DEF Settled, Failed, Lost, Invalidate
  <2>3. faults' = faults \/ (faults < MaxFaults /\ faults' = faults + 1)
    BY DEF Settled, Failed, Lost, Invalidate
  <2>4. faults' \in 0..MaxFaults
    BY <2>1, <2>3, BoundsAre
  <2> QED BY <2>1, <2>2, <2>4
<1>4. ASSUME NEW u \in Nat \ {0}, Fitting(u)
      PROVE  /\ Fits(server, u)' /\ Fits(page, u)' /\ (fetch' \in {None, Asked} \/ Fits(fetch, u)')
             /\ \A n \in sent' : Sendable(n, u)
  BY <1>1, <1>2, <1>4 DEF Fitting, Fits
<1> QED BY <1>1, <1>3, <1>4, InvKept

\* The board is read, and comes back or not.
LEMMA InvFetch ==
    ASSUME BoardInv, FetchRead \/ FetchDone \/ FetchFailed \/ Refocus
    PROVE  BoardInv'
<1>1. unsure' \in BOOLEAN /\ faults' \in 0..MaxFaults /\ UNCHANGED <<server, sent, acts>>
  <2>1. unsure \in BOOLEAN /\ faults \in 0..MaxFaults
    BY DEF BoardInv, Counted
  <2>2. unsure' \in {unsure, FALSE, TRUE} /\ UNCHANGED <<server, sent, acts>>
    BY DEF FetchRead, FetchDone, FetchFailed, Refocus, Invalidate
  <2>3. faults' = faults \/ (faults < MaxFaults /\ faults' = faults + 1)
    BY DEF FetchRead, FetchDone, FetchFailed, Refocus, Invalidate
  <2>4. faults' \in 0..MaxFaults
    BY <2>1, <2>3, BoundsAre
  <2> QED BY <2>1, <2>2, <2>4
<1>2. ASSUME NEW u \in Nat \ {0}, Fitting(u)
      PROVE  Fits(page, u)' /\ (fetch' \in {None, Asked} \/ Fits(fetch, u)')
  BY <1>2 DEF Fitting, Fits, FetchRead, FetchDone, FetchFailed, Refocus, Invalidate
<1>3. ASSUME NEW u \in Nat \ {0}, Fitting(u) PROVE Fits(server, u)' /\ \A m \in sent' : Sendable(m, u)
  BY <1>1, <1>3 DEF Fitting, Fits
<1> QED BY <1>1, <1>2, <1>3, InvKept

\* Rows start at multiples of STEP.
LEMMA InvInit == Init => BoardInv
<1> SUFFICES ASSUME Init PROVE BoardInv
  OBVIOUS
<1>1. PICK rank \in [Items -> 1..Cardinality(Items)], home \in [Cards -> Columns \cup {New}] :
         server = [x \in Items |->
                         IF x \in Columns THEN [in |-> Root, pos |-> STEP * rank[x]]
                         ELSE IF home[x] = New THEN New
                         ELSE [in |-> home[x], pos |-> STEP * rank[x]]]
  BY DEF Init
<1>2. acts = 0 /\ faults = 0 /\ unsure = FALSE /\ page = server /\ sent = {} /\ fetch = None
  BY DEF Init
<1>3. Unit[0] = STEP /\ STEP \in Nat \ {0}
  BY UnitHalves, DropAssumption
<1>4. IsFiniteSet(Items)
  BY FS_Union, IdAssumption DEF Items
<1>5. Cardinality(Items) \in Nat
  BY <1>4, FS_CardinalityType
<1>6. ASSUME NEW x \in Items PROVE STEP * rank[x] \in Nat /\ STEP * rank[x] \in Multiples(STEP)
  <2>1. rank[x] \in Nat \ {0}
    BY <1>5
  <2>2. STEP * rank[x] = rank[x] * STEP /\ STEP * rank[x] \in Nat
    BY <1>3, <2>1
  <2> QED BY <2>1, <2>2 DEF Multiples
<1>7. Fits(server, STEP)
  <2> DEFINE pos(x) == STEP * rank[x]
  <2>1. ASSUME NEW x \in Items PROVE pos(x) \in Nat /\ pos(x) \in Multiples(STEP)
    BY <1>6
  <2>2. server = [x \in Items |->
                         IF x \in Columns THEN [in |-> Root, pos |-> pos(x)]
                         ELSE IF home[x] = New THEN New
                         ELSE [in |-> home[x], pos |-> pos(x)]]
    BY <1>1
  <2> HIDE DEF pos
  <2>3. ASSUME NEW x \in Items PROVE server[x] \in Place \cup {New, Gone}
    BY <2>1, <2>2 DEF Place, Items
  <2>4. ASSUME NEW x \in Items, server[x] \notin {New, Gone}
        PROVE  Home(x, server[x]) /\ server[x].pos \in Multiples(STEP)
    BY <2>1, <2>2, <2>4 DEF Home, Place, Items
  <2>5. server \in Board
    BY <2>2, <2>3 DEF Board
  <2> QED BY <2>4, <2>5 DEF Fits
<1>8. STEP \in Multiples(STEP)
  <2>1. STEP = 1 * STEP /\ 1 \in Nat \ {0}
    BY <1>3
  <2> QED BY <2>1 DEF Multiples
<1>9. Fitting(Unit[acts])
  BY <1>2, <1>3, <1>7, <1>8 DEF Fitting
<1> QED BY <1>2, <1>9, BoundsAre DEF BoardInv, Counted

\* Every step keeps it.
LEMMA InvStep ==
    ASSUME BoardInv, [Next]_vars
    PROVE  BoardInv'
<1>1. CASE UNCHANGED vars
  BY <1>1 DEF vars, BoardInv, Counted, Fitting, Fits
<1> QED BY <1>1, InvDrop, InvAsk, InvServe, InvReply, InvFetch DEF Next, Items

\* The variables of the board page keep their types.
THEOREM BoardTypesCorrect == Spec => []TypeOK
BY InvInit, InvStep, InvTyped, PTL DEF Spec

-----------------------------------------------------------------------------
(* Reconciled *)

\* A request that was answered with success, and a move that is only shown.
Done == \E m \in sent : m.waiting /\ m.state = "ok"
Ahead == \E m \in sent : m.waiting /\ m.kind = "move"

\* Unless a change is still to be heard of, what a fetch has read is what the
\* server has; and so is the page, unless it is ahead.
Settling ==
    /\ ~unsure /\ ~Done /\ fetch \notin {None, Asked} => fetch = server
    /\ ~unsure /\ ~Done /\ ~Ahead /\ fetch = None => page = server

\* Sending a request changes nothing on the server; a move puts the page ahead.
LEMMA SettlingSend ==
    ASSUME Settling, NEW m, m.waiting, m.state = "asked", sent' = sent \cup {m},
           UNCHANGED <<server, fetch, unsure>>, m.kind = "move" \/ page' = page
    PROVE  Settling'
<1>1. (Done => Done') /\ (Ahead => Ahead') /\ (m.kind = "move" => Ahead')
  BY DEF Done, Ahead
<1> QED BY <1>1 DEF Settling

\* A request that runs changes the server only if it will be heard of, or if
\* nobody waits for it.
LEMMA SettlingServe ==
    ASSUME Settling, NEW m \in sent, Sendable(m, Unit[acts]), Serve(m)
    PROVE  Settling'
<1>1. CASE ~m.waiting
  BY <1>1 DEF Serve, Settling
<1>2. CASE m.waiting
  <2> DEFINE done == [m EXCEPT !.state = IF Accepts(m) THEN "ok" ELSE "refused"]
  <2>1. sent' = (sent \ {m}) \cup {done} /\ UNCHANGED <<page, fetch>> /\ (unsure' <=> unsure) /\ m.state = "asked"
    BY <1>2 DEF Serve
  <2>2. done.waiting /\ done.kind = m.kind /\ (done.state = "ok" <=> Accepts(m)) /\ (~Accepts(m) => server' = server)
    BY <1>2 DEF Sendable, Request, Serve
  <2> HIDE DEF done
  <2>3. (Done => Done') /\ (Ahead => Ahead') /\ (Accepts(m) => Done')
    BY <2>1, <2>2 DEF Done, Ahead
  <2> QED BY <2>1, <2>2, <2>3 DEF Settling
<1> QED BY <1>1, <1>2

\* A reply that may tell of a change makes the page fetch again, or leaves it
\* unsure.
LEMMA SettlingReply ==
    ASSUME Settling, NEW m \in sent, Sendable(m, Unit[acts]), Settled(m) \/ Failed(m) \/ Lost(m)
    PROVE  Settling'
<1>1. CASE fetch' = Asked
  BY <1>1, IdAssumption DEF Settling
<1>2. CASE fetch' # Asked
  <2>0. Lost(m) \/ (Failed(m) /\ m.kind # "move")
    BY <1>2 DEF Settled, Failed, Invalidate
  <2>1. UNCHANGED <<page, server, fetch>> /\ sent \ {m} \subseteq sent'
    BY <2>0 DEF Failed, Lost
  <2>4. unsure => unsure'
    <3>1. CASE Lost(m)
      BY <3>1 DEF Lost
    <3>2. CASE Failed(m) /\ m.kind # "move"
      BY <3>2, Zenon DEF Failed
    <3> QED BY <2>0, <3>1, <3>2
  <2>2. m.waiting => m.kind # "move" /\ (m.state = "ok" => unsure')
    <3>1. CASE Lost(m)
      BY <3>1 DEF Lost
    <3>2. CASE Failed(m) /\ m.kind # "move"
      BY <3>2, Zenon DEF Failed
    <3> QED BY <2>0, <3>1, <3>2
  <2>3. ~unsure' => (Done => Done') /\ (Ahead => Ahead')
    BY <2>1, <2>2 DEF Done, Ahead
  <2> QED BY <2>1, <2>3, <2>4 DEF Settling
<1> QED BY <1>1, <1>2

\* A fetch brings what it has read.
LEMMA SettlingFetch ==
    ASSUME Settling, BoardInv, FetchRead \/ FetchDone \/ FetchFailed \/ Refocus
    PROVE  Settling'
<1>1. server \in Board /\ server \notin {None, Asked} /\ None # Asked
  BY IdAssumption DEF BoardInv, Fitting, Fits
<1>2. UNCHANGED <<server, sent>> /\ (Done' <=> Done) /\ (Ahead' <=> Ahead)
  BY DEF FetchRead, FetchDone, FetchFailed, Refocus, Done, Ahead
<1> QED BY <1>1, <1>2 DEF FetchRead, FetchDone, FetchFailed, Refocus, Invalidate, Settling

\* Settling is inductive.
LEMMA SettlingStep ==
    ASSUME BoardInv, Settling, [Next]_vars
    PROVE  Settling'
<1>0. \A m \in sent : Sendable(m, Unit[acts])
  BY DEF BoardInv, Fitting
<1>1. ASSUME NEW x, NEW place, Drop(x, place) PROVE Settling'
  <2> DEFINE m == NewRequest("move", x, place)
  <2>1. m.waiting /\ m.state = "asked" /\ m.kind = "move"
    BY DEF NewRequest
  <2>2. sent' = sent \cup {m} /\ UNCHANGED <<server, fetch, unsure>>
    BY <1>1 DEF Drop, Send
  <2> HIDE DEF m
  <2> QED BY <2>1, <2>2, SettlingSend
<1>2. ASSUME NEW kind, NEW x, NEW to, Send(NewRequest(kind, x, to)), UNCHANGED <<server, page, fetch, unsure>>
      PROVE  Settling'
  <2> DEFINE m == NewRequest(kind, x, to)
  <2>1. m.waiting /\ m.state = "asked"
    BY DEF NewRequest
  <2>2. sent' = sent \cup {m}
    BY <1>2 DEF Send
  <2> HIDE DEF m
  <2> QED BY <1>2, <2>1, <2>2, SettlingSend
<1>3. CASE UNCHANGED vars
  BY <1>3 DEF vars, Settling, Done, Ahead
<1>4. ASSUME NEW x \in Items, NEW over \in Items, DropColumn(x, over) \/ DropCard(x, over) PROVE Settling'
  BY <1>1, <1>4 DEF DropColumn, DropCard
<1>5. ASSUME NEW x \in Items, (\E c \in Columns \cup {Root} : Create(x, c)) \/ Remove(x) PROVE Settling'
  BY <1>2, <1>5 DEF Create, Remove
<1> QED BY <1>0, <1>3, <1>4, <1>5, SettlingServe, SettlingReply, SettlingFetch DEF Next, Items

\* When everything has come back, the page shows what the server has, in whatever
\* order requests ran, replies came and fetches read.
THEOREM PageReconciles == Spec => []Reconciled
<1>1. Init => Settling
  BY DEF Init, Settling
<1>2. BoardInv /\ Settling /\ [Next]_vars => (BoardInv /\ Settling)'
  BY InvStep, SettlingStep
<1>3. Settling => Reconciled
  BY DEF Settling, Reconciled, Done, Ahead
<1> QED BY InvInit, <1>1, <1>2, <1>3, PTL DEF Spec

-----------------------------------------------------------------------------
(* Dropped where shown *)

\* The step of DropsWhereShown.
DropShown ==
    \A x, over \in Items :
       (x # over /\ IF x \in Columns THEN DropColumn(x, over) ELSE DropCard(x, over)) =>
         LET y == Target(x, over)
             S == Listed(page, page'[x].in) \ {x}
             at == page'[x].pos
         IN  Distinct(page, S) =>
               \A z \in S : IF y \in S /\ page[z].pos >= page[y].pos
                           THEN at < page[z].pos ELSE page[z].pos < at

\* An item that is dropped gets the place it was sent to.
LEMMA DroppedPlace ==
    ASSUME NEW u, Fits(page, u), NEW x \in Items, NEW in, NEW pos, Drop(x, [in |-> in, pos |-> pos])
    PROVE  page'[x].in = in /\ page'[x].pos = pos
BY DEF Fits, Board, Drop

\* A drop on the page shows the item on the side of the target the user chose.
LEMMA DropsShown ==
    ASSUME BoardInv
    PROVE  DropShown
<1> SUFFICES ASSUME NEW x \in Items, NEW over \in Items,
                    IF x \in Columns THEN DropColumn(x, over) ELSE DropCard(x, over),
                    Distinct(page, Listed(page, page'[x].in) \ {x}),
                    NEW z \in Listed(page, page'[x].in) \ {x}
             PROVE  IF Target(x, over) \in Listed(page, page'[x].in) \ {x} /\ page[z].pos >= page[Target(x, over)].pos
                    THEN page'[x].pos < page[z].pos ELSE page[z].pos < page'[x].pos
  BY DEF DropShown
<1>1. Counted /\ acts < MaxActs
  BY DEF BoardInv, DropColumn, DropCard, Drop, Send
<1>2. PICK v \in Nat \ {0} : Unit[acts] = 2 * v
  BY <1>1, UnitNow
<1>3. Fits(page, 2 * v) /\ STEP \in Multiples(2 * v)
  BY <1>2 DEF BoardInv, Fitting
<1>4. CASE x \in Columns
  <2> DEFINE S == Listed(page, Root) \ {x}
             y == Target(x, over)
  <2>1. PICK at \in InsertedAt(page, S, y) : Drop(x, [in |-> Root, pos |-> at])
    BY <1>3, <1>4, ColumnTarget
  <2>2. y \in S /\ S \in SUBSET Listed(page, Root)
    BY <1>3, <1>4, ColumnTarget
  <2>3. page'[x].in = Root /\ page'[x].pos = at
    BY <1>3, <2>1, DroppedPlace
  <2>4. Distinct(page, S) /\ z \in S
    BY <2>3
  <2> HIDE DEF S, y
  <2>5. IF page[z].pos >= page[y].pos THEN at < page[z].pos ELSE page[z].pos < at
    BY <1>3, <2>1, <2>2, <2>4, InsertedBefore
  <2> QED BY <2>2, <2>3, <2>5 DEF S, y
<1>5. CASE x \notin Columns
  <2>0. x \in Cards /\ Target(x, over) = over
    BY <1>5 DEF Items, Target
  <2>9. PICK dest \in Columns : \E at :
              LET others == Listed(page, dest) \ {x}
              IN  /\ Drop(x, [in |-> dest, pos |-> at])
                  /\ IF over \in others THEN at \in InsertedAt(page, others, over)
                     ELSE at = AppendedAt(page, others)
    BY <1>3, <1>5, <2>0, CardTarget
  <2>1. PICK at :
          LET others == Listed(page, dest) \ {x}
          IN  /\ Drop(x, [in |-> dest, pos |-> at])
              /\ IF over \in others THEN at \in InsertedAt(page, others, over)
                 ELSE at = AppendedAt(page, others)
    BY <2>9
  <2> DEFINE S == Listed(page, dest) \ {x}
  <2>2. page'[x].in = dest /\ page'[x].pos = at
    BY <1>3, <2>1, DroppedPlace
  <2>3. S \in SUBSET Listed(page, dest) /\ Distinct(page, S) /\ z \in S
    BY <2>2
  <2>4. IF over \in S THEN at \in InsertedAt(page, S, over) ELSE at = AppendedAt(page, S)
    BY <2>1
  <2> HIDE DEF S
  <2>5. CASE over \in S
    <3>1. IF page[z].pos >= page[over].pos THEN at < page[z].pos ELSE page[z].pos < at
      BY <1>3, <2>3, <2>4, <2>5, InsertedBefore
    <3> QED BY <2>0, <2>2, <2>5, <3>1 DEF S
  <2>6. CASE over \notin S
    <3>1. page[z].pos < at
      BY <1>3, <2>3, <2>4, <2>6, AppendedLast
    <3> QED BY <2>0, <2>2, <2>6, <3>1 DEF S
  <2> QED BY <2>5, <2>6
<1> QED BY <1>4, <1>5

\* An item is shown right before the one it was dropped on, or last, as long as no
\* two neighbours share a position.
THEOREM DropsAreShown == Spec => DropsWhereShown
<1>1. BoardInv /\ [Next]_vars => [DropShown]_vars
  BY DropsShown
<1>2. DropsWhereShown <=> [][DropShown]_vars
  BY DEF DropsWhereShown, DropShown
<1> QED BY InvInit, InvStep, <1>1, <1>2, PTL DEF Spec
=============================================================================
