------------------------ MODULE KanbanPromiseProofs ------------------------
(***************************************************************************)
(* What the Kanban services give a user, for every set of users, rows,     *)
(* positions and requests.                                                 *)
(*                                                                         *)
(* The atomic operations keep the tree whole and deleted rows deleted.     *)
(* While a user has one request in flight at a time, the services do what  *)
(* the atomic operations do: what such a request holds in memory stays     *)
(* true until it writes, because the requests of other users write other   *)
(* users' rows.  However many he has in flight, what he could not reach    *)
(* when he had none stays out of his reach.                                *)
(***************************************************************************)
EXTENDS KanbanProofs, MCKanbanHistory, FiniteSetTheorems

-----------------------------------------------------------------------------
(* The atomic operations *)

RowsTyped == row \in [Ids -> Row \cup {None}]

\* The foreign keys: a row hangs below a row of the right table.
RowsHang ==
    /\ \A b \in Boards : Exists(b) => row[b].parent \in Users
    /\ \A c \in Columns : Exists(c) => row[c].parent \in Boards
    /\ \A k \in Cards : Exists(k) => row[k].parent \in Columns

AInv == RowsTyped /\ RowsHang /\ Cascade

Final == \A x \in Ids : Exists(x) /\ ~Live(x) => (Exists(x) /\ ~Live(x))'

\* A step that puts a live row x below a live parent, or a board below its user.
LEMMA PutStep ==
    ASSUME AInv, NEW x \in Ids, NEW v \in Row, Put(x, v), ~v.deleted,
           Live(x) \/ ~Exists(x),
           x \in Boards => v.parent \in Users,
           x \in Columns => v.parent \in Boards /\ Live(v.parent),
           x \in Cards => v.parent \in Columns /\ Live(v.parent)
    PROVE  AInv' /\ Final
<1> USE DataAssumption DEF DataAssumption
<1>1. RowsTyped' /\ row'[x] = v /\ \A y \in Ids \ {x} : row'[y] = row[y]
  BY DEF AInv, RowsTyped, Put
<1>2. RowsHang'
  BY <1>1 DEF AInv, RowsHang, Exists, Ids
<1>3. \A y \in Ids : Live(y) => Live(y)'
  BY <1>1 DEF Live, Exists
<1>4. Cascade'
  <2> SUFFICES ASSUME NEW y \in Columns \cup Cards, Live(y)' PROVE Live(row[y].parent)'
    BY DEF Cascade
  <2>1. PICK p \in Ids : p = row'[y].parent /\ Live(p)
    <3>1. CASE y = x
      BY <1>1, <3>1 DEF Ids
    <3>2. CASE y # x
      BY <1>1, <3>2 DEF AInv, Cascade, RowsHang, Live, Exists, Ids
    <3> QED BY <3>1, <3>2
  <2> QED BY <1>3, <2>1
<1>5. Final
  BY <1>1 DEF Final, Live, Exists
<1> QED BY <1>1, <1>2, <1>4, <1>5 DEF AInv

\* A step that deletes a row and all that is live below it.
LEMMA DeleteStep ==
    ASSUME AInv, NEW u \in Users, NEW x \in Ids, Delete(u, x)
    PROVE  AInv' /\ Final
<1> USE DataAssumption DEF DataAssumption
<1> DEFINE gone == {x} \cup Below(x)
<1>1. Exists(x)
  BY DEF Delete, Owns, OwnsBoard, OwnsColumn, OwnsCard, Live
<1>2. \A y \in gone : y \in Ids /\ Exists(y)
  BY <1>1 DEF Below, Children, Live
<1>3. row' = [y \in Ids |-> IF y \in gone THEN [row[y] EXCEPT !.deleted = TRUE] ELSE row[y]]
  BY DEF Delete
<1>4. \A y \in gone : row'[y] \in Row /\ row'[y].deleted /\ row'[y].parent = row[y].parent
  BY <1>2, <1>3 DEF AInv, RowsTyped, Exists, Row
<1>5. \A y \in Ids \ gone : row'[y] = row[y]
  BY <1>3
<1>6. RowsTyped'
  BY <1>3, <1>4, <1>5 DEF AInv, RowsTyped
<1>7. \A y \in Ids : /\ Exists(y)' = Exists(y)
                     /\ Exists(y) => row'[y].parent = row[y].parent
  BY <1>2, <1>4, <1>5 DEF Exists
<1>8. RowsHang'
  BY <1>7 DEF AInv, RowsHang, Ids
<1>9. \A y \in Ids : Live(y)' <=> Live(y) /\ y \notin gone
  BY <1>4, <1>5, <1>7 DEF Live
\* What hangs below a row that is deleted is deleted with it: the tree is three deep.
<1>10. \A y \in Columns \cup Cards : Live(y) /\ row[y].parent \in gone => y \in gone
  <2> TAKE y \in Columns \cup Cards
  <2> HAVE Live(y) /\ row[y].parent \in gone
  <2>1. y \in Children(row[y].parent)
    BY DEF Children, Ids
  <2>2. CASE row[y].parent \in {x} \cup Children(x)
    BY <2>1, <2>2 DEF Below
  <2>3. CASE \E z \in Children(x) : row[y].parent \in Children(z)
    <3>1. PICK z \in Children(x) : row[y].parent \in Children(z)
      BY <2>3
    <3>2. z \in Columns \cup Cards
      BY <3>1 DEF AInv, RowsHang, Children, Live, Ids
    <3>3. row[y].parent \in Cards
      BY <3>1, <3>2 DEF AInv, RowsHang, Children, Live, Ids
    <3> QED BY <3>3 DEF AInv, RowsHang, Live
  <2> QED BY <2>2, <2>3 DEF Below
<1>11. Cascade'
  <2> SUFFICES ASSUME NEW y \in Columns \cup Cards, Live(y)' PROVE Live(row[y].parent)'
    BY DEF Cascade
  <2>1. Live(y) /\ y \notin gone /\ y \in Ids
    BY <1>9 DEF Ids
  <2>2. PICK p \in Ids : p = row[y].parent /\ Live(p) /\ p \notin gone
    BY <1>10, <2>1 DEF AInv, Cascade, RowsHang, Live, Ids
  <2>3. row'[y].parent = p
    BY <1>7, <2>1, <2>2 DEF Live
  <2>4. Live(p)'
    BY <1>9, <2>2
  <2> QED BY <2>3, <2>4
<1>12. Final
  BY <1>7, <1>9 DEF Final
<1> QED BY <1>6, <1>8, <1>11, <1>12 DEF AInv

\* AInv is inductive, and no atomic step brings a deleted row back.
LEMMA AtomicStep == AInv /\ [AtomicNext]_row => AInv' /\ [Final]_row
<1> USE DataAssumption DEF DataAssumption
<1> SUFFICES ASSUME AInv, [AtomicNext]_row PROVE AInv' /\ [Final]_row
  OBVIOUS
<1>1. CASE UNCHANGED row
  BY <1>1 DEF AInv, RowsTyped, RowsHang, Cascade, Live, Exists
<1>2. ASSUME NEW u \in Users, AddBoard(u) PROVE AInv' /\ Final
  <2>1. PICK b \in Boards : ~Exists(b) /\ Put(b, NewRow(u, 0))
    BY <1>2 DEF AddBoard
  <2>2. NewRow(u, 0) \in Row /\ ~NewRow(u, 0).deleted /\ NewRow(u, 0).parent = u
    BY DEF NewRow, Row
  <2> QED BY <2>1, <2>2, PutStep DEF Ids
<1>3. ASSUME NEW parent \in Boards \cup Columns, NEW p \in Positions \cup NextPositions(parent)
      PROVE  NewRow(parent, p) \in Row /\ ~NewRow(parent, p).deleted
                                       /\ NewRow(parent, p).parent = parent
  <2>1. p \in Nat
    BY <1>3 DEF NextPositions, Last, Children, Live, Exists, AInv, RowsTyped, Row
  <2> QED BY <2>1 DEF NewRow, Row
<1>4. ASSUME NEW u \in Users, NEW b \in Boards, Add(u, b, Columns) PROVE AInv' /\ Final
  <2>1. PICK x \in Columns, p \in Positions \cup NextPositions(b) :
          ~Exists(x) /\ Put(x, NewRow(b, p))
    BY <1>4 DEF Add
  <2>2. Live(b)
    BY <1>4 DEF Add, Owns, OwnsBoard, Ids
  <2> QED BY <1>3, <2>1, <2>2, PutStep DEF Ids
<1>5. ASSUME NEW u \in Users, NEW c \in Columns, Add(u, c, Cards) PROVE AInv' /\ Final
  <2>1. PICK x \in Cards, p \in Positions \cup NextPositions(c) :
          ~Exists(x) /\ Put(x, NewRow(c, p))
    BY <1>5 DEF Add
  <2>2. Live(c)
    BY <1>5 DEF Add, Owns, OwnsColumn, Ids
  <2> QED BY <1>3, <2>1, <2>2, PutStep DEF Ids
<1>6. ASSUME NEW u \in Users, NEW c \in Columns, NEW p \in Positions, MoveWithin(u, c, p)
      PROVE  AInv' /\ Final
  <2> DEFINE v == [row[c] EXCEPT !.pos = p]
  <2>1. Live(c) /\ OwnsBoard(u, row[c].parent) /\ Put(c, v)
    BY <1>6 DEF MoveWithin, Owns, OwnsColumn, Ids
  <2>2. v \in Row /\ ~v.deleted /\ v.parent = row[c].parent
    BY <2>1 DEF AInv, RowsTyped, Live, Exists, Row, Ids
  <2>3. v.parent \in Boards /\ Live(v.parent)
    BY <2>1, <2>2 DEF AInv, RowsHang, OwnsBoard, Live
  <2> QED BY <2>1, <2>2, <2>3, PutStep DEF Ids
<1>7. ASSUME NEW u \in Users, NEW k \in Cards, NEW c \in Columns, NEW p \in Positions,
             MoveAcross(u, k, c, p)
      PROVE  AInv' /\ Final
  <2>1. Live(k) /\ Live(c) /\ Put(k, NewRow(c, p))
    BY <1>7 DEF MoveAcross, Owns, OwnsColumn, OwnsCard, Ids
  <2> QED BY <1>3, <2>1, PutStep DEF Ids
<1>8. CASE AtomicNext
  BY <1>2, <1>4, <1>5, <1>6, <1>7, <1>8, DeleteStep DEF AtomicNext
<1> QED BY <1>1, <1>8

\* The first rows satisfy AInv.
LEMMA AtomicInit == RowInit => AInv
BY DataAssumption DEF DataAssumption, RowInit, AInv, RowsTyped, RowsHang, Cascade, Live,
   Exists, Ids

\* The cascade: after any sequence of operations, a live column is on a live
\* board and a live card in a live column.
THEOREM CascadeHolds == AtomicSpec => []Cascade
<1>1. AInv => Cascade
  BY DEF AInv
<1> QED BY <1>1, AtomicInit, AtomicStep, PTL DEF AtomicSpec

\* No operation brings a deleted row back.
THEOREM DeletionIsFinal == AtomicSpec => DeletedIsFinal
<1>1. [Final]_row => [\A x \in Ids : Exists(x) /\ ~Live(x) => (Exists(x) /\ ~Live(x))']_row
  BY DEF Final
<1> QED BY <1>1, AtomicInit, AtomicStep, PTL DEF AtomicSpec, DeletedIsFinal

-----------------------------------------------------------------------------
(* One request of a user at a time: what it holds is exact *)

Alone ==
    \A r, s \in Requests :
       req[r] # Idle /\ req[s] # Idle /\ req[r].user = req[s].user => r = s

\* The row a request works on, or adds to, is one its user would find now.
Finds(r) ==
    LET q == req[r] IN
    /\ q # Idle => q.user \in Users /\ q.pc # "idle"
    /\ q.pc \in {"preload", "dest", "load", "write", "refind", "reload", "remove"}
          => q.id \in Ids /\ Owns(q.user, q.id)
    /\ q.pc \in {"place", "insert"}
          => q.id = None /\ q.entity.parent \in Ids /\ Owns(q.user, q.entity.parent)

\* The new row is not deleted, and its position is the client's or the next one.
Adds(r) ==
    LET q == req[r] IN
    /\ q.pc = "place" => q.op = "append" /\ ~q.entity.deleted /\ q.entity.pos = None
    /\ q.pc = "insert" =>
         /\ ~q.entity.deleted
         /\ \/ q.op = "create" /\ q.entity.pos \in Positions
            \/ q.op = "append" /\ q.entity.pos \in NextPositions(q.entity.parent)

\* An edit holds the row as it is; a move differs from it by the position and, for
\* a card, by the column, which the user would find now.
Saves(r) ==
    LET q == req[r] IN
    /\ q.pc = "preload" => q.op = "update"
    /\ q.pc \in {"load", "write"} =>
         \/ q.op = "update" /\ q.entity = row[q.id]
         \/ q.op = "move" /\ q.id \in Columns \cup Cards
    /\ q.pc = "dest" => q.op = "move"
    /\ q.pc \in {"dest", "load", "write"} /\ q.op = "move"
          => q.entity.pos \in Positions /\ ~q.entity.deleted
    /\ q.pc \in {"load", "write"} /\ q.op = "move" =>
         /\ q.id \in Columns => q.entity.parent = row[q.id].parent
         /\ q.id \in Cards => q.entity.parent \in Columns /\ OwnsColumn(q.user, q.entity.parent)
    /\ q.pc = "write" => q.diff = {f \in Fields : q.entity[f] # row[q.id][f]}

\* A removal holds the whole tree below the row, and nothing else.
Removes(r) ==
    LET q == req[r] IN
    /\ q.pc \in {"refind", "reload", "remove"} => q.op = "remove"
    /\ q.pc = "refind" => q.id \in Cards /\ q.edges = {}
    /\ q.pc \in {"reload", "remove"} => q.edges = Edges(q.id)

Exact(r) == Finds(r) /\ Adds(r) /\ Saves(r) /\ Removes(r)

ExactInv == IInv /\ Alone /\ \A r \in Requests : Exact(r)

\* A request starts only when its user has none in flight.
LEMMA OneSlot ==
    ASSUME MaxPerUser = 1, NEW r \in Requests, NEW u \in Users, FreeSlot(r, u)
    PROVE  req[r] = Idle /\ \A s \in Requests : req[s].user # u
<1> DEFINE S == {s \in Requests : req[s].user = u}
<1>1. IsFiniteSet(S)
  BY SlotsAssumption, FS_Subset DEF SlotsAssumption
<1>2. Cardinality(S) \in Nat
  BY <1>1, FS_CardinalityType
<1>3. Cardinality(S) < 1 /\ req[r] = Idle
  BY DEF FreeSlot
<1>4. Cardinality(S) = 0
  BY <1>2, <1>3
<1>5. S = {}
  BY <1>1, <1>4, FS_EmptySet
<1> QED BY <1>3, <1>5

\* What hangs from a row.
LEMMA ChildOwned ==
    ASSUME TypeOK, RowsFit, NEW x \in Ids, Exists(x), NEW y \in Children(x)
    PROVE  /\ y \in Columns \cup Cards /\ y \in Ids
           /\ Exists(y) /\ Live(y) /\ Owner(y) = Owner(x)
           /\ row[y].parent = x
BY DataAssumption DEF DataAssumption, Ids, RowsFit, Fits, Children, Live, Exists, Owner

\* A card has nothing in it.
LEMMA NothingBelowCards ==
    ASSUME TypeOK, RowsFit, NEW k \in Cards
    PROVE  Children(k) = {} /\ Below(k) = {} /\ Edges(k) = {}
<1>1. Children(k) = {}
  BY DataAssumption DEF DataAssumption, Ids, RowsFit, Fits, Children, Live
<1> QED BY <1>1 DEF Below, Edges

\* A row a user's query finds is there and his.
LEMMA OwnsFound ==
    ASSUME TypeOK, RowsFit, NEW u \in Users, NEW x \in Ids, Owns(u, x)
    PROVE  Live(x) /\ Exists(x) /\ Owner(x) = u
BY Found DEF Owns, OwnsBoard, OwnsColumn, OwnsCard, Live

\* The step touches no row of u, and gives him none but new boards.
Untouched(u) ==
    \A x \in Ids : (x \in Boards => Exists(x)) /\ Owner(x)' = u => row'[x] = row[x]

\* What a step leaves to a user's rows, seen from one of them.
LEMMA SameRow ==
    ASSUME PrivateStep, NEW u \in Users, Untouched(u), NEW x \in Ids,
           Exists(x), Owner(x) = u
    PROVE  row'[x] = row[x]
BY DEF PrivateStep, Untouched

\* All that a query sees of a user's rows stays the same.
LEMMA SameBelow ==
    ASSUME IInv, IInv', PrivateStep, NEW u \in Users, Untouched(u), NEW x \in Ids,
           Exists(x), Owner(x) = u
    PROVE  /\ row'[x] = row[x]
           /\ Edges(x)' = Edges(x)
           /\ NextPositions(x)' = NextPositions(x)
<1> USE DataAssumption DEF DataAssumption
<1>0. TypeOK /\ RowsFit /\ RowsFit'
  BY DEF IInv
<1>1. \A z \in Ids : Exists(z) /\ Owner(z) = u => row'[z] = row[z] /\ Owner(z)' = u
  BY SameRow DEF PrivateStep
<1>2. ASSUME NEW z \in Ids, Exists(z), Owner(z) = u
      PROVE  Children(z)' = Children(z)
  <2>1. \A y \in Children(z) : y \in Children(z)'
    BY <1>0, <1>1, <1>2, ChildOwned DEF Children, Live, Exists
  <2>2. ASSUME NEW y \in Children(z)' PROVE y \in Children(z)
    <3>1. y \in Ids /\ Live(y)' /\ Exists(y)' /\ row'[y].parent = z
      BY <2>2 DEF Children, Live
    <3>2. y \notin Boards /\ Owner(y)' = Owner(z)'
      BY <1>0, <3>1 DEF RowsFit, Fits, Owner, Ids
    <3>3. row'[y] = row[y]
      BY <1>1, <1>2, <3>1, <3>2 DEF Untouched
    <3> QED BY <3>1, <3>3 DEF Children, Live, Exists
  <2> QED BY <2>1, <2>2
<1>3. \A y \in Children(x) : y \in Ids /\ Exists(y) /\ Owner(y) = u
  BY <1>0, ChildOwned
<1>4. Below(x)' = Below(x)
  BY <1>2, <1>3 DEF Below
<1>5. \A y \in Below(x) : row'[y] = row[y]
  BY <1>0, <1>1, <1>3, ChildOwned DEF Below
<1>6. Edges(x)' = Edges(x)
  BY <1>4, <1>5 DEF Edges
<1>7. \A y \in Children(x) : row'[y] = row[y]
  BY <1>1, <1>3
<1>8. Last(x)' = Last(x)
  BY <1>2, <1>7 DEF Last
<1>9. \A y \in Last(x) : y \in Children(x)
  BY DEF Last
<1>10. NextPositions(x)' = NextPositions(x)
  BY <1>2, <1>7, <1>8, <1>9 DEF NextPositions
<1> QED BY <1>1, <1>6, <1>10

\* What a user finds he still finds.
LEMMA SameOwns ==
    ASSUME IInv, PrivateStep, NEW u \in Users, Untouched(u), NEW x \in Ids, Owns(u, x)
    PROVE  Owns(u, x)'
<1> USE DataAssumption DEF DataAssumption, Ids
<1>0. TypeOK /\ RowsFit
  BY DEF IInv
<1>1. \A z \in Ids : Exists(z) /\ Owner(z) = u => row'[z] = row[z]
  BY SameRow
<1>2. ASSUME NEW b \in Boards, OwnsBoard(u, b) PROVE OwnsBoard(u, b)'
  BY <1>0, <1>1, <1>2, Found DEF OwnsBoard, Live, Exists
<1>3. ASSUME NEW c \in Columns, OwnsColumn(u, c) PROVE OwnsColumn(u, c)'
  <2>1. row'[c] = row[c] /\ Live(c) /\ OwnsBoard(u, row[c].parent) /\ row[c].parent \in Boards
    BY <1>0, <1>1, <1>3, Found DEF OwnsColumn, RowsFit, Fits
  <2> QED BY <1>2, <2>1 DEF OwnsColumn, Live, Exists
<1>4. ASSUME NEW k \in Cards, OwnsCard(u, k) PROVE OwnsCard(u, k)'
  <2>1. row'[k] = row[k] /\ Live(k) /\ OwnsColumn(u, row[k].parent) /\ row[k].parent \in Columns
    BY <1>0, <1>1, <1>4, Found DEF OwnsCard, RowsFit, Fits
  <2> QED BY <1>3, <2>1 DEF OwnsCard, Live, Exists
<1> QED BY <1>2, <1>3, <1>4 DEF Owns

\* A request waits while others are at work: what it holds stays exact.
LEMMA ExactStable ==
    ASSUME IInv, IInv', PrivateStep, Alone, NEW s \in Requests, Exact(s),
           req'[s] = req[s]
    PROVE  Exact(s)'
<1> DEFINE q == req[s]
           u == req[s].user
<1> USE DataAssumption DEF DataAssumption
<1>0. TypeOK /\ RowsFit /\ RequestOK(s)
  BY DEF IInv
<1>1. CASE q = Idle
  BY <1>1 DEF Exact, Finds, Adds, Saves, Removes, Idle
<1>2. CASE q # Idle
  <2>1. u \in Users
    BY <1>2 DEF Exact, Finds
  <2>2. Untouched(u)
    BY <1>2 DEF PrivateStep, Untouched, Alone
  <2>3. \A x \in Ids : Owns(u, x) => Exists(x) /\ Owner(x) = u /\ Owns(u, x)'
    BY <1>0, <2>1, <2>2, OwnsFound, SameOwns
  <2>4. \A x \in Ids : Owns(u, x) =>
           /\ row'[x] = row[x]
           /\ Edges(x)' = Edges(x)
           /\ NextPositions(x)' = NextPositions(x)
    BY <2>1, <2>2, <2>3, SameBelow
  <2>5. Finds(s)'
    BY <2>3 DEF Exact, Finds
  <2>6. Adds(s)'
    BY <2>4 DEF Exact, Finds, Adds
  <2>7. Removes(s)'
    BY <2>4 DEF Exact, Finds, Removes
  <2>8. \A c \in Columns : OwnsColumn(u, c) <=> Owns(u, c)
    BY DEF Owns, Ids
  <2>9. \A c \in Columns : OwnsColumn(u, c)' <=> Owns(u, c)'
    BY DEF Owns, Ids
  <2>10. \A c \in Columns : OwnsColumn(u, c) => OwnsColumn(u, c)'
    BY <2>3, <2>8, <2>9 DEF Ids
  <2>11. Saves(s)'
    BY <2>4, <2>10 DEF Exact, Finds, Saves
  <2> QED BY <2>5, <2>6, <2>7, <2>11 DEF Exact
<1> QED BY <1>1, <1>2

\* A step of request r keeps the invariant, if r itself stays exact and alone.
LEMMA OthersExact ==
    ASSUME ExactInv, IInv', PrivateStep, NEW r \in Requests,
           \A s \in Requests \ {r} : req'[s] = req[s],
           req'[r] = Idle \/ req'[r].user = req[r].user
             \/ \A s \in Requests : req[s].user # req'[r].user,
           req'[r] # Idle => req[r] # Idle \/ \A s \in Requests : req[s].user # req'[r].user,
           Exact(r)'
    PROVE  ExactInv'
<1>1. Alone'
  BY DEF ExactInv, Alone
<1>2. \A s \in Requests \ {r} : Exact(s)'
  BY ExactStable DEF ExactInv
<1> QED BY <1>1, <1>2 DEF ExactInv

\* Where the rows stay as they are, so does what the queries find.
LEMMA SameQueries ==
    ASSUME row' = row
    PROVE  /\ \A u, x : Owns(u, x)' <=> Owns(u, x)
           /\ \A u, c : OwnsColumn(u, c)' <=> OwnsColumn(u, c)
           /\ \A x : Edges(x)' = Edges(x)
           /\ \A x : NextPositions(x)' = NextPositions(x)
BY DEF Owns, OwnsBoard, OwnsColumn, OwnsCard, Edges, Below, NextPositions, Last,
   Children, Live, Exists

\* A request that starts holds what its first SELECT found.
LEMMA StartExact ==
    ASSUME ExactInv, IInv', PrivateStep, MaxPerUser = 1,
           NEW r \in Requests, NEW u \in Users, FreeSlot(r, u),
           NEW op, NEW pc, NEW id, NEW entity, NEW edges,
           Start(r, u, op, pc, id, entity, edges), row' = row, Exact(r)'
    PROVE  ExactInv'
<1>1. req[r] = Idle /\ \A s \in Requests : req[s].user # u
  BY OneSlot
<1>2. req'[r].user = u /\ \A s \in Requests \ {r} : req'[s] = req[s]
  BY DEF Start, ExactInv, IInv, TypeOK
<1> QED BY <1>1, <1>2, OthersExact

\* A request that arrives is alone among its user's, and what it finds is so.
LEMMA ArriveExact ==
    ASSUME ExactInv, IInv', PrivateStep, MaxPerUser = 1,
           NEW r \in Requests, NEW u \in Users, Arrive(r, u)
    PROVE  ExactInv'
<1> USE DataAssumption DEF DataAssumption
<1>0. TypeOK /\ RowsFit /\ Exact(r)
  BY DEF ExactInv, IInv
<1>1. CASE ReadOrNotFound(r, u)
  <2>1. req' = req /\ row' = row
    BY <1>1 DEF ReadOrNotFound, vars
  <2>2. Exact(r)'
    BY <1>0, <2>1, ExactStable DEF ExactInv
  <2> QED BY <2>1, <2>2, OthersExact
<1>2. CASE CreateBoard(r, u)
  <2>1. req' = req
    BY <1>2 DEF CreateBoard
  <2>2. Exact(r)'
    BY <1>0, <2>1, ExactStable DEF ExactInv
  <2> QED BY <2>1, <2>2, OthersExact
\* The state of the request that has started.
<1>3. ASSUME NEW op, NEW pc, NEW id, NEW entity, NEW edges,
             Start(r, u, op, pc, id, entity, edges)
      PROVE  /\ req'[r].op = op /\ req'[r].pc = pc /\ req'[r].user = u
             /\ req'[r].id = id /\ req'[r].entity = entity /\ req'[r].edges = edges
  BY <1>0, <1>3 DEF Start, TypeOK
<1>4. ASSUME NEW x \in Ids, Owns(u, x), FreeSlot(r, u),
             Start(r, u, "update", "preload", x, None, {}), row' = row
      PROVE  ExactInv'
  <2>1. Exact(r)'
    BY <1>3, <1>4, SameQueries DEF Exact, Finds, Adds, Saves, Removes
  <2> QED BY <1>4, <2>1, StartExact
<1>5. ASSUME NEW x \in Ids, Owns(u, x), FreeSlot(r, u),
             Start(r, u, "remove", "reload", x, None, Edges(x)), row' = row
      PROVE  ExactInv'
  <2>1. Exact(r)'
    BY <1>3, <1>5, SameQueries DEF Exact, Finds, Adds, Saves, Removes
  <2> QED BY <1>5, <2>1, StartExact
<1>6. ASSUME NEW x \in Boards \cup Columns, Owns(u, x), FreeSlot(r, u), row' = row,
             NEW p \in Positions \cup {None},
             IF p = None
             THEN Start(r, u, "append", "place", None, NewRow(x, None), {})
             ELSE Start(r, u, "create", "insert", None, NewRow(x, p), {})
      PROVE  ExactInv'
  <2>1. /\ NewRow(x, p).parent = x /\ NewRow(x, p).pos = p /\ ~NewRow(x, p).deleted
        /\ x \in Ids
    BY DEF NewRow, Ids
  <2>2. CASE p = None
    <3>1. Exact(r)'
      BY <1>3, <1>6, <2>1, <2>2, SameQueries DEF Exact, Finds, Adds, Saves, Removes
    <3> QED BY <1>6, <2>2, <3>1, StartExact
  <2>3. CASE p # None
    <3>1. Exact(r)'
      BY <1>3, <1>6, <2>1, <2>3, SameQueries DEF Exact, Finds, Adds, Saves, Removes
    <3> QED BY <1>6, <2>3, <3>1, StartExact
  <2> QED BY <2>2, <2>3
<1>7. ASSUME NEW c \in Columns, NEW p \in Positions, MoveColumn(r, u, c, p)
      PROVE  ExactInv'
  <2> DEFINE e == [row[c] EXCEPT !.pos = p]
  <2>1. Owns(u, c) /\ Live(c) /\ row[c] \in Row /\ c \in Ids
    BY <1>0, <1>7 DEF MoveColumn, Owns, OwnsColumn, Live, Exists, Ids, TypeOK
  <2>2. e.parent = row[c].parent /\ e.pos = p /\ ~e.deleted
    BY <2>1 DEF Row, Live
  <2>3. /\ FreeSlot(r, u) /\ row' = row
        /\ Start(r, u, "move", "load", c, e, {})
    BY <1>7 DEF MoveColumn
  <2> HIDE DEF e
  <2>4. Exact(r)'
    BY <1>3, <2>1, <2>2, <2>3, SameQueries DEF Exact, Finds, Adds, Saves, Removes, Ids
  <2> QED BY <2>3, <2>4, StartExact
<1>8. ASSUME NEW k \in Cards, NEW c \in Columns, NEW p \in Positions, MoveCard(r, u, k, c, p)
      PROVE  ExactInv'
  <2>1. Owns(u, k) /\ k \in Ids
    BY <1>8 DEF MoveCard, Owns, Ids
  <2>2. NewRow(c, p).pos = p /\ ~NewRow(c, p).deleted
    BY DEF NewRow
  <2>3. /\ FreeSlot(r, u) /\ row' = row
        /\ Start(r, u, "move", "dest", k, NewRow(c, p), {})
    BY <1>8 DEF MoveCard
  <2>4. Exact(r)'
    BY <1>3, <2>1, <2>2, <2>3, SameQueries DEF Exact, Finds, Adds, Saves, Removes
  <2> QED BY <2>3, <2>4, StartExact
<1>9. ASSUME NEW k \in Cards, RemoveCard(r, u, k) PROVE ExactInv'
  <2>1. /\ FreeSlot(r, u) /\ row' = row /\ Owns(u, k) /\ k \in Ids
        /\ Start(r, u, "remove", "refind", k, None, {})
    BY <1>9 DEF RemoveCard, Owns, Ids
  <2>2. Exact(r)'
    BY <1>3, <2>1, SameQueries DEF Exact, Finds, Adds, Saves, Removes
  <2> QED BY <2>1, <2>2, StartExact
<1>10. \A b \in Boards : OwnsBoard(u, b) => Owns(u, b)
  BY DEF Owns
<1>11. \A c \in Columns : OwnsColumn(u, c) => Owns(u, c)
  BY DEF Owns
<1>12. \A k \in Cards : OwnsCard(u, k) => Owns(u, k)
  BY DEF Owns
<1>13. ASSUME NEW b \in Boards, UpdateBoard(r, u, b) \/ RemoveBoard(r, u, b) PROVE ExactInv'
  BY <1>4, <1>5, <1>10, <1>13 DEF UpdateBoard, RemoveBoard, Ids
<1>14. ASSUME NEW b \in Boards, NEW p \in Positions \cup {None}, CreateColumn(r, u, b, p)
       PROVE  ExactInv'
  BY <1>6, <1>10, <1>14 DEF CreateColumn
<1>15. ASSUME NEW c \in Columns, UpdateColumn(r, u, c) \/ RemoveColumn(r, u, c) PROVE ExactInv'
  BY <1>4, <1>5, <1>11, <1>15 DEF UpdateColumn, RemoveColumn, Ids
<1>16. ASSUME NEW c \in Columns, NEW p \in Positions \cup {None}, CreateCard(r, u, c, p)
       PROVE  ExactInv'
  BY <1>6, <1>11, <1>16 DEF CreateCard
<1>17. ASSUME NEW k \in Cards, UpdateCard(r, u, k) PROVE ExactInv'
  BY <1>4, <1>12, <1>17 DEF UpdateCard, Ids
<1> QED BY <1>1, <1>2, <1>7, <1>8, <1>9, <1>13, <1>14, <1>15, <1>16, <1>17 DEF Arrive

\* What a request read stays so until its own next step.
LEMMA ContinueExact ==
    ASSUME ExactInv, IInv', PrivateStep, NEW r \in Requests, Continue(r)
    PROVE  ExactInv'
<1> USE DataAssumption DEF DataAssumption
<1> DEFINE q == req[r]
<1>0. TypeOK /\ RowsFit /\ Exact(r) /\ RequestOK(r) /\ q \in Request
  BY DEF ExactInv, IInv, TypeOK
<1>1. ASSUME Finish(r) PROVE ExactInv'
  <2>1. req'[r] = Idle /\ \A s \in Requests \ {r} : req'[s] = req[s]
    BY <1>0, <1>1 DEF Finish, TypeOK
  <2>2. Exact(r)'
    BY <2>1 DEF Exact, Finds, Adds, Saves, Removes, Idle
  <2> QED BY <2>1, <2>2, OthersExact
\* The request goes on, for the same user.
<1>2. ASSUME NEW w, req' = [req EXCEPT ![r] = w], w.user = q.user, q.pc # "idle", Exact(r)'
      PROVE  ExactInv'
  <2>1. req'[r] = w /\ \A s \in Requests \ {r} : req'[s] = req[s]
    BY <1>0, <1>2 DEF TypeOK
  <2>2. q # Idle
    BY <1>2 DEF Idle
  <2> QED BY <1>2, <2>1, <2>2, OthersExact
<1>3. ASSUME NEW pc, Goto(r, pc)
      PROVE  /\ req' = [req EXCEPT ![r] = [q EXCEPT !.pc = pc]]
             /\ [q EXCEPT !.pc = pc].user = q.user
             /\ req'[r].pc = pc /\ req'[r].user = q.user /\ req'[r].id = q.id
             /\ req'[r].entity = q.entity /\ req'[r].edges = q.edges /\ req'[r].op = q.op
  BY <1>0, <1>3 DEF Goto, TypeOK, Request
<1>4. CASE Insert(r) \/ SaveWrite(r) \/ RemoveWrite(r) \/ Abort(r)
  BY <1>1, <1>4 DEF Insert, SaveWrite, RemoveWrite, Abort
<1>5. CASE Place(r)
  <2>1. PICK p \in NextPositions(q.entity.parent) :
          req' = [req EXCEPT ![r].pc = "insert", ![r].entity.pos = p]
    BY <1>5 DEF Place
  <2>2. q.pc = "place" /\ row' = row /\ q.entity \in Entity
    BY <1>0, <1>5 DEF Place, RequestOK
  <2> DEFINE w == [q EXCEPT !.pc = "insert", !.entity = [q.entity EXCEPT !.pos = p]]
  <2>3. req' = [req EXCEPT ![r] = w]
    <3>1. req' = [req EXCEPT ![r] = [req[r] EXCEPT !.pc = "insert", !.entity.pos = p]]
      BY <2>1, Zenon
    <3> QED BY <1>0, <3>1
  <2>4. /\ w.pc = "insert" /\ w.user = q.user /\ w.op = q.op /\ w.id = q.id
        /\ w.entity.parent = q.entity.parent /\ w.entity.pos = p
        /\ w.entity.deleted = q.entity.deleted
    BY <1>0, <2>2 DEF Request, Entity
  <2>5. req'[r] = w
    BY <1>0, <2>3 DEF TypeOK
  <2>6. q # Idle
    BY <2>2 DEF Idle
  <2> HIDE DEF w
  <2>7. Exact(r)'
    BY <1>0, <2>1, <2>2, <2>4, <2>5, <2>6, SameQueries DEF Exact, Finds, Adds, Saves, Removes
  <2> QED BY <1>2, <2>2, <2>3, <2>4, <2>7
<1>6. CASE MoveDest(r)
  <2>1. CASE ~OwnsColumn(q.user, q.entity.parent)
    BY <1>1, <1>6, <2>1 DEF MoveDest
  <2>2. CASE OwnsColumn(q.user, q.entity.parent)
    <3>1. q.pc = "dest" /\ Goto(r, "load") /\ row' = row
      BY <1>6, <2>2 DEF MoveDest
    <3>2. q.entity.parent \in Columns /\ q.id \in Cards /\ q # Idle
      BY <1>0, <3>1 DEF RequestOK, Idle
    <3>3. Exact(r)'
      BY <1>0, <1>3, <2>2, <3>1, <3>2, SameQueries DEF Exact, Finds, Adds, Saves, Removes
    <3> QED BY <1>2, <1>3, <3>1, <3>3
  <2> QED BY <2>1, <2>2
<1>7. CASE Preload(r)
  <2>1. CASE ~Live(q.id)
    BY <1>1, <1>7, <2>1 DEF Preload
  <2>2. CASE Live(q.id)
    <3> DEFINE w == [q EXCEPT !.pc = "load", !.entity = row[q.id]]
    <3>1. q.pc = "preload" /\ row' = row /\ q # Idle
      BY <1>7 DEF Preload, Idle
    <3>2. req' = [req EXCEPT ![r] = w]
      BY <1>0, <1>7, <2>2 DEF Preload, TypeOK
    <3>3. /\ w.pc = "load" /\ w.user = q.user /\ w.op = q.op /\ w.id = q.id
          /\ w.entity = row[q.id]
      BY <1>0 DEF Request
    <3>4. req'[r] = w
      BY <1>0, <3>2 DEF TypeOK
    <3> HIDE DEF w
    <3>5. Exact(r)'
      BY <1>0, <3>1, <3>3, <3>4, SameQueries DEF Exact, Finds, Adds, Saves, Removes
    <3> QED BY <1>2, <3>1, <3>2, <3>3, <3>5
  <2> QED BY <2>1, <2>2
<1>8. CASE SaveLoad(r)
  <2> DEFINE d == {f \in Fields : q.entity[f] # row[q.id][f]}
             w == [q EXCEPT !.pc = "write", !.diff = d]
  <2>1. q.pc = "load" /\ row' = row /\ q # Idle
    BY <1>8 DEF SaveLoad, Idle
  <2>2. req' = [req EXCEPT ![r] = w]
    BY <1>0, <1>8 DEF SaveLoad, TypeOK
  <2>3. /\ w.pc = "write" /\ w.user = q.user /\ w.op = q.op /\ w.id = q.id
        /\ w.entity = q.entity /\ w.diff = d
    BY <1>0 DEF Request
  <2>4. req'[r] = w
    BY <1>0, <2>2 DEF TypeOK
  <2> HIDE DEF w
  <2>5. Exact(r)'
    BY <1>0, <2>1, <2>3, <2>4, SameQueries DEF Exact, Finds, Adds, Saves, Removes
  <2> QED BY <1>2, <2>1, <2>2, <2>3, <2>5
<1>9. CASE RemoveFind(r)
  <2>1. CASE ~Live(q.id)
    BY <1>1, <1>9, <2>1 DEF RemoveFind
  <2>2. CASE Live(q.id)
    <3>1. q.pc = "refind" /\ Goto(r, "remove") /\ row' = row /\ q # Idle
      BY <1>9, <2>2 DEF RemoveFind, Idle
    <3>2. q.edges = Edges(q.id)
      BY <1>0, <3>1, NothingBelowCards DEF Exact, Removes
    <3>3. Exact(r)'
      BY <1>0, <1>3, <3>1, <3>2, SameQueries DEF Exact, Finds, Adds, Saves, Removes
    <3> QED BY <1>2, <1>3, <3>1, <3>3
  <2> QED BY <2>1, <2>2
<1>10. CASE RemoveLoad(r)
  <2>1. q.pc = "reload" /\ row' = row /\ q # Idle /\ (Goto(r, "remove") \/ Finish(r))
    BY <1>10 DEF RemoveLoad, Idle
  <2>2. CASE Goto(r, "remove")
    <3>1. Exact(r)'
      BY <1>0, <1>3, <2>1, <2>2, SameQueries DEF Exact, Finds, Adds, Saves, Removes
    <3> QED BY <1>2, <1>3, <2>1, <2>2, <3>1
  <2> QED BY <1>1, <2>1, <2>2
<1> QED BY <1>4, <1>5, <1>6, <1>7, <1>8, <1>9, <1>10 DEF Continue

\* save() leaves the row as the entity: no other column has changed meanwhile.
LEMMA SavesEntity ==
    ASSUME ExactInv, NEW r \in Requests, SaveWrite(r)
    PROVE  /\ row' = [row EXCEPT ![req[r].id] = req[r].entity]
           /\ req[r].op = "update" => row' = row
<1> DEFINE q == req[r]
           y == q.id
           e == q.entity
           v == [f \in Fields |-> IF f \in q.diff THEN e[f] ELSE row[y][f]]
<1>0. TypeOK /\ RowsFit /\ Exact(r) /\ RequestOK(r) /\ q.pc = "write"
  BY DEF ExactInv, IInv, SaveWrite
<1>1. /\ q.user \in Users /\ y \in Ids /\ Owns(q.user, y) /\ e \in Row
      /\ q.diff = {f \in Fields : e[f] # row[y][f]}
  BY <1>0 DEF RequestOK, Exact, Finds, Saves, Idle
<1>2. row[y] \in Row
  BY <1>0, <1>1, OwnsFound DEF TypeOK, Exists
<1>3. v = e
  BY <1>1, <1>2 DEF Row, Fields
<1>4. row' = [row EXCEPT ![y] = e]
  BY <1>3 DEF SaveWrite
<1>5. q.op = "update" => e = row[y]
  BY <1>0 DEF Exact, Saves
<1> QED BY <1>0, <1>4, <1>5 DEF TypeOK

\* What a step of a request does to the rows is nothing, or an atomic operation
\* of its user.
LEMMA Simulation ==
    ASSUME ExactInv, NEW r \in Requests,
           Continue(r) \/ \E u \in Users : Arrive(r, u)
    PROVE  [AtomicNext]_row
<1> USE DataAssumption DEF DataAssumption
<1> DEFINE q == req[r]
<1>0. TypeOK /\ RowsFit /\ Exact(r) /\ RequestOK(r) /\ q \in Request
  BY DEF ExactInv, IInv, TypeOK
<1>1. ASSUME NEW u \in Users, Arrive(r, u) PROVE [AtomicNext]_row
  <2>1. CASE CreateBoard(r, u)
    BY <2>1 DEF CreateBoard, AtomicNext, AddBoard, Put
  <2>2. CASE ~CreateBoard(r, u)
    BY <1>1, <2>2 DEF Arrive, ReadOrNotFound, vars, UpdateBoard, RemoveBoard, CreateColumn,
       UpdateColumn, MoveColumn, RemoveColumn, CreateCard, UpdateCard, MoveCard, RemoveCard
  <2> QED BY <2>1, <2>2
<1>2. CASE Insert(r)
  <2> DEFINE p == q.entity.parent
             n == q.entity.pos
  <2>1. /\ q.user \in Users /\ Owns(q.user, p) /\ p \in Boards \cup Columns
        /\ q.entity \in Row /\ ~q.entity.deleted
        /\ n \in Positions \cup NextPositions(p)
    BY <1>0, <1>2 DEF Insert, RequestOK, Exact, Finds, Adds, Idle
  <2>2. q.entity = NewRow(p, n)
    BY <2>1 DEF NewRow, Row
  <2>3. \E x \in IF p \in Boards THEN Columns ELSE Cards : ~Exists(x) /\ Put(x, NewRow(p, n))
    BY <1>2, <2>2 DEF Insert, Put
  <2> HIDE DEF p, n
  <2>4. CASE p \in Boards
    <3>1. Add(q.user, p, Columns)
      BY <2>1, <2>3, <2>4 DEF Add
    <3> QED BY <2>1, <2>4, <3>1 DEF AtomicNext
  <2>5. CASE p \in Columns
    <3>1. Add(q.user, p, Cards)
      BY <2>1, <2>3, <2>5 DEF Add
    <3> QED BY <2>1, <2>5, <3>1 DEF AtomicNext
  <2> QED BY <2>1, <2>4, <2>5
<1>3. CASE SaveWrite(r)
  <2> DEFINE y == q.id
             e == q.entity
  <2>1. /\ q.user \in Users /\ y \in Ids /\ Owns(q.user, y) /\ q.pc = "write"
        /\ e \in Row /\ row[y] \in Row
    BY <1>0, <1>3, OwnsFound DEF SaveWrite, RequestOK, Exact, Finds, Idle, TypeOK, Exists
  <2>4. row' = [row EXCEPT ![y] = e]
    BY <1>3, SavesEntity
  <2>5. CASE q.op = "update"
    BY <1>0, <2>1, <2>4, <2>5 DEF Exact, Saves, TypeOK
  <2>6. CASE q.op = "move"
    <3>1. e.pos \in Positions /\ ~e.deleted
      BY <1>0, <2>1, <2>6 DEF Exact, Saves
    <3>2. e = NewRow(e.parent, e.pos)
      BY <2>1, <3>1 DEF NewRow, Row
    <3>3. CASE y \in Columns
      <4>1. ~row[y].deleted /\ row[y].parent = e.parent
        BY <1>0, <2>1, <2>6, <3>3, OwnsFound DEF Exact, Saves, Live
      <4>2. e = [row[y] EXCEPT !.pos = e.pos]
        BY <2>1, <3>1, <4>1 DEF Row
      <4>3. MoveWithin(q.user, y, e.pos)
        BY <2>1, <2>4, <4>2 DEF MoveWithin, Put
      <4> QED BY <2>1, <3>1, <3>3, <4>3 DEF AtomicNext
    <3>4. CASE y \in Cards
      <4>1. e.parent \in Columns /\ OwnsColumn(q.user, e.parent)
        BY <1>0, <2>1, <2>6, <3>4 DEF Exact, Saves
      <4>2. MoveAcross(q.user, y, e.parent, e.pos)
        BY <2>1, <2>4, <3>2, <4>1 DEF MoveAcross, Put, Owns
      <4> QED BY <2>1, <3>1, <3>4, <4>1, <4>2 DEF AtomicNext
    <3> QED BY <1>0, <2>1, <2>6, <3>3, <3>4 DEF Exact, Saves
  <2> QED BY <1>0, <2>1, <2>5, <2>6 DEF Exact, Saves
<1>4. CASE RemoveWrite(r)
  <2>1. /\ q.user \in Users /\ q.id \in Ids /\ Owns(q.user, q.id)
        /\ q.edges = Edges(q.id)
    BY <1>0, <1>4 DEF RemoveWrite, Exact, Finds, Removes, Idle
  <2>2. {e[1] : e \in q.edges} = Below(q.id)
    <3>1. ASSUME NEW y \in Below(q.id) PROVE \E e \in q.edges : e[1] = y
      <4> <<y, row[y].parent>> \in q.edges
        BY <2>1 DEF Edges
      <4> WITNESS <<y, row[y].parent>> \in q.edges
      <4> QED OBVIOUS
    <3>2. \A e \in q.edges : e[1] \in Below(q.id)
      BY <2>1 DEF Edges
    <3> QED BY <3>1, <3>2
  <2>3. row' = [x \in Ids |-> IF x \in {q.id} \cup Below(q.id)
                              THEN [row[x] EXCEPT !.deleted = TRUE] ELSE row[x]]
    BY <1>4, <2>2 DEF RemoveWrite
  <2>4. Delete(q.user, q.id)
    BY <2>1, <2>3 DEF Delete
  <2> QED BY <2>1, <2>4 DEF AtomicNext
<1>5. CASE Place(r) \/ MoveDest(r) \/ Preload(r) \/ SaveLoad(r) \/ RemoveFind(r)
             \/ RemoveLoad(r) \/ Abort(r)
  BY <1>5 DEF Place, MoveDest, Preload, SaveLoad, RemoveFind, RemoveLoad, Abort
<1> QED BY <1>1, <1>2, <1>3, <1>4, <1>5 DEF Continue

\* At the start nothing is running.
LEMMA ExactInit == Init => ExactInv
<1> SUFFICES ASSUME Init PROVE ExactInv
  OBVIOUS
<1>1. \A r \in Requests : req[r] = Idle
  BY DEF Init
<1>2. \A r \in Requests : Exact(r)
  BY <1>1 DEF Exact, Finds, Adds, Saves, Removes, Idle
<1> QED BY <1>1, <1>2, InitInvariant DEF ExactInv, Alone

\* Each step of the services is an atomic operation or none.
LEMMA ExactStep ==
    ASSUME MaxPerUser = 1, ExactInv, [Next]_vars
    PROVE  ExactInv' /\ [AtomicNext]_row
<1>1. CASE Next
  <2>1. PICK r \in Requests : Continue(r) \/ \E u \in Users : Arrive(r, u)
    BY <1>1 DEF Next
  <2>2. IInv' /\ PrivateStep
    BY <2>1, ContinueStep, ArriveStep DEF ExactInv
  <2>3. ExactInv'
    BY <2>1, <2>2, ContinueExact, ArriveExact
  <2> QED BY <2>1, <2>3, Simulation
<1>2. CASE UNCHANGED vars
  <2>1. row' = row /\ req' = req
    BY <1>2 DEF vars
  <2>2. IInv'
    BY <2>1, StepInvariant DEF ExactInv, vars
  <2>3. PrivateStep
    BY <2>1 DEF PrivateStep, Exists, Owner
  <2>4. \A r \in Requests : Exact(r)'
    BY <2>1, <2>2, <2>3, ExactStable DEF ExactInv
  <2>5. Alone'
    BY <2>1 DEF ExactInv, Alone
  <2> QED BY <2>1, <2>2, <2>4, <2>5 DEF ExactInv
<1> QED BY <1>1, <1>2

\* Both modules speak of the same rows.
LEMMA SameOperations == Atomic!AtomicNext <=> AtomicNext
BY DEF Atomic!AtomicNext, Atomic!AddBoard, Atomic!Add, Atomic!MoveWithin, Atomic!MoveAcross,
   Atomic!Delete, Atomic!Put, Atomic!Owns, Atomic!OwnsBoard, Atomic!OwnsColumn,
   Atomic!OwnsCard, Atomic!Live, Atomic!Exists, Atomic!Below, Atomic!Children,
   Atomic!NextPositions, Atomic!Last, Atomic!NewRow, Atomic!Ids,
   AtomicNext, AddBoard, Add, MoveWithin, MoveAcross, Delete, Put, Owns, OwnsBoard,
   OwnsColumn, OwnsCard, Live, Exists, Below, Children, NextPositions, Last, NewRow, Ids

\* The services implement the atomic operations while each user has one request
\* in flight at a time, whatever the requests of different users do between any
\* two awaits of his.
THEOREM IsolatedIsAtomic ==
    ASSUME MaxPerUser = 1
    PROVE  Spec => ImplementsAtomic
<1>1. Init => Atomic!RowInit
  BY DEF Init, RowInit, Atomic!RowInit, Ids, Atomic!Ids
<1>2. ExactInv /\ [Next]_vars => ExactInv' /\ [Atomic!AtomicNext]_row
  BY ExactStep, SameOperations
<1> QED BY <1>1, <1>2, ExactInit, PTL DEF Spec, ImplementsAtomic, Atomic!AtomicSpec

\* So what the atomic operations promise, the services keep: nothing live is left
\* below a deleted board or column ...
THEOREM IsolatedCascade ==
    ASSUME MaxPerUser = 1
    PROVE  Spec => []Cascade
<1>1. ExactInv /\ [Next]_vars => ExactInv' /\ [AtomicNext]_row
  BY ExactStep
<1>2. Spec => AtomicSpec
  BY <1>1, ExactInit, PTL DEF Spec, Init, AtomicSpec
<1> QED BY <1>2, CascadeHolds

\* ... and no request brings a deleted row back.
THEOREM IsolatedDeletionIsFinal ==
    ASSUME MaxPerUser = 1
    PROVE  Spec => DeletedIsFinal
<1>1. ExactInv /\ [Next]_vars => ExactInv' /\ [AtomicNext]_row
  BY ExactStep
<1>2. Spec => AtomicSpec
  BY <1>1, ExactInit, PTL DEF Spec, Init, AtomicSpec
<1> QED BY <1>2, DeletionIsFinal

\* An edit that saves the whole entity again leaves the card where it is.
LEMMA EditStep ==
    ASSUME ExactInv, Next, NEW k \in Cards, NEW r \in Requests,
           Exists(k), req[r].id = k, req'[r] = Idle,
           <<row[k].parent, row[k].pos>> # <<row'[k].parent, row'[k].pos>>
    PROVE  req[r].op = "move"
<1> USE DataAssumption DEF DataAssumption
<1>0. TypeOK /\ RowsFit /\ Exact(r)
  BY DEF ExactInv, IInv
<1>1. PICK s \in Requests : Continue(s) \/ \E u \in Users : Arrive(s, u)
  BY DEF Next
<1>2. req[r] # Idle /\ k \in Ids
  BY DEF Idle, Ids
<1>3. Continue(s)
  <2> SUFFICES ASSUME NEW u \in Users, Arrive(s, u) PROVE FALSE
    BY <1>1
  <2>1. CASE CreateBoard(s, u)
    BY <1>0, <1>2, <2>1 DEF CreateBoard, TypeOK
  <2>2. CASE ~CreateBoard(s, u)
    BY <2>2 DEF Arrive, ReadOrNotFound, vars, UpdateBoard, RemoveBoard, CreateColumn,
       UpdateColumn, MoveColumn, RemoveColumn, CreateCard, UpdateCard, MoveCard, RemoveCard
  <2> QED BY <2>1, <2>2
<1>4. s = r
  BY <1>0, <1>2, <1>3 DEF Continue, Place, Insert, MoveDest, Preload, SaveLoad, SaveWrite,
     RemoveFind, RemoveLoad, RemoveWrite, Abort, Finish, Goto, TypeOK
<1>5. ~RemoveWrite(r)
  <2> SUFFICES ASSUME RemoveWrite(r) PROVE row'[k].parent = row[k].parent /\ row'[k].pos = row[k].pos
    OBVIOUS
  <2>1. row[k] \in Row
    BY <1>0, <1>2 DEF TypeOK, Exists
  <2>2. row'[k] \in {row[k], [row[k] EXCEPT !.deleted = TRUE]}
    BY <1>2 DEF RemoveWrite
  <2> QED BY <2>1, <2>2 DEF Row
<1>6. ~Insert(r)
  BY <1>0, <1>2 DEF Insert, Exact, Finds
<1>7. SaveWrite(r)
  BY <1>3, <1>4, <1>5, <1>6 DEF Continue, Place, MoveDest, Preload, SaveLoad, RemoveFind,
     RemoveLoad, Abort
<1>8. req[r].op # "update"
  BY <1>7, SavesEntity
<1> QED BY <1>0, <1>7, <1>8 DEF SaveWrite, Exact, Saves

\* The next position is past that of every row that is there.
LEMMA PastTheLast ==
    ASSUME TypeOK, NEW x \in Ids, NEW p \in NextPositions(x), NEW y \in Children(x)
    PROVE  row[y].pos < p
<1> USE DataAssumption DEF DataAssumption
<1>1. PICK z \in Last(x) : p = row[z].pos + STEP
  BY DEF NextPositions
<1>2. row[y].pos =< row[z].pos
  BY <1>1 DEF Last
<1>3. row[y].pos \in Nat /\ row[z].pos \in Nat
  BY <1>1 DEF Last, Children, Live, Exists, TypeOK, Row
<1> QED BY <1>1, <1>2, <1>3

\* An append writes behind every row of its list.
LEMMA AppendStep ==
    ASSUME ExactInv, TypeOK', NEW r \in Requests, req[r].op = "append",
           NEW x \in Ids, Exists(x)', row'[x] = req[r].entity,
           NEW y \in Children(row'[x].parent)
    PROVE  row[y].pos < row'[x].pos
<1> DEFINE q == req[r]
<1>0. TypeOK /\ Exact(r) /\ q \in Request
  BY DEF ExactInv, IInv, TypeOK
<1>1. q.pc \in {"place", "insert"}
  BY <1>0 DEF Exact, Finds, Saves, Removes, Request, Idle
<1>2. q.entity.pos \in Nat
  BY DEF TypeOK, Exists, Row
<1>3. q.pc = "insert"
  BY <1>0, <1>1, <1>2, DataAssumption DEF DataAssumption, Exact, Adds
<1>4. q.entity.parent \in Ids /\ q.entity.pos \in NextPositions(q.entity.parent)
  BY <1>0, <1>3 DEF Exact, Finds, Adds
<1> QED BY <1>0, <1>4, PastTheLast

\* An edit of titles and the like never undoes a move, for any number of users
\* with one request in flight each.
THEOREM IsolatedEditsStayPut ==
    ASSUME MaxPerUser = 1
    PROVE  Spec => OnlyMovesMove
<1> DEFINE Stays == \A k \in Cards, r \in Requests :
                      /\ Exists(k) /\ req[r].id = k /\ req'[r] = Idle
                      /\ <<row[k].parent, row[k].pos>> # <<row'[k].parent, row'[k].pos>>
                      => req[r].op = "move"
<1>1. ExactInv /\ [Next]_vars => ExactInv' /\ [Stays]_vars
  BY ExactStep, EditStep
<1> QED BY <1>1, ExactInit, PTL DEF Spec, OnlyMovesMove

\* A row created without a position comes after every row it then stands next to.
THEOREM IsolatedAppendsLast ==
    ASSUME MaxPerUser = 1
    PROVE  Spec => AppendsLast
<1> DEFINE Appends == \A r \in Requests : req[r].op = "append" =>
                        \A x \in Ids : ~Exists(x) /\ Exists(x)' /\ row'[x] = req[r].entity =>
                           \A y \in Children(row'[x].parent) : row[y].pos < row'[x].pos
<1>1. ASSUME ExactInv, [Next]_vars PROVE ExactInv' /\ [Appends]_vars
  <2>1. ExactInv'
    BY <1>1, ExactStep
  <2>2. TypeOK'
    BY <2>1 DEF ExactInv, IInv
  <2> QED BY <1>1, <2>1, <2>2, AppendStep
<1> QED BY <1>1, ExactInit, PTL DEF Spec, AppendsLast

-----------------------------------------------------------------------------
(* Requests of one user that overlap: what is gone stays gone *)

\* What is lost is deleted, or hangs from a row that is lost ...
Rooted ==
    \A x \in lost : /\ x \in Ids /\ Exists(x)
                    /\ row[x].deleted \/ (x \notin Boards /\ row[x].parent \in lost)

\* ... and no save that is under way is of such a row: its request would have had
\* to find the row before it was lost, and none was in flight then.
Apart ==
    \A r \in Requests :
       req[r].pc \in {"preload", "dest", "load", "write"} => req[r].id \notin lost

HistoryInv == IInv /\ Rooted /\ Apart

\* A row of the history that is lost cannot be reached.
LEMMA RootedIsGone == ASSUME TypeOK, RowsFit, Rooted PROVE GoneForGood
<1> USE DataAssumption DEF DataAssumption
<1> SUFFICES ASSUME NEW x \in lost, Reachable(x) PROVE FALSE
  BY DEF GoneForGood
<1>1. x \in Ids /\ Exists(x) /\ ~row[x].deleted /\ x \notin Boards /\ row[x].parent \in lost
  BY DEF Rooted, Reachable, Live
<1>2. CASE x \in Columns
  <2>1. row[x].parent \in Boards /\ row[x].parent \in lost /\ Live(row[x].parent)
    BY <1>1, <1>2 DEF RowsFit, Fits, Reachable, Ids
  <2> QED BY <2>1 DEF Rooted, Live
<1>3. CASE x \in Cards
  <2>1. PICK c \in Columns : c = row[x].parent /\ c \in lost /\ Live(c)
    BY <1>1, <1>3 DEF RowsFit, Fits, Reachable, Ids
  <2>2. row[c].parent \in lost /\ row[c].parent \in Boards
    BY <2>1 DEF Rooted, RowsFit, Fits, Live, Exists, Ids
  <2>3. Live(row[c].parent)
    BY <1>3, <2>1 DEF Reachable
  <2> QED BY <2>2, <2>3 DEF Rooted, Live
<1> QED BY <1>1, <1>2, <1>3 DEF Ids

\* What a query finds can be reached.
LEMMA FoundIsReachable ==
    ASSUME TypeOK, RowsFit, NEW u \in Users
    PROVE  /\ \A b \in Boards : OwnsBoard(u, b) => Reachable(b)
           /\ \A c \in Columns : OwnsColumn(u, c) => Reachable(c)
           /\ \A k \in Cards : OwnsCard(u, k) => Reachable(k)
BY DataAssumption DEF DataAssumption, OwnsBoard, OwnsColumn, OwnsCard, Reachable, RowsFit, Fits,
   Live, Exists, Ids

\* A request that is going to save a row was already, or has just found it.
LEMMA SavesWhatItFound ==
    ASSUME IInv, NEW s \in Requests, Continue(s) \/ \E u \in Users : Arrive(s, u),
           NEW r \in Requests, req'[r].pc \in {"preload", "dest", "load", "write"}
    PROVE  \/ /\ req[r].pc \in {"preload", "dest", "load", "write"}
              /\ req'[r].id = req[r].id
           \/ Reachable(req'[r].id)
<1>0. TypeOK /\ RowsFit /\ req \in [Requests -> Request]
  BY DEF IInv, TypeOK
<1>1. CASE r # s
  <2>1. req'[r] = req[r]
    BY <1>0, <1>1 DEF Continue, Place, Insert, MoveDest, Preload, SaveLoad, SaveWrite,
       RemoveFind, RemoveLoad, RemoveWrite, Abort, Finish, Goto, Arrive, ReadOrNotFound,
       vars, CreateBoard, UpdateBoard, RemoveBoard, CreateColumn, UpdateColumn, MoveColumn,
       RemoveColumn, CreateCard, UpdateCard, MoveCard, RemoveCard, Start
  <2> QED BY <2>1
<1>2. CASE r = s /\ Continue(s)
  <2>1. Idle.pc = "idle"
    BY DEF Idle
  <2>2. Finish(s) => req'[r].pc = "idle"
    BY <1>0, <1>2, <2>1 DEF Finish
  <2>3. ASSUME NEW pc, Goto(s, pc) PROVE req'[r].pc = pc /\ req'[r].id = req[r].id
    BY <1>0, <1>2, <2>3 DEF Goto, Request
  <2>4. CASE Place(s)
    BY <1>0, <1>2, <2>4 DEF Place, Request
  <2>5. CASE SaveLoad(s)
    BY <1>0, <1>2, <2>5 DEF SaveLoad, Request
  <2>6. CASE Preload(s)
    BY <1>0, <1>2, <2>2, <2>6 DEF Preload, Request
  <2>7. CASE MoveDest(s)
    BY <1>2, <2>2, <2>3, <2>7 DEF MoveDest
  <2>8. CASE Finish(s)
    BY <2>2, <2>8
  <2>9. CASE RemoveFind(s) \/ RemoveLoad(s)
    BY <1>2, <2>2, <2>3, <2>9 DEF RemoveFind, RemoveLoad
  <2> QED BY <1>2, <2>4, <2>5, <2>6, <2>7, <2>8, <2>9 DEF Continue, Insert, SaveWrite, RemoveWrite, Abort
<1>3. ASSUME NEW u \in Users, Arrive(r, u), req' # req PROVE Reachable(req'[r].id)
  <2>1. ASSUME NEW op, NEW pc, NEW id, NEW entity, NEW edges,
               Start(r, u, op, pc, id, entity, edges)
        PROVE  req'[r].pc = pc /\ req'[r].id = id
    BY <1>0, <2>1 DEF Start
  <2> QED BY <1>0, <1>3, <2>1, FoundIsReachable DEF Arrive, ReadOrNotFound, vars, CreateBoard,
       UpdateBoard, RemoveBoard, CreateColumn, UpdateColumn, MoveColumn, RemoveColumn,
       CreateCard, UpdateCard, MoveCard, RemoveCard
<1>4. CASE r = s /\ \E u \in Users : Arrive(s, u)
  BY <1>3, <1>4
<1> QED BY <1>1, <1>2, <1>4

\* A lost row stays where it hangs, and deleted if it is.
LEMMA LostStays ==
    ASSUME IInv, Rooted, Apart, NEW s \in Requests,
           Continue(s) \/ \E u \in Users : Arrive(s, u), NEW x \in lost
    PROVE  /\ Exists(x)'
           /\ row'[x].parent = row[x].parent
           /\ row[x].deleted => row'[x].deleted
<1>0. TypeOK /\ x \in Ids /\ Exists(x) /\ row[x] \in Row
  BY DEF IInv, Rooted, TypeOK, Exists
<1>1. CASE row'[x] = row[x]
  BY <1>0, <1>1 DEF Exists
<1>2. CASE RemoveWrite(s)
  <2>1. row'[x] \in {row[x], [row[x] EXCEPT !.deleted = TRUE]}
    BY <1>0, <1>2 DEF RemoveWrite
  <2>2. [row[x] EXCEPT !.deleted = TRUE] \in Row
    BY <1>0 DEF Row
  <2> QED BY <1>0, <2>1, <2>2, DataAssumption DEF DataAssumption, Row, Exists
<1>3. CASE Insert(s) \/ \E u \in Users : CreateBoard(s, u)
  BY <1>0, <1>1, <1>3 DEF Insert, CreateBoard, TypeOK, Exists
<1>4. CASE SaveWrite(s)
  <2>1. req[s].id # x
    BY <1>4 DEF SaveWrite, Apart
  <2> QED BY <1>0, <1>1, <1>4, <2>1 DEF SaveWrite, TypeOK
<1>5. CASE row' = row
  BY <1>1, <1>5
<1> QED BY <1>2, <1>3, <1>4, <1>5 DEF Continue, Place, MoveDest, Preload, SaveLoad, RemoveFind,
       RemoveLoad, Abort, Arrive, ReadOrNotFound, vars, UpdateBoard, RemoveBoard, CreateColumn,
       UpdateColumn, MoveColumn, RemoveColumn, CreateCard, UpdateCard, MoveCard, RemoveCard

\* HistoryInv is inductive.
LEMMA HistoryStep ==
    ASSUME HistoryInv, [HistoryNext]_<<vars, lost>>
    PROVE  HistoryInv'
<1> USE DataAssumption DEF DataAssumption
<1>1. CASE UNCHANGED <<vars, lost>>
  <2>1. IInv'
    BY <1>1, StepInvariant DEF HistoryInv
  <2> QED BY <1>1, <2>1 DEF HistoryInv, vars, Rooted, Apart, Exists
<1>2. CASE HistoryNext
  <2>1. PICK s \in Requests : Continue(s) \/ \E u \in Users : Arrive(s, u)
    BY <1>2 DEF HistoryNext, Next
  <2>2. IInv'
    BY <2>1, ContinueStep, ArriveStep DEF HistoryInv
  <2>3. TypeOK' /\ RowsFit' /\ \A r \in Requests : RequestOK(r)'
    BY <2>2 DEF IInv
  <2>4. lost' = lost \cup OutOfReach'
    BY <1>2 DEF HistoryNext
  <2>5. \A x \in OutOfReach' :
           x \in Ids /\ Exists(x)' /\ ~Reachable(x)'
           /\ \A r \in Requests : req'[r].user # Owner(x)'
    BY DEF OutOfReach
  <2>6. ASSUME NEW x \in lost'
        PROVE  /\ x \in Ids /\ Exists(x)'
               /\ row'[x].deleted \/ (x \notin Boards /\ row'[x].parent \in lost')
    <3>1. CASE x \in lost
      <4>1. /\ x \in Ids /\ Exists(x)
            /\ row[x].deleted \/ (x \notin Boards /\ row[x].parent \in lost)
        BY <3>1 DEF HistoryInv, Rooted
      <4>2. /\ Exists(x)' /\ row'[x].parent = row[x].parent
            /\ row[x].deleted => row'[x].deleted
        BY <2>1, <3>1, LostStays DEF HistoryInv
      <4> QED BY <2>4, <4>1, <4>2
    <3>2. CASE x \in OutOfReach'
      <4> SUFFICES ASSUME Live(x)'
                   PROVE  x \notin Boards /\ row'[x].parent \in OutOfReach'
        BY <2>4, <2>5, <3>2 DEF Live
      <4>1. PICK p : p = row'[x].parent
        OBVIOUS
      <4>2. x \notin Boards /\ x \in Ids /\ ~Reachable(x)' /\ Fits(x, p)'
        BY <2>3, <2>5, <3>2, <4>1 DEF Reachable, RowsFit, Ids
      <4>3. p \in Ids /\ p \notin Users /\ Exists(p)' /\ Owner(x)' = Owner(p)'
        BY <4>1, <4>2 DEF Fits, Owner, Ids
      <4>4. ~Reachable(p)'
        BY <4>1, <4>2 DEF Fits, Reachable, Ids
      <4> QED BY <2>5, <3>2, <4>1, <4>2, <4>3, <4>4 DEF OutOfReach
    <3> QED BY <2>4, <3>1, <3>2
  <2>7. Rooted'
    BY <2>6 DEF Rooted, Exists
  <2>8. ASSUME NEW r \in Requests, req'[r].pc \in {"preload", "dest", "load", "write"},
               req'[r].id \in lost'
        PROVE  FALSE
    <3>1. CASE req'[r].id \in lost
      <4>1. GoneForGood
        BY RootedIsGone DEF HistoryInv, IInv
      <4>2. \/ req[r].id \in lost /\ req[r].pc \in {"preload", "dest", "load", "write"}
            \/ Reachable(req'[r].id)
        BY <2>1, <2>8, <3>1, SavesWhatItFound DEF HistoryInv
      <4> QED BY <3>1, <4>1, <4>2 DEF HistoryInv, Apart, GoneForGood
    <3>2. CASE req'[r].id \in OutOfReach'
      BY <2>3, <2>5, <2>8, <3>2 DEF RequestOK, Holds
    <3> QED BY <2>4, <2>8, <3>1, <3>2
  <2>9. Apart'
    BY <2>8 DEF Apart
  <2> QED BY <2>2, <2>7, <2>9 DEF HistoryInv
<1> QED BY <1>1, <1>2

\* However many requests a user has in flight later: a row he could not reach when
\* he had none, because it or something above it is deleted, stays out of reach.
THEOREM GoneIsForGood == HistorySpec => []GoneForGood
<1>1. HistoryInit => HistoryInv
  BY InitInvariant DEF HistoryInit, HistoryInv, OutOfReach, Init, RowInit, Rooted, Apart, Exists, Idle
<1>2. HistoryInv => GoneForGood
  BY RootedIsGone DEF HistoryInv, IInv
<1> QED BY <1>1, <1>2, HistoryStep, PTL DEF HistorySpec
=============================================================================
