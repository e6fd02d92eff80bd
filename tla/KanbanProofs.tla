---------------------------- MODULE KanbanProofs ----------------------------
(***************************************************************************)
(* For every number of users, rows, positions and requests in flight:      *)
(* type correctness, and that boards are owner-private.  The argument is   *)
(* that what a request checked of a row's owner when it read the row is    *)
(* still true when it writes it, because no write changes an owner.        *)
(***************************************************************************)
EXTENDS Kanban, TLAPS

\* p can be the parent of x: a user of a board, a board of a column, a column
\* of a card (the foreign keys).
Fits(x, p) ==
    \/ x \in Boards /\ p \in Users
    \/ x \in Columns /\ p \in Boards /\ Exists(p)
    \/ x \in Cards /\ p \in Columns /\ Exists(p)

RowsFit == \A x \in Ids : Exists(x) => Fits(x, row[x].parent)

\* What request r holds is the user's own.
Holds(r, x) == x \in Ids /\ Exists(x) /\ Owner(x) = req[r].user

RequestOK(r) ==
    LET q == req[r] IN
    /\ q.pc \in {"preload", "dest", "load", "write", "refind", "reload", "remove"}
          => Holds(r, q.id)
    /\ \A e \in q.edges : Holds(r, e[1])
    /\ q.pc \in {"dest", "load", "write", "insert"} => q.entity \in Row
    /\ q.pc = "dest" => q.id \in Cards /\ q.entity.parent \in Columns /\ q.user \in Users
    /\ q.pc \in {"load", "write"} => /\ Fits(q.id, q.entity.parent)
                                     /\ Owner(q.entity.parent) = q.user
    /\ q.pc \in {"place", "insert"} => /\ q.entity \in Entity
                                       /\ q.entity.parent \in Boards \cup Columns
                                       /\ Holds(r, q.entity.parent)

IInv == TypeOK /\ RowsFit /\ \A r \in Requests : RequestOK(r)

\* Every row stays, with the owner it has.
Stable == \A x \in Ids : Exists(x) => Exists(x)' /\ Owner(x)' = Owner(x)

-----------------------------------------------------------------------------

\* A step that keeps every row's parent, or gives it a parent of the same owner
\* and the right kind, changes no owner.
LEMMA OwnerStable ==
    ASSUME TypeOK, RowsFit,
           \A x \in Ids : Exists(x) =>
              /\ Exists(x)'
              /\ Fits(x, row'[x].parent)
              /\ Owner(row'[x].parent) = Owner(x)
    PROVE  Stable
<1> USE DataAssumption DEF DataAssumption, Ids, Exists
<1>1. \A b \in Boards : Exists(b) => Exists(b)' /\ Owner(b)' = Owner(b)
  BY DEF Fits, Owner
<1>2. \A c \in Columns : Exists(c) => Exists(c)' /\ Owner(c)' = Owner(c)
  <2> TAKE c \in Columns
  <2> HAVE Exists(c)
  <2>1. PICK b \in Boards : /\ Exists(b) /\ row'[c].parent = b
                        /\ Owner(b) = Owner(c)
    BY DEF Fits
  <2>2. Owner(c)' = Owner(b)'
    BY <2>1 DEF Owner
  <2> QED BY <1>1, <2>1, <2>2
<1>3. \A k \in Cards : Exists(k) => Exists(k)' /\ Owner(k)' = Owner(k)
  <2> TAKE k \in Cards
  <2> HAVE Exists(k)
  <2>1. PICK c \in Columns : /\ Exists(c) /\ row'[k].parent = c
                        /\ Owner(c) = Owner(k)
    BY DEF Fits
  <2>2. Owner(k)' = Owner(c)'
    BY <2>1 DEF Owner
  <2> QED BY <1>2, <2>1, <2>2
<1> QED BY <1>1, <1>2, <1>3 DEF Stable

\* A request that is not at work keeps what it holds.
LEMMA RequestStable ==
    ASSUME TypeOK, TypeOK', Stable, NEW r \in Requests, RequestOK(r), req'[r] = req[r]
    PROVE  RequestOK(r)'
<1> DEFINE q == req[r]
<1>1. \A x : Holds(r, x) => Holds(r, x)'
  BY DEF Stable, Holds
<1>2. \A x, p : x \in Ids /\ Fits(x, p) => Fits(x, p)'
  BY DEF Stable, Fits, Ids
<1>3. \A p : p \in Users \/ (p \in Ids /\ Exists(p)) => Owner(p)' = Owner(p)
  BY DEF Stable, Owner
<1>4. ASSUME q.pc \in {"load", "write"}
      PROVE  Fits(q.id, q.entity.parent)' /\ (Owner(q.entity.parent) = q.user)'
  BY <1>2, <1>3, <1>4 DEF RequestOK, Holds, Fits, Ids
<1> QED BY <1>1, <1>4 DEF RequestOK

\* A step of request r that leaves the rows alone.
LEMMA ReadStep ==
    ASSUME IInv, NEW r \in Requests, NEW q, req' = [req EXCEPT ![r] = q],
           q \in Request, row' = row, RequestOK(r)'
    PROVE  IInv' /\ PrivateStep
<1>1. TypeOK'
  BY DEF IInv, TypeOK
<1>2. Stable /\ RowsFit' /\ PrivateStep
  BY DEF IInv, Stable, RowsFit, PrivateStep, Owner, Exists, Fits
<1>3. \A o \in Requests \ {r} : req'[o] = req[o]
  BY DEF IInv, TypeOK
<1>4. \A o \in Requests : RequestOK(o)'
  BY <1>1, <1>2, <1>3, RequestStable DEF IInv
<1> QED BY <1>1, <1>2, <1>4 DEF IInv

\* An idle request holds nothing.
LEMMA IdleRequest ==
    ASSUME TypeOK, NEW r \in Requests, req' = [req EXCEPT ![r] = Idle]
    PROVE  Idle \in Request /\ req'[r] = Idle /\ RequestOK(r)'
<1>1. Idle \in Request
  BY DEF Idle, Request
<1>2. req'[r] = Idle
  BY DEF TypeOK
<1> QED BY <1>1, <1>2 DEF RequestOK, Idle

\* A step that ends request r and writes rows of its user: the rows it touches
\* stay the user's.
LEMMA WriteStep ==
    ASSUME IInv, NEW r \in Requests, req' = [req EXCEPT ![r] = Idle], req[r] # Idle,
           row' \in [Ids -> Row \cup {None}], RowsFit', Stable,
           \A x \in Ids : row'[x] # row[x] => Owner(x)' = req[r].user
    PROVE  IInv' /\ PrivateStep
<1>1. TypeOK' /\ req'[r] = Idle /\ RequestOK(r)'
  BY IdleRequest DEF IInv, TypeOK
<1>2. PrivateStep
  BY <1>1 DEF PrivateStep, Stable
<1>3. \A o \in Requests \ {r} : req'[o] = req[o]
  BY DEF IInv, TypeOK
<1>4. \A o \in Requests : RequestOK(o)'
  BY <1>1, <1>3, RequestStable DEF IInv
<1> QED BY <1>1, <1>2, <1>4 DEF IInv

-----------------------------------------------------------------------------
(* The queries *)

\* A row a query finds for u is a row u owns.
LEMMA Found ==
    ASSUME TypeOK, RowsFit, NEW u \in Users
    PROVE  /\ \A b \in Boards : OwnsBoard(u, b) => Exists(b) /\ Owner(b) = u
           /\ \A c \in Columns : OwnsColumn(u, c) => Exists(c) /\ Owner(c) = u
           /\ \A k \in Cards : OwnsCard(u, k) => Exists(k) /\ Owner(k) = u
BY DataAssumption DEF DataAssumption, Ids, RowsFit, Fits, OwnsBoard, OwnsColumn,
   OwnsCard, Live, Exists, Owner

\* What hangs below a row has its owner.
LEMMA BelowOwned ==
    ASSUME TypeOK, RowsFit, NEW x \in Ids, Exists(x)
    PROVE  /\ Edges(x) \in SUBSET (Ids \X Ids)
           /\ \A e \in Edges(x) : e[1] \in Ids /\ Exists(e[1]) /\ Owner(e[1]) = Owner(x)
<1>1. \A z \in Ids : Exists(z) => \A y \in Children(z) :
         /\ y \in Ids /\ Exists(y) /\ Owner(y) = Owner(z)
         /\ row[y].parent = z
  BY DataAssumption DEF DataAssumption, Ids, RowsFit, Fits, Children, Live, Exists, Owner
<1>2. \A y \in Below(x) : /\ y \in Ids /\ Exists(y) /\ Owner(y) = Owner(x)
                          /\ row[y].parent \in Ids
  BY <1>1 DEF Below
<1> QED BY <1>2 DEF Edges

-----------------------------------------------------------------------------
(* The steps *)

LEMMA ArriveStep ==
    ASSUME IInv, NEW r \in Requests, NEW u \in Users, Arrive(r, u)
    PROVE  IInv' /\ PrivateStep
<1> USE DataAssumption DEF DataAssumption
<1>0. TypeOK /\ RowsFit
  BY DEF IInv
<1>1. CASE ReadOrNotFound(r, u)
  <2>1. RequestOK(r)'
    BY <1>0, <1>1, RequestStable DEF ReadOrNotFound, vars, IInv, Stable, TypeOK, Exists, Owner
  <2>2. req' = [req EXCEPT ![r] = req[r]] /\ req[r] \in Request /\ row' = row
    BY <1>0, <1>1 DEF ReadOrNotFound, vars, TypeOK
  <2> QED BY <2>1, <2>2, ReadStep
<1>2. CASE CreateBoard(r, u)
  <2>1. PICK b \in Boards : ~Exists(b) /\ row' = [row EXCEPT ![b] = NewRow(u, 0)]
    BY <1>2 DEF CreateBoard
  <2>2. TypeOK' /\ req' = req
    BY <1>0, <1>2, <2>1 DEF CreateBoard, TypeOK, NewRow, Row, Ids
  <2>3. \A x \in Ids : Exists(x) => row'[x] = row[x]
    BY <1>0, <2>1 DEF TypeOK, Ids
  <2>4. Stable
    BY <1>0, <2>3 DEF Stable, RowsFit, Fits, Owner, Exists, Ids
  <2>5. RowsFit'
    BY <1>0, <2>1, <2>2, <2>3 DEF RowsFit, Fits, Exists, NewRow, TypeOK, Ids
  <2>6. \A o \in Requests : RequestOK(o)'
    BY <1>0, <2>2, <2>4, RequestStable DEF IInv
  <2>7. PrivateStep
    BY <1>0, <2>1, <2>3, <2>4 DEF PrivateStep, Stable, TypeOK, Ids
  <2> QED BY <2>2, <2>5, <2>6, <2>7 DEF IInv
\* Every other request starts with what its first SELECT found.
<1>3. ASSUME NEW op, NEW pc, NEW id, NEW entity, NEW edges,
             Start(r, u, op, pc, id, entity, edges), row' = row,
             [op |-> op, pc |-> pc, user |-> u, id |-> id, entity |-> entity,
              edges |-> edges, diff |-> {}] \in Request,
             pc \in {"preload", "dest", "load", "reload", "refind"} =>
                Exists(id) /\ id \in Ids /\ Owner(id) = u,
             \A e \in edges : e[1] \in Ids /\ Exists(e[1]) /\ Owner(e[1]) = u,
             pc \in {"dest", "load", "insert"} => entity \in Row,
             pc = "dest" => id \in Cards /\ entity.parent \in Columns,
             pc = "load" => Fits(id, entity.parent) /\ Owner(entity.parent) = u,
             pc \in {"place", "insert"} =>
                /\ entity \in Entity /\ entity.parent \in Boards \cup Columns
                /\ Exists(entity.parent) /\ Owner(entity.parent) = u,
             pc \notin {"write", "remove"}
      PROVE  IInv' /\ PrivateStep
  <2> DEFINE q == [op |-> op, pc |-> pc, user |-> u, id |-> id, entity |-> entity,
                   edges |-> edges, diff |-> {}]
  <2>1. req' = [req EXCEPT ![r] = q] /\ q \in Request
    BY <1>3 DEF Start
  <2>2. req'[r] = q
    BY <1>0, <2>1 DEF TypeOK
  <2>3. \A x : Exists(x)' = Exists(x) /\ Owner(x)' = Owner(x)
    BY <1>3 DEF Exists, Owner
  <2>4. RequestOK(r)'
    BY <1>3, <2>2, <2>3 DEF RequestOK, Holds, Fits, Ids
  <2> QED BY <1>3, <2>1, <2>4, ReadStep
<1>4. ASSUME NEW b \in Boards, UpdateBoard(r, u, b) PROVE IInv' /\ PrivateStep
  BY <1>0, <1>3, <1>4, Found DEF UpdateBoard, Request, Ids
<1>5. ASSUME NEW b \in Boards, RemoveBoard(r, u, b) PROVE IInv' /\ PrivateStep
  <2>1. Exists(b) /\ Owner(b) = u /\ b \in Ids
    BY <1>0, <1>5, Found DEF RemoveBoard, Ids
  <2>2. /\ Edges(b) \in SUBSET (Ids \X Ids)
        /\ \A e \in Edges(b) : e[1] \in Ids /\ Exists(e[1]) /\ Owner(e[1]) = u
    BY <1>0, <2>1, BelowOwned
  <2> QED BY <1>3, <1>5, <2>1, <2>2 DEF RemoveBoard, Request
<1>6. ASSUME NEW b \in Boards, NEW p \in Positions \cup {None}, CreateColumn(r, u, b, p)
      PROVE  IInv' /\ PrivateStep
  <2>1. Exists(b) /\ Owner(b) = u /\ b \in Ids
    BY <1>0, <1>6, Found DEF CreateColumn, Ids
  <2>2. CASE p = None
    <3>1. NewRow(b, None) \in Entity /\ NewRow(b, None).parent = b
      BY DEF NewRow, Entity
    <3> QED BY <1>3, <1>6, <2>1, <2>2, <3>1 DEF CreateColumn, Request
  <2>3. CASE p # None
    <3>1. /\ NewRow(b, p) \in Entity /\ NewRow(b, p) \in Row
          /\ NewRow(b, p).parent = b
      BY <2>3 DEF NewRow, Entity, Row
    <3> QED BY <1>3, <1>6, <2>1, <2>3, <3>1 DEF CreateColumn, Request
  <2> QED BY <2>2, <2>3
<1>7. ASSUME NEW c \in Columns, UpdateColumn(r, u, c) PROVE IInv' /\ PrivateStep
  BY <1>0, <1>3, <1>7, Found DEF UpdateColumn, Request, Ids
<1>8. ASSUME NEW c \in Columns, NEW p \in Positions, MoveColumn(r, u, c, p)
      PROVE  IInv' /\ PrivateStep
  <2> DEFINE e == [row[c] EXCEPT !.pos = p]
  <2>1. Exists(c) /\ Owner(c) = u /\ c \in Ids /\ row[c] \in Row
    BY <1>0, <1>8, Found DEF MoveColumn, Ids, TypeOK, Exists
  <2>2. e \in Row /\ e.parent = row[c].parent
    BY <2>1 DEF Row
  <2>3. Fits(c, e.parent) /\ Owner(e.parent) = u
    BY <1>0, <2>1, <2>2 DEF RowsFit, Fits, Owner, Ids
  <2> QED BY <1>3, <1>8, <2>1, <2>2, <2>3 DEF MoveColumn, Request, Entity, Row
<1>9. ASSUME NEW c \in Columns, RemoveColumn(r, u, c) PROVE IInv' /\ PrivateStep
  <2>1. Exists(c) /\ Owner(c) = u /\ c \in Ids
    BY <1>0, <1>9, Found DEF RemoveColumn, Ids
  <2>2. /\ Edges(c) \in SUBSET (Ids \X Ids)
        /\ \A e \in Edges(c) : e[1] \in Ids /\ Exists(e[1]) /\ Owner(e[1]) = u
    BY <1>0, <2>1, BelowOwned
  <2> QED BY <1>3, <1>9, <2>1, <2>2 DEF RemoveColumn, Request
<1>10. ASSUME NEW c \in Columns, NEW p \in Positions \cup {None}, CreateCard(r, u, c, p)
       PROVE  IInv' /\ PrivateStep
  <2>1. Exists(c) /\ Owner(c) = u /\ c \in Ids
    BY <1>0, <1>10, Found DEF CreateCard, Ids
  <2>2. CASE p = None
    <3>1. NewRow(c, None) \in Entity /\ NewRow(c, None).parent = c
      BY DEF NewRow, Entity
    <3> QED BY <1>3, <1>10, <2>1, <2>2, <3>1 DEF CreateCard, Request
  <2>3. CASE p # None
    <3>1. /\ NewRow(c, p) \in Entity /\ NewRow(c, p) \in Row
          /\ NewRow(c, p).parent = c
      BY <2>3 DEF NewRow, Entity, Row
    <3> QED BY <1>3, <1>10, <2>1, <2>3, <3>1 DEF CreateCard, Request
  <2> QED BY <2>2, <2>3
<1>11. ASSUME NEW k \in Cards, UpdateCard(r, u, k) PROVE IInv' /\ PrivateStep
  BY <1>0, <1>3, <1>11, Found DEF UpdateCard, Request, Ids
<1>12. ASSUME NEW k \in Cards, NEW c \in Columns, NEW p \in Positions,
              MoveCard(r, u, k, c, p)
       PROVE  IInv' /\ PrivateStep
  <2>1. Exists(k) /\ Owner(k) = u /\ k \in Ids
    BY <1>0, <1>12, Found DEF MoveCard, Ids
  <2>2. NewRow(c, p) \in Entity /\ NewRow(c, p) \in Row /\ NewRow(c, p).parent = c
    BY DEF NewRow, Entity, Row
  <2> QED BY <1>3, <1>12, <2>1, <2>2 DEF MoveCard, Request
<1>13. ASSUME NEW k \in Cards, RemoveCard(r, u, k) PROVE IInv' /\ PrivateStep
  BY <1>0, <1>3, <1>13, Found DEF RemoveCard, Request, Ids
<1> QED BY <1>1, <1>2, <1>4, <1>5, <1>6, <1>7, <1>8, <1>9, <1>10, <1>11, <1>12, <1>13
        DEF Arrive

LEMMA ContinueStep ==
    ASSUME IInv, NEW r \in Requests, Continue(r)
    PROVE  IInv' /\ PrivateStep
<1> USE DataAssumption DEF DataAssumption
<1> DEFINE q == req[r]
<1>0. TypeOK /\ RowsFit /\ RequestOK(r) /\ q \in Request
  BY DEF IInv, TypeOK
\* A step to another pc, or the end of the request, with the rows left alone.
<1>1. ASSUME Finish(r), row' = row PROVE IInv' /\ PrivateStep
  BY <1>0, <1>1, IdleRequest, ReadStep DEF Finish
<1>2. ASSUME NEW pc, Goto(r, pc), row' = row, [q EXCEPT !.pc = pc] \in Request,
             pc = "load" => q.pc = "dest" /\ Fits(q.id, q.entity.parent)
                                         /\ Owner(q.entity.parent) = q.user,
             pc = "remove" => q.pc \in {"refind", "reload"},
             pc \in {"load", "remove"}
      PROVE  IInv' /\ PrivateStep
  <2>1. req' = [req EXCEPT ![r] = [q EXCEPT !.pc = pc]]
    BY <1>2 DEF Goto
  <2>2. req'[r] = [q EXCEPT !.pc = pc]
    BY <1>0, <2>1 DEF TypeOK
  <2>3. \A x : Exists(x)' = Exists(x) /\ Owner(x)' = Owner(x)
    BY <1>2 DEF Exists, Owner
  <2>4. RequestOK(r)'
    BY <1>0, <1>2, <2>2, <2>3 DEF RequestOK, Holds, Fits, Request
  <2> QED BY <1>2, <2>1, <2>4, ReadStep
<1>3. CASE Abort(r)
  BY <1>1, <1>3 DEF Abort
<1>4. CASE MoveDest(r)
  <2>1. CASE ~OwnsColumn(q.user, q.entity.parent)
    BY <1>1, <1>4, <2>1 DEF MoveDest
  <2>2. CASE OwnsColumn(q.user, q.entity.parent)
    <3>1. /\ q.pc = "dest" /\ q.id \in Cards /\ q.entity.parent \in Columns
          /\ q.user \in Users
      BY <1>0, <1>4 DEF MoveDest, RequestOK
    <3>2. Fits(q.id, q.entity.parent) /\ Owner(q.entity.parent) = q.user
      BY <1>0, <2>2, <3>1, Found DEF Fits
    <3>3. [q EXCEPT !.pc = "load"] \in Request
      BY <1>0 DEF Request
    <3> QED BY <1>2, <1>4, <2>2, <3>1, <3>2, <3>3 DEF MoveDest
  <2> QED BY <2>1, <2>2
<1>5. CASE RemoveFind(r)
  <2>1. [q EXCEPT !.pc = "remove"] \in Request
    BY <1>0 DEF Request
  <2> QED BY <1>1, <1>2, <1>5, <2>1 DEF RemoveFind
<1>6. CASE RemoveLoad(r)
  <2>1. [q EXCEPT !.pc = "remove"] \in Request
    BY <1>0 DEF Request
  <2>2. q.pc = "reload" /\ (Goto(r, "remove") \/ Finish(r)) /\ row' = row
    BY <1>6 DEF RemoveLoad
  <2> QED BY <1>1, <1>2, <2>1, <2>2
<1>7. CASE Preload(r)
  <2>1. CASE ~Live(q.id)
    BY <1>1, <1>7, <2>1 DEF Preload
  <2>2. CASE Live(q.id)
    <3> DEFINE e == row[q.id]
               q2 == [q EXCEPT !.pc = "load", !.entity = e]
    <3>1. q.id \in Ids /\ Exists(q.id) /\ Owner(q.id) = q.user /\ e \in Row
      BY <1>0, <1>7 DEF Preload, RequestOK, Holds, TypeOK, Exists
    <3>2. e \in Entity
      BY <3>1 DEF Row, Entity
    <3>a. req' = [req EXCEPT ![r].pc = "load", ![r].entity = e] /\ row' = row
      BY <1>7, <2>2 DEF Preload
    <3>b. q2 \in Request
      BY <1>0, <3>2 DEF Request
    <3>3. q2 \in Request /\ req' = [req EXCEPT ![r] = q2] /\ row' = row
      BY <1>0, <3>a, <3>b DEF TypeOK, Request
    <3>4. req'[r] = q2
      BY <1>0, <3>3 DEF TypeOK
    <3>5. Fits(q.id, e.parent) /\ Owner(e.parent) = q.user
      BY <1>0, <3>1 DEF RowsFit, Fits, Owner, Ids
    <3>6. \A x : Exists(x)' = Exists(x) /\ Owner(x)' = Owner(x)
      BY <3>3 DEF Exists, Owner
    <3>7. RequestOK(r)'
      BY <1>0, <3>1, <3>3, <3>4, <3>5, <3>6 DEF RequestOK, Holds, Fits, Request
    <3> QED BY <3>3, <3>7, ReadStep
  <2> QED BY <2>1, <2>2
<1>8. CASE SaveLoad(r)
  <2> DEFINE d == {f \in Fields : q.entity[f] # row[q.id][f]}
             q2 == [q EXCEPT !.pc = "write", !.diff = d]
  <2>a. q.pc = "load" /\ req' = [req EXCEPT ![r].pc = "write", ![r].diff = d] /\ row' = row
    BY <1>8 DEF SaveLoad
  <2>b. d \in SUBSET Fields
    OBVIOUS
  <2>c. q2 \in Request
    BY <1>0, <2>b DEF Request
  <2>1. q2 \in Request /\ req' = [req EXCEPT ![r] = q2] /\ row' = row
    BY <1>0, <2>a, <2>c DEF TypeOK, Request
  <2>2. req'[r] = q2
    BY <1>0, <2>1 DEF TypeOK
  <2>3. \A x : Exists(x)' = Exists(x) /\ Owner(x)' = Owner(x)
    BY <2>1 DEF Exists, Owner
  <2>4. RequestOK(r)'
    BY <1>0, <1>8, <2>1, <2>2, <2>3 DEF SaveLoad, RequestOK, Holds, Fits, Request
  <2> QED BY <2>1, <2>4, ReadStep
<1>9. CASE Place(r)
  <2>1. PICK p \in NextPositions(q.entity.parent) :
          req' = [req EXCEPT ![r].pc = "insert", ![r].entity.pos = p]
    BY <1>9 DEF Place
  <2> DEFINE q2 == [q EXCEPT !.pc = "insert", !.entity.pos = p]
  <2>2. p \in Nat
    BY <1>0, <2>1 DEF NextPositions, Last, Children, Live, Exists, TypeOK, Row
  <2>3. q.pc = "place" /\ q.entity \in Entity /\ row' = row
    BY <1>0, <1>9 DEF Place, RequestOK
  <2>4. q2.entity \in Row /\ q2.entity \in Entity /\ q2.entity.parent = q.entity.parent
    BY <1>0, <2>2, <2>3 DEF Row, Entity, Request
  <2>5. q2 \in Request /\ req' = [req EXCEPT ![r] = q2]
    BY <1>0, <2>1, <2>4 DEF Request
  <2>6. req'[r] = q2
    BY <1>0, <2>5 DEF TypeOK
  <2>7. \A x : Exists(x)' = Exists(x) /\ Owner(x)' = Owner(x)
    BY <2>3 DEF Exists, Owner
  <2>8. RequestOK(r)'
    BY <1>0, <2>3, <2>4, <2>6, <2>7 DEF RequestOK, Holds, Fits, Request
  <2> QED BY <2>3, <2>5, <2>8, ReadStep
<1>10. CASE Insert(r)
  <2>1. PICK e \in Row, p \in Boards \cup Columns, u \in {q.user} :
           /\ e = q.entity /\ p = e.parent
           /\ Exists(p) /\ Owner(p) = u /\ q # Idle
    BY <1>0, <1>10 DEF Insert, RequestOK, Holds, Idle
  <2>2. PICK x \in IF p \in Boards THEN Columns ELSE Cards :
           ~Exists(x) /\ row' = [row EXCEPT ![x] = e]
    BY <1>10, <2>1 DEF Insert
  <2>3. /\ x \in Ids /\ row' \in [Ids -> Row \cup {None}]
        /\ \A y \in Ids : Exists(y) => row'[y] = row[y]
        /\ \A y \in Ids \ {x} : row'[y] = row[y]
        /\ row'[x] = e
    BY <1>0, <2>1, <2>2 DEF TypeOK, Ids
  <2>4. Stable
    BY <1>0, <2>3 DEF Stable, RowsFit, Fits, Owner, Exists, Ids
  <2>5. Exists(p)' /\ Owner(p)' = u
    BY <2>1, <2>4 DEF Stable, Ids
  <2>6. Fits(x, p)'
    BY <2>1, <2>2, <2>5 DEF Fits
  <2>7. \A y \in Ids : \A z : Exists(y) /\ Fits(y, z) => Fits(y, z)'
    BY <2>4 DEF Fits, Stable, Ids
  <2>8. RowsFit'
    BY <1>0, <2>1, <2>3, <2>6, <2>7 DEF RowsFit, Exists
  <2>9. Owner(x)' = u
    BY <2>1, <2>2, <2>3, <2>5 DEF Owner, Ids
  <2>10. \A y \in Ids : row'[y] # row[y] => Owner(y)' = u
    BY <2>3, <2>9
  <2> QED BY <1>10, <2>1, <2>3, <2>4, <2>8, <2>10, WriteStep DEF Insert, Finish
<1>11. CASE SaveWrite(r)
  <2> DEFINE y == q.id
             v == [f \in Fields |-> IF f \in q.diff THEN q.entity[f] ELSE row[y][f]]
  <2>1. /\ Holds(r, y) /\ q.entity \in Row /\ Fits(y, q.entity.parent)
        /\ Owner(q.entity.parent) = q.user /\ row[y] \in Row /\ q # Idle
    BY <1>0, <1>11 DEF SaveWrite, RequestOK, Holds, Idle, TypeOK, Exists
  <2>2. row' = [row EXCEPT ![y] = v] /\ Finish(r)
    BY <1>11 DEF SaveWrite
  <2>3. v \in Row /\ v.parent \in {q.entity.parent, row[y].parent}
    BY <2>1 DEF Row, Fields
  <2>4. Fits(y, v.parent) /\ Owner(v.parent) = q.user
    BY <1>0, <2>1, <2>3 DEF RowsFit, Fits, Holds, Owner, Ids
  <2>5. /\ row' \in [Ids -> Row \cup {None}]
        /\ row'[y] = v
        /\ \A x \in Ids \ {y} : row'[x] = row[x]
    BY <1>0, <2>1, <2>2, <2>3 DEF TypeOK, Holds
  <2>6. \A x \in Ids : Exists(x) => /\ Exists(x)'
                                    /\ Fits(x, row'[x].parent)
                                    /\ Owner(row'[x].parent) = Owner(x)
    <3> TAKE x \in Ids
    <3> HAVE Exists(x)
    <3>1. CASE x = y
      BY <2>1, <2>3, <2>4, <2>5, <3>1 DEF Holds, Exists
    <3>2. CASE x # y
      BY <1>0, <2>5, <3>2 DEF RowsFit, Fits, Owner, Exists, Ids
    <3> QED BY <3>1, <3>2
  <2>7. Stable
    BY <1>0, <2>6, OwnerStable
  <2>8. RowsFit'
    BY <2>1, <2>5, <2>6, <2>7 DEF RowsFit, Fits, Stable, Holds, Exists, Ids
  <2>9. \A x \in Ids : row'[x] # row[x] => Owner(x)' = q.user
    BY <2>1, <2>5, <2>7 DEF Stable, Holds
  <2> QED BY <2>1, <2>2, <2>5, <2>7, <2>8, <2>9, WriteStep DEF Finish
<1>12. CASE RemoveWrite(r)
  <2> DEFINE held == {q.id} \cup {e[1] : e \in q.edges}
  <2>1. \A x \in held : Holds(r, x)
    BY <1>0, <1>12 DEF RemoveWrite, RequestOK
  <2>2. /\ row' = [x \in Ids |-> IF x \in held THEN [row[x] EXCEPT !.deleted = TRUE]
                                 ELSE row[x]]
        /\ Finish(r) /\ q # Idle
    BY <1>12 DEF RemoveWrite, Idle
  <2>3. \A x \in held : row[x] \in Row /\ row'[x] \in Row /\ row'[x].parent = row[x].parent
    BY <1>0, <2>1, <2>2 DEF TypeOK, Holds, Exists, Row
  <2>4. \A x \in Ids \ held : row'[x] = row[x]
    BY <2>2
  <2>5. row' \in [Ids -> Row \cup {None}]
    BY <1>0, <2>2, <2>3, <2>4 DEF TypeOK
  <2>6. \A x \in Ids : Exists(x) => Exists(x)' /\ row'[x].parent = row[x].parent
    BY <2>3, <2>4 DEF Exists
  <2>7. \A x \in Ids : Exists(x)' => Exists(x)
    BY <2>1, <2>4 DEF Exists, Holds
  <2>8. Stable
    BY <1>0, <2>6 DEF Stable, RowsFit, Fits, Owner, Ids
  <2>9. RowsFit'
    BY <1>0, <2>6, <2>7 DEF RowsFit, Fits, Ids
  <2>10. \A x \in Ids : row'[x] # row[x] => Owner(x)' = q.user
    BY <2>1, <2>4, <2>8 DEF Stable, Holds
  <2> QED BY <2>2, <2>5, <2>8, <2>9, <2>10, WriteStep DEF Finish
<1> QED BY <1>3, <1>4, <1>5, <1>6, <1>7, <1>8, <1>9, <1>10, <1>11, <1>12 DEF Continue

-----------------------------------------------------------------------------

LEMMA InitInvariant == Init => IInv
<1> SUFFICES ASSUME Init PROVE IInv
  OBVIOUS
<1>1. \A r \in Requests : req[r] = Idle
  BY DEF Init
<1>2. TypeOK /\ RowsFit
  BY DEF Init, RowInit, TypeOK, RowsFit, Exists, Idle, Request
<1>3. \A r \in Requests : RequestOK(r)
  BY <1>1 DEF RequestOK, Idle
<1> QED BY <1>2, <1>3 DEF IInv

LEMMA StepInvariant == IInv /\ [Next]_vars => IInv' /\ [PrivateStep]_vars
<1> SUFFICES ASSUME IInv, [Next]_vars PROVE IInv' /\ [PrivateStep]_vars
  OBVIOUS
<1>1. CASE Next
  BY <1>1, ContinueStep, ArriveStep DEF Next
<1>2. CASE UNCHANGED vars
  <2>1. row' = row /\ req' = req
    BY <1>2 DEF vars
  <2>2. TypeOK' /\ RowsFit' /\ Stable
    BY <2>1 DEF IInv, TypeOK, RowsFit, Fits, Stable, Exists, Owner
  <2>3. \A r \in Requests : RequestOK(r)'
    BY <2>1, <2>2, RequestStable DEF IInv
  <2> QED BY <1>2, <2>2, <2>3 DEF IInv
<1> QED BY <1>1, <1>2

\* Every handler keeps the rows and the requests in flight well-typed: a row is
\* never inserted without a position, and a save never writes an undefined one.
THEOREM TypeCorrect == Spec => []TypeOK
<1>1. IInv => TypeOK
  BY DEF IInv
<1> QED BY <1>1, InitInvariant, StepInvariant, PTL DEF Spec

\* Boards are owner-private: whatever requests overlap, no step changes the owner
\* of a row, and only the end of its owner's request changes it.
THEOREM OwnersArePrivate == Spec => OwnerPrivate
<1> QED BY InitInvariant, StepInvariant, PTL DEF Spec, OwnerPrivate
=============================================================================
