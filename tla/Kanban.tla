------------------------------- MODULE Kanban -------------------------------
(***************************************************************************)
(* The Kanban backend: boards, columns and cards in PostgreSQL, and the    *)
(* requests of the boards, columns and cards services that read and write  *)
(* them.                                                                   *)
(*                                                                         *)
(* One action is what a handler does between two awaits: at most one       *)
(* SELECT, or one transaction.  A request is a record that holds what the  *)
(* handler has in memory, so another request may run between any two of    *)
(* its steps.  The arrival of a request and its first SELECT are one       *)
(* action, since nothing is read before it; a request that this SELECT     *)
(* rejects (404) changes nothing and is not a step.                        *)
(*                                                                         *)
(* What TypeORM does inside preload, save and softRemove is modelled as    *)
(* the services use it.                                                    *)
(***************************************************************************)
EXTENDS KanbanData, FiniteSets

CONSTANTS
    Requests,     \* slots for requests in flight
    MaxPerUser    \* bound: requests one user has in flight at once

ASSUME SlotsAssumption == IsFiniteSet(Requests) /\ MaxPerUser \in Nat

VARIABLE req    \* what each request in flight has in memory

vars == <<row, req>>

Atomic == INSTANCE KanbanAtomic

-----------------------------------------------------------------------------
(* Requests *)

Fields == {"parent", "pos", "deleted"}

\* The entity a handler holds: a row, except that a create may not know its
\* position yet.
Entity == [parent : Users \cup Boards \cup Columns,
           pos : Nat \cup {None}, deleted : BOOLEAN]

Idle == [op |-> "none", pc |-> "idle", user |-> None, id |-> None,
         entity |-> None, edges |-> {}, diff |-> {}]

Request ==
    [op : {"none", "create", "append", "update", "move", "remove"},
     pc : {"idle",      \* the slot is free
           "place",     \* append (a create with no position): before nextPosition
           "insert",    \* create, append: before the INSERT
           "preload",   \* update: before BaseService.update's preload
           "dest",      \* move a card: before assertColumnOwned
           "load",      \* update, move: before save() reads the row
           "write",     \* update, move: before save()'s UPDATE
           "refind",    \* remove a card: before BaseService.remove's findOne
           "reload",    \* remove a board, a column: before softRemove() reads
           "remove"},   \* remove: before softRemove()'s UPDATEs
     user : Users \cup {None},
     id : Ids \cup {None},            \* the row; for a create, none yet
     entity : Entity \cup {None},     \* what save() is given
     edges : SUBSET (Ids \X Ids),     \* <<child, parent>>: relations in memory
     diff : SUBSET Fields]            \* the columns save() found changed

TypeOK ==
    /\ row \in [Ids -> Row \cup {None}]
    /\ req \in [Requests -> Request]

Init ==
    /\ RowInit
    /\ req = [r \in Requests |-> Idle]

FreeSlot(r, u) ==
    /\ req[r] = Idle
    /\ Cardinality({q \in Requests : req[q].user = u}) < MaxPerUser

Start(r, u, op, pc, id, entity, edges) ==
    req' = [req EXCEPT ![r] = [op |-> op, pc |-> pc, user |-> u, id |-> id,
                               entity |-> entity, edges |-> edges, diff |-> {}]]

Goto(r, pc) == req' = [req EXCEPT ![r].pc = pc]

\* The handler returns or throws: it leaves nothing behind.
Finish(r) == req' = [req EXCEPT ![r] = Idle]

-----------------------------------------------------------------------------
\* findAllForUser, findOneForUser, findAllForBoard, and every request whose first
\* SELECT finds nothing (404): a reply and no change.
ReadOrNotFound(r, u) ==
    /\ FreeSlot(r, u)
    /\ UNCHANGED vars

\* relations { columns: { cards: true } } of a board, { cards: true } of a
\* column, as loaded into memory: each row with the parent it hangs from.
Edges(x) == {<<y, row[y].parent>> : y \in Below(x)}

(* BoardsService *)

CreateBoard(r, u) ==
    /\ FreeSlot(r, u)
    /\ \E b \in Boards : /\ ~Exists(b)
                         /\ row' = [row EXCEPT ![b] = NewRow(u, 0)]
    /\ UNCHANGED req

UpdateBoard(r, u, b) ==
    /\ FreeSlot(r, u) /\ OwnsBoard(u, b)
    /\ Start(r, u, "update", "preload", b, None, {})
    /\ UNCHANGED row

\* A slip to test Cascade with: the tree is not loaded before softRemove.
RemoveBoardAlone(r, u, b) ==
    /\ FreeSlot(r, u) /\ OwnsBoard(u, b)
    /\ Start(r, u, "remove", "remove", b, None, {})
    /\ UNCHANGED row

RemoveBoard(r, u, b) ==
    /\ FreeSlot(r, u) /\ OwnsBoard(u, b)
    /\ Start(r, u, "remove", "reload", b, None, Edges(b))
    /\ UNCHANGED row

(* ColumnsService *)

CreateColumn(r, u, b, p) ==
    /\ FreeSlot(r, u) /\ OwnsBoard(u, b)
    /\ IF p = None
       THEN Start(r, u, "append", "place", None, NewRow(b, None), {})
       ELSE Start(r, u, "create", "insert", None, NewRow(b, p), {})
    /\ UNCHANGED row

UpdateColumn(r, u, c) ==
    /\ FreeSlot(r, u) /\ OwnsColumn(u, c)
    /\ Start(r, u, "update", "preload", c, None, {})
    /\ UNCHANGED row

MoveColumn(r, u, c, p) ==
    /\ FreeSlot(r, u) /\ OwnsColumn(u, c)
    /\ Start(r, u, "move", "load", c, [row[c] EXCEPT !.pos = p], {})
    /\ UNCHANGED row

RemoveColumn(r, u, c) ==
    /\ FreeSlot(r, u) /\ OwnsColumn(u, c)
    /\ Start(r, u, "remove", "reload", c, None, Edges(c))
    /\ UNCHANGED row

(* CardsService *)

\* A slip to test TypeOK with: no position is computed when the dto has none.
CreateCardUnplaced(r, u, c, p) ==
    /\ FreeSlot(r, u) /\ OwnsColumn(u, c)
    /\ Start(r, u, "create", "insert", None, NewRow(c, p), {})
    /\ UNCHANGED row

CreateCard(r, u, c, p) ==
    /\ FreeSlot(r, u) /\ OwnsColumn(u, c)
    /\ IF p = None
       THEN Start(r, u, "append", "place", None, NewRow(c, None), {})
       ELSE Start(r, u, "create", "insert", None, NewRow(c, p), {})
    /\ UNCHANGED row

UpdateCard(r, u, k) ==
    /\ FreeSlot(r, u) /\ OwnsCard(u, k)
    /\ Start(r, u, "update", "preload", k, None, {})
    /\ UNCHANGED row

\* The card is found first; the destination is checked by MoveDest.
MoveCard(r, u, k, c, p) ==
    /\ FreeSlot(r, u) /\ OwnsCard(u, k)
    /\ Start(r, u, "move", "dest", k, NewRow(c, p), {})
    /\ UNCHANGED row

RemoveCard(r, u, k) ==
    /\ FreeSlot(r, u) /\ OwnsCard(u, k)
    /\ Start(r, u, "remove", "refind", k, None, {})
    /\ UNCHANGED row

-----------------------------------------------------------------------------
(* The later steps of a request *)

\* Slips to test AppendsLast and ImplementsAtomic with: the last position itself
\* is used, or the last position of the whole table.
PlaceOnLast(r) ==
    /\ req[r].pc = "place"
    /\ \E p \in NextPositions(req[r].entity.parent) :
          req' = [req EXCEPT ![r].pc = "insert", ![r].entity.pos = p - STEP]
    /\ UNCHANGED row

PlaceAnywhere(r) ==
    /\ req[r].pc = "place"
    /\ \E x \in {y \in Boards \cup Columns : Exists(y)} : \E p \in NextPositions(x) :
          req' = [req EXCEPT ![r].pc = "insert", ![r].entity.pos = p]
    /\ UNCHANGED row

\* nextPosition
Place(r) ==
    /\ req[r].pc = "place"
    /\ \E p \in NextPositions(req[r].entity.parent) :
          req' = [req EXCEPT ![r].pc = "insert", ![r].entity.pos = p]
    /\ UNCHANGED row

\* BaseService.create: save() of a new entity
Insert(r) ==
    /\ req[r].pc = "insert"
    /\ \E x \in IF req[r].entity.parent \in Boards THEN Columns ELSE Cards :
          /\ ~Exists(x)
          /\ row' = [row EXCEPT ![x] = req[r].entity]
    /\ Finish(r)

\* A slip to test OwnerPrivate with: the destination column is not checked.
MoveDestUnchecked(r) ==
    /\ req[r].pc = "dest"
    /\ IF Live(req[r].entity.parent) THEN Goto(r, "load") ELSE Finish(r)
    /\ UNCHANGED row

\* assertColumnOwned(dto.columnId) of a card's move
MoveDest(r) ==
    /\ req[r].pc = "dest"
    /\ IF OwnsColumn(req[r].user, req[r].entity.parent)
       THEN Goto(r, "load") ELSE Finish(r)
    /\ UNCHANGED row

\* A slip to test OnlyMovesMove with: the position's default overrides the row's.
PreloadDefaults(r) ==
    /\ req[r].pc = "preload"
    /\ IF Live(req[r].id)
       THEN req' = [req EXCEPT ![r].pc = "load",
                               ![r].entity = [row[req[r].id] EXCEPT !.pos = 0]]
       ELSE Finish(r)
    /\ UNCHANGED row

\* BaseService.update: preload() finds live rows only, and hands back every
\* column of the row with the dto's on top.
Preload(r) ==
    /\ req[r].pc = "preload"
    /\ IF Live(req[r].id)
       THEN req' = [req EXCEPT ![r].pc = "load", ![r].entity = row[req[r].id]]
       ELSE Finish(r)
    /\ UNCHANGED row

\* save() of an existing entity, first half: it reads the row again, deleted or
\* not, and keeps the columns in which the entity differs from it.
SaveLoad(r) ==
    /\ req[r].pc = "load"
    /\ req' = [req EXCEPT
                 ![r].pc = "write",
                 ![r].diff = {f \in Fields : req[r].entity[f] # row[req[r].id][f]}]
    /\ UNCHANGED row

\* Second half: UPDATE ... SET the changed columns WHERE id.
SaveWrite(r) ==
    LET q == req[r] IN
    /\ q.pc = "write"
    /\ row' = [row EXCEPT ![q.id] =
                 [f \in Fields |-> IF f \in q.diff THEN q.entity[f] ELSE @[f]]]
    /\ Finish(r)

\* BaseService.remove: findOne without the owner
RemoveFind(r) ==
    /\ req[r].pc = "refind"
    /\ IF Live(req[r].id) THEN Goto(r, "remove") ELSE Finish(r)
    /\ UNCHANGED row

\* softRemove(), first half: it reads the live children of every entity it
\* holds.  A child it does not hold is to be detached: columnId (boardId) =
\* NULL, which NOT NULL rejects when the transaction runs.
RemoveLoad(r) ==
    LET q == req[r]
        held == {q.id} \cup {e[1] : e \in q.edges}
        extra == {y \in Ids : /\ Live(y) /\ row[y].parent \in held
                              /\ <<y, row[y].parent>> \notin q.edges}
    IN  /\ q.pc = "reload"
        /\ IF extra = {} THEN Goto(r, "remove") ELSE Finish(r)
        /\ UNCHANGED row

\* Second half: one transaction sets deletedAt on every row it holds.
RemoveWrite(r) ==
    LET q == req[r]
        held == {q.id} \cup {e[1] : e \in q.edges}
    IN  /\ q.pc = "remove"
        /\ row' = [x \in Ids |-> IF x \in held THEN [row[x] EXCEPT !.deleted = TRUE]
                                 ELSE row[x]]
        /\ Finish(r)

\* A query rejects, or the process stops: the handler ends, and a transaction
\* that has not committed leaves no trace.
Abort(r) ==
    /\ req[r] # Idle
    /\ Finish(r)
    /\ UNCHANGED row

-----------------------------------------------------------------------------

Arrive(r, u) ==
    \/ ReadOrNotFound(r, u)
    \/ CreateBoard(r, u)
    \/ \E b \in Boards : UpdateBoard(r, u, b) \/ RemoveBoard(r, u, b)
    \/ \E b \in Boards, p \in Positions \cup {None} : CreateColumn(r, u, b, p)
    \/ \E c \in Columns : UpdateColumn(r, u, c) \/ RemoveColumn(r, u, c)
    \/ \E c \in Columns, p \in Positions : MoveColumn(r, u, c, p)
    \/ \E c \in Columns, p \in Positions \cup {None} : CreateCard(r, u, c, p)
    \/ \E k \in Cards : UpdateCard(r, u, k) \/ RemoveCard(r, u, k)
    \/ \E k \in Cards, c \in Columns, p \in Positions : MoveCard(r, u, k, c, p)

Continue(r) ==
    \/ Place(r) \/ Insert(r)
    \/ MoveDest(r) \/ Preload(r) \/ SaveLoad(r) \/ SaveWrite(r)
    \/ RemoveFind(r) \/ RemoveLoad(r) \/ RemoveWrite(r)
    \/ Abort(r)

Next == \E r \in Requests : Continue(r) \/ \E u \in Users : Arrive(r, u)

Spec == Init /\ [][Next]_vars

-----------------------------------------------------------------------------
(* Properties *)

\* Boards are owner-private, whatever requests overlap: a row once inserted
\* never changes hands and is never lost, and it is changed, or hung below a
\* row, only by the end of a request of the user it belongs to.
PrivateStep ==
    \A x \in Ids :
       /\ Exists(x) => Exists(x)' /\ Owner(x)' = Owner(x)
       /\ row'[x] # row[x] /\ (x \in Boards => Exists(x)) =>
            \E r \in Requests : /\ req[r].user = Owner(x)'
                                /\ req[r] # Idle /\ req'[r] = Idle

OwnerPrivate == [][PrivateStep]_vars

\* While each user has one request in flight at a time, the requests of
\* different users may interleave in any way: the services do what the atomic
\* operations do.
ImplementsAtomic == Atomic!AtomicSpec

\* Only a move changes where a card is (update-card.dto.ts: "moving a card
\* (columnId/position) goes through the dedicated /move endpoint, not the generic
\* update").
OnlyMovesMove ==
    [][\A k \in Cards, r \in Requests :
         /\ Exists(k) /\ req[r].id = k /\ req'[r] = Idle
         /\ <<row[k].parent, row[k].pos>> # <<row'[k].parent, row'[k].pos>>
         => req[r].op = "move"]_vars

\* A row created without a position comes after every row it then stands next to
\* (cards.service.ts: "Position just past the last card in a column").
AppendsLast ==
    [][\A r \in Requests : req[r].op = "append" =>
         \A x \in Ids : ~Exists(x) /\ Exists(x)' /\ row'[x] = req[r].entity =>
            \A y \in Children(row'[x].parent) : row[y].pos < row'[x].pos]_vars

=============================================================================
