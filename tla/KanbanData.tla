----------------------------- MODULE KanbanData -----------------------------
(***************************************************************************)
(* The three tables of the Kanban backend (boards, board_columns, cards)   *)
(* and the queries its services make.  The tables are one function: a row  *)
(* or None under each primary key.  No row is ever removed: deletion sets  *)
(* deletedAt.                                                              *)
(*                                                                         *)
(* Titles, descriptions, due dates and priorities are left out: no         *)
(* property tells them apart.  A position is a natural number; what double *)
(* precision does to one is not modelled here.                             *)
(***************************************************************************)
EXTENDS Naturals

CONSTANTS
    Users,        \* the authenticated users (req.user.userId)
    Boards, Columns, Cards,   \* the primary keys the three sequences hand out
    Positions,    \* the positions a client puts in a request
    STEP,         \* POSITION_STEP
    None          \* SQL NULL, undefined, no row

Ids == Boards \cup Columns \cup Cards

Row == [parent : Users \cup Boards \cup Columns,  \* userId, boardId or columnId
        pos : Nat, deleted : BOOLEAN]             \* deleted: deletedAt is set

ASSUME DataAssumption ==
    /\ Positions \subseteq Nat
    /\ STEP \in Nat \ {0}
    /\ None \notin Ids \cup Users \cup Nat
    /\ None \notin Row
    /\ Users \cap Ids = {}
    /\ Boards \cap Columns = {} /\ Boards \cap Cards = {} /\ Columns \cap Cards = {}

VARIABLE row

RowInit == row = [x \in Ids |-> None]

-----------------------------------------------------------------------------
(* Queries.  Every find* and every join of a find* sees only rows whose    *)
(* deletedAt is null.                                                      *)

Exists(x) == row[x] # None
Live(x)   == Exists(x) /\ ~row[x].deleted

Children(x) == {y \in Ids : Live(y) /\ row[y].parent = x}

\* findOneForUser, assertBoardOwned: where { id, userId }
OwnsBoard(u, b) == Live(b) /\ row[b].parent = u

\* findOwned of a column, assertColumnOwned: where { id, board: { userId } }
OwnsColumn(u, c) == Live(c) /\ OwnsBoard(u, row[c].parent)

\* A slip to test DeletedIsFinal and GoneForGood with: findOwned is withDeleted.
OwnsCardDeleted(u, k) == Exists(k) /\ OwnsColumn(u, row[k].parent)

\* findOwned of a card: where { id, column: { board: { userId } } }
OwnsCard(u, k) == Live(k) /\ OwnsColumn(u, row[k].parent)

\* The rows that softRemove reaches from x when its relations are loaded
\* (columns and their cards of a board, cards of a column).
Below(x) == Children(x) \cup UNION {Children(y) : y \in Children(x)}

\* findOne in order position DESC: a live child with the largest position.
Last(x) == {y \in Children(x) : \A z \in Children(x) : row[z].pos <= row[y].pos}

\* (last?.position ?? 0) + POSITION_STEP
NextPositions(x) ==
    IF Children(x) = {} THEN {STEP} ELSE {row[y].pos + STEP : y \in Last(x)}

NewRow(parent, p) == [parent |-> parent, pos |-> p, deleted |-> FALSE]

-----------------------------------------------------------------------------
(* What the properties speak of *)

\* The user a row belongs to, through its column and its board.
Owner(x) == IF x \in Users THEN x
            ELSE IF x \in Boards THEN row[x].parent
            ELSE IF x \in Columns THEN row[row[x].parent].parent
            ELSE row[row[row[x].parent].parent].parent

\* No row is deleted on the way from x up to its board.
Reachable(x) ==
    /\ Live(x)
    /\ x \notin Boards => Live(row[x].parent)
    /\ x \in Cards => Live(row[row[x].parent].parent)
=============================================================================
