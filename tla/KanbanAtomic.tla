---------------------------- MODULE KanbanAtomic ----------------------------
(***************************************************************************)
(* What the Kanban services promise a user, one atomic step for each       *)
(* operation: a user works on the rows he owns and can see, a new row      *)
(* without a position goes past the last one, a move places one row, and   *)
(* deleting a row deletes everything below it.  An edit of titles and the  *)
(* like changes no row and is a stuttering step.                           *)
(***************************************************************************)
EXTENDS KanbanData

Owns(u, x) == \/ x \in Boards /\ OwnsBoard(u, x)
              \/ x \in Columns /\ OwnsColumn(u, x)
              \/ x \in Cards /\ OwnsCard(u, x)

Put(x, value) == row' = [row EXCEPT ![x] = value]

AddBoard(u) == \E b \in Boards : ~Exists(b) /\ Put(b, NewRow(u, 0))

Add(u, parent, Kind) ==
    /\ Owns(u, parent)
    /\ \E x \in Kind, p \in Positions \cup NextPositions(parent) :
          ~Exists(x) /\ Put(x, NewRow(parent, p))

MoveWithin(u, c, p) ==
    /\ Owns(u, c)
    /\ Put(c, [row[c] EXCEPT !.pos = p])

MoveAcross(u, k, c, p) ==
    /\ Owns(u, k) /\ Owns(u, c)
    /\ Put(k, NewRow(c, p))

Delete(u, x) ==
    /\ Owns(u, x)
    /\ row' = [y \in Ids |-> IF y \in {x} \cup Below(x)
                             THEN [row[y] EXCEPT !.deleted = TRUE] ELSE row[y]]

AtomicNext ==
    \E u \in Users :
       \/ AddBoard(u)
       \/ \E b \in Boards : Add(u, b, Columns)
       \/ \E c \in Columns : Add(u, c, Cards)
       \/ \E c \in Columns, p \in Positions : MoveWithin(u, c, p)
       \/ \E k \in Cards, c \in Columns, p \in Positions : MoveAcross(u, k, c, p)
       \/ \E x \in Ids : Delete(u, x)

AtomicSpec == RowInit /\ [][AtomicNext]_row

-----------------------------------------------------------------------------

\* Deleting a board or a column leaves nothing live below it
\* (FEATURES.md: "Deleting a board soft-deletes its columns and cards").
Cascade == \A x \in Columns \cup Cards : Live(x) => Live(row[x].parent)

\* A deleted row stays deleted: there is no operation that restores one.
DeletedIsFinal ==
    [][\A x \in Ids : Exists(x) /\ ~Live(x) => (Exists(x) /\ ~Live(x))']_row
=============================================================================
