------------------------------ MODULE MCKanban ------------------------------
\* KanbanAtomic for its Cascade and DeletedIsFinal: the invariant and the action
\* property of the atomic operations, on the rows the requests work on.
EXTENDS Kanban, KanbanAtomic, TLC

Symmetry == UNION {Permutations(S) : S \in {Users, Boards, Columns, Cards, Requests}}
=============================================================================
