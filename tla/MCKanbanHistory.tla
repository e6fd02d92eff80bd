-------------------------- MODULE MCKanbanHistory --------------------------
(* The Kanban services with a history of what each user has seen disappear. *)
EXTENDS MCKanban

VARIABLE lost    \* what was out of reach when its owner had nothing in flight

OutOfReach ==
    {x \in Ids : Exists(x) /\ ~Reachable(x) /\ \A r \in Requests : req[r].user # Owner(x)}

HistoryInit == Init /\ lost = OutOfReach

HistoryNext == Next /\ lost' = lost \cup OutOfReach'

HistorySpec == HistoryInit /\ [][HistoryNext]_<<vars, lost>>

\* What a user with no request in flight cannot reach, because it or something
\* above it is deleted, he can never reach again: 404 is a final answer.
GoneForGood == \A x \in lost : ~Reachable(x)
=============================================================================
