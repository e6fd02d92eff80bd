---------------------------- MODULE SingleFlight ----------------------------
(***************************************************************************)
(* What the API client promises about token refreshes: of the calls of a   *)
(* page that meet a 401 at the same time one asks for a new token, the     *)
(* others wait for its answer, and none waits for ever.                    *)
(***************************************************************************)
CONSTANTS Pages, Calls

VARIABLES
    leader,     \* per page: the call that refreshes, {} or one call
    waiting     \* per page: the calls that wait for its answer

flight == <<leader, waiting>>

Init == leader = [p \in Pages |-> {}] /\ waiting = [p \in Pages |-> {}]

Lead(p, c) ==
    /\ leader[p] = {}
    /\ leader' = [leader EXCEPT ![p] = {c}]
    /\ UNCHANGED waiting

Join(p, c) ==
    /\ leader[p] # {} /\ c \notin leader[p]
    /\ waiting' = [waiting EXCEPT ![p] = @ \cup {c}]
    /\ UNCHANGED leader

\* The answer is there, good or bad, or the page is gone: nobody waits on.
Release(p) ==
    /\ leader[p] # {}
    /\ leader' = [leader EXCEPT ![p] = {}]
    /\ waiting' = [waiting EXCEPT ![p] = {}]

Next == \E p \in Pages : Release(p) \/ \E c \in Calls : Lead(p, c) \/ Join(p, c)

Safety == Init /\ [][Next]_flight

Spec == Safety /\ \A p \in Pages : WF_flight(Release(p))
=============================================================================
