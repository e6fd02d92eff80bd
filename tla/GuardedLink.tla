---------------------------- MODULE GuardedLink ----------------------------
(***************************************************************************)
(* What an emailed link keeps of being one-time, whatever overlaps or      *)
(* fails.  A request gets through only while the link is good, and every   *)
(* request that got through is settled.  Once the link has worked for one, *)
(* nobody else gets through, unless it was being renewed at that moment.   *)
(*                                                                         *)
(* That is less than one-time: of several requests inside at one time      *)
(* each may succeed, and one that fails may have taken effect and leaves   *)
(* the link good.                                                          *)
(***************************************************************************)
CONSTANTS Links, Requests

VARIABLES
    born,       \* the links there have been
    good,       \* those that work
    inside,     \* per link: the requests that found it good
    renewing,   \* per link: the requests about to prolong it
    won         \* the requests told that it worked

link == <<born, good, inside, renewing, won>>

Init ==
    /\ born = {} /\ good = {} /\ won = {}
    /\ inside = [l \in Links |-> {}]
    /\ renewing = [l \in Links |-> {}]

Grant(l) ==
    /\ l \notin born
    /\ born' = born \cup {l}
    /\ good' = good \cup {l}
    /\ UNCHANGED <<inside, renewing, won>>

\* Links expire, are revoked or make way for a newer one.
Withdraw ==
    /\ good' \subseteq good
    /\ UNCHANGED <<born, inside, renewing, won>>

Admit(l, r) ==
    /\ l \in good
    /\ inside' = [inside EXCEPT ![l] = @ \cup {r}]
    /\ UNCHANGED <<born, good, renewing, won>>

StartRenewal(l, r) ==
    /\ l \in born
    /\ renewing' = [renewing EXCEPT ![l] = @ \cup {r}]
    /\ UNCHANGED <<born, good, inside, won>>

Of(what, r) == {l \in Links : r \in what[l]}
Without(what, r) == [l \in Links |-> what[l] \ {r}]

Renew(r) ==
    /\ Of(renewing, r) # {}
    /\ good' = good \cup Of(renewing, r)
    /\ renewing' = Without(renewing, r)
    /\ UNCHANGED <<born, inside, won>>

\* The link has worked, for each request that is inside.
Succeed(r) ==
    /\ Of(inside, r) # {}
    /\ good' = good \ Of(inside, r)
    /\ inside' = Without(inside, r)
    /\ won' = won \cup {r}
    /\ UNCHANGED <<born, renewing>>

\* The request is told that it did not work, or nothing; it may have, though.
Fail(r) ==
    /\ Of(inside, r) \cup Of(renewing, r) # {}
    /\ inside' = Without(inside, r)
    /\ renewing' = Without(renewing, r)
    /\ UNCHANGED <<born, good, won>>

\* The page that was told is left.
Leave(r) ==
    /\ won' = won \ {r}
    /\ UNCHANGED <<born, good, inside, renewing>>

Settle(r) == Succeed(r) \/ Fail(r) \/ Renew(r)

Next ==
    \/ Withdraw
    \/ \E l \in Links : Grant(l) \/ \E r \in Requests : Admit(l, r) \/ StartRenewal(l, r)
    \/ \E r \in Requests : Settle(r) \/ Leave(r)

Safety == Init /\ [][Next]_link

Spec == Safety /\ \A r \in Requests : WF_link(Settle(r))
=============================================================================
