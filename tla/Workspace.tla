----------------------------- MODULE Workspace -----------------------------
(***************************************************************************)
(* The administration of users and what they are told of it: a request     *)
(* about a user's roles (AdminTables) is an event of Notices when its save *)
(* is done, and the roles it writes decide whose bell counts which rows.   *)
(*                                                                         *)
(* The two are looked at one at a time, to keep the states few: either the *)
(* tables, with nobody listening, or the bells, with the requests about    *)
(* roles that are sent to the API only.                                    *)
(***************************************************************************)
EXTENDS AdminTables, Sequences

CONSTANTS
    Subject,      \* the user of the users table
    Users,        \* he and others, administrators with all the roles
    RoleOrder,    \* the roles of ADMIN_ROLES, of which there are some
    MaxEvents, MaxCuts

ASSUME WorkspaceAssumption ==
    /\ Subject \in Users /\ IsFiniteSet(Users) /\ IsFiniteSet(Items)
    /\ RoleOrder \in Seq(Items) /\ RoleOrder # <<>>
    /\ MaxEvents \in Nat /\ MaxCuts \in Nat

VARIABLES focus, notices, events, socket, bell, happened, cuts

Roles == [u \in Users |-> IF u # Subject THEN Items
                          ELSE IF table = "users" /\ db.live THEN db.has ELSE {}]

N == INSTANCE Notices WITH Roles <- Items, roles <- Roles

told == <<notices, events, socket, bell, happened, cuts>>
vars == <<admin, focus, told>>

WorkspaceInit ==
    /\ Init /\ N!NoticesInit
    /\ focus \in {"tables", "bells"}
    /\ focus = "bells" => table = "users"

\* A request about roles: its event is emitted when the row is saved.
SaveRoles(p) ==
    /\ At(p, {"attach", "detach"}, "save")
    /\ SaveRow(p)
    /\ N!UserRolesUpdated(Subject)

ApiOnly ==
    \E p \in Pages :
      \/ SaveRoles(p)
      \/ /\ UNCHANGED told
         /\ \/ \E item \in Items : Attach(p, item) \/ Detach(p, item)
            \/ FindRow(p) \/ ClearKeys(p) \/ Answer(p)

TablesStep == focus = "tables" /\ AdminNext /\ UNCHANGED told

BellsStep == focus = "bells" /\ (ApiOnly \/ (N!NoticesNext /\ UNCHANGED admin))

WorkspaceNext == (TablesStep \/ BellsStep) /\ UNCHANGED focus

\* A page polls, and a query of it that does not fail comes back.
Fairness ==
    \A u \in Users :
      /\ WF_vars(focus = "bells" /\ N!Poll(u) /\ UNCHANGED <<admin, focus>>)
      /\ WF_vars(focus = "bells" /\ N!CountUnread(u) /\ UNCHANGED <<admin, focus>>)
      /\ WF_vars(focus = "bells" /\ N!ShowCount(u) /\ UNCHANGED <<admin, focus>>)

WorkspaceSpec == WorkspaceInit /\ [][WorkspaceNext]_vars /\ Fairness

-----------------------------------------------------------------------------
(* Properties of the two *)

\* Both parts keep their types: of AdminTables, that only media have objects and
\* that an answer is at hand exactly when it is said to be; of Notices, that every
\* row comes from an event.
TypeOK == AdminTypeOK /\ N!NoticesTypeOK /\ focus \in {"tables", "bells"}

\* See Notices: the gateway sends a notification to those only who can list it,
\* unless their roles have changed since their socket was connected.
TellsWhoCanList == N!TellsWhoCanList

\* See Notices: the number next to the bell becomes right whatever messages were
\* lost, since the page polls.
BadgeCatchesUp == N!BadgeCatchesUp
=============================================================================
