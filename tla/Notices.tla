------------------------------ MODULE Notices ------------------------------
(***************************************************************************)
(* Notifications: events about users become rows and messages on the       *)
(* sockets (notifications.listener.ts, notifications.gateway.ts); a page   *)
(* shows the number of unread ones next to its bell, which it asks for     *)
(* when a message comes and every minute.  Titles, links and the list      *)
(* itself are left out.                                                    *)
(***************************************************************************)
EXTENDS Integers, FiniteSets, Sequences

CONSTANTS
    Users,        \* with a browser each
    Roles,        \* the roles of administrators
    RoleOrder,    \* in the order they are told
    MaxEvents,    \* bound: events
    MaxCuts       \* bound: lost connections, reloads, failed inserts and reads

VARIABLES
    roles,        \* of the users, now (written elsewhere)
    notices,      \* table notifications
    events,       \* the listeners under way
    socket,       \* per user: connected or not, or for good, and its rooms
    bell,         \* per user: the number shown, and the request for it
    happened, cuts

noticeVars == <<notices, events, socket, bell, happened, cuts>>

Nobody == "nobody"

\* One row for each role and one for the user himself.
Event == 1 .. MaxEvents
Notification == [to : Roles \cup Users, actor : Users \cup {Nobody}, read : BOOLEAN]

Listener == [todo : Seq(Roles \cup Users), actor : Users \cup {Nobody}, at : {"create", "send"}]

Socket == [is : {"on", "off", "dead"}, rooms : SUBSET Roles]

\* A listener adds no two rows to the same receiver: a row is named by its event
\* and receiver.
Row == Event \X (Roles \cup Users)

Bell == [shown : 0 .. Cardinality(Row), at : {"none", "count", "back"}, got : 0 .. Cardinality(Row)]

NoticesInit ==
    /\ notices = [r \in {} |-> {}] /\ events = [e \in {} |-> {}]
    /\ socket = [u \in Users |-> [is |-> "on", rooms |-> roles[u]]]
    /\ bell = [u \in Users |-> [shown |-> 0, at |-> "none", got |-> 0]]
    /\ happened = 0 /\ cuts = 0

With(f, x, v) == [y \in DOMAIN f \cup {x} |-> IF y = x THEN v ELSE f[y]]
Without(f, x) == [y \in DOMAIN f \ {x} |-> f[y]]

-----------------------------------------------------------------------------
(* Events *)

Emit(receivers, actor) ==
    /\ happened < MaxEvents /\ happened' = happened + 1
    /\ events' = With(events, happened', [todo |-> receivers, actor |-> actor, at |-> "create"])
    /\ UNCHANGED <<notices, socket, bell, cuts>>

UserRolesUpdated(u) == Emit(RoleOrder \o <<u>>, Nobody)
UserDeleted == Emit(RoleOrder, Nobody)
UserInvited(u) == Emit(RoleOrder, u)

CreateNotification(e) ==
    /\ events[e].at = "create"
    /\ notices' = With(notices, <<e, Head(events[e].todo)>>,
                       [to |-> Head(events[e].todo), actor |-> events[e].actor, read |-> FALSE])
    /\ events' = [events EXCEPT ![e].at = "send"]
    /\ UNCHANGED <<socket, bell, happened, cuts>>

\* An insert fails: the rows that remain are not written.
ListenerFails(e) ==
    /\ events[e].at = "create" /\ cuts < MaxCuts
    /\ events' = Without(events, e) /\ cuts' = cuts + 1
    /\ UNCHANGED <<notices, socket, bell, happened>>

-----------------------------------------------------------------------------
(* Bell *)

\* Whatever request was under way is cancelled.
Asked(us) == [u \in Users |-> IF u \in us THEN [bell[u] EXCEPT !.at = "count", !.got = 0] ELSE bell[u]]

\* A slip to test with: the actor is told, too.
InRoomAll(e) ==
    LET to == Head(events[e].todo)
    IN {u \in Users : socket[u].is = "on" /\ (u = to \/ to \in socket[u].rooms)}

InRoom(e) ==
    LET to == Head(events[e].todo)
    IN {u \in Users \ {events[e].actor} : socket[u].is = "on" /\ (u = to \/ to \in socket[u].rooms)}

SendNotification(e) ==
    /\ events[e].at = "send"
    /\ bell' = Asked(InRoom(e))
    /\ events' = IF Len(events[e].todo) = 1 THEN Without(events, e)
                 ELSE [events EXCEPT ![e].todo = Tail(@), ![e].at = "create"]
    /\ UNCHANGED <<notices, socket, happened, cuts>>

Visible(u, n) == n.to = u \/ (n.to \in roles[u] /\ n.actor # u)

Unread(u) == Cardinality({r \in DOMAIN notices : ~notices[r].read /\ Visible(u, notices[r])})

Ask(u) == bell' = Asked({u})

\* A slip to test with: while the socket is gone nobody asks.
PollConnected(u) ==
    /\ bell[u].at = "none" /\ socket[u].is = "on"
    /\ Ask(u)
    /\ UNCHANGED <<notices, events, socket, happened, cuts>>

\* Every minute.
Poll(u) ==
    /\ bell[u].at = "none"
    /\ Ask(u)
    /\ UNCHANGED <<notices, events, socket, happened, cuts>>

CountUnread(u) ==
    /\ bell[u].at = "count"
    /\ bell' = [bell EXCEPT ![u].at = "back", ![u].got = Unread(u)]
    /\ UNCHANGED <<notices, events, socket, happened, cuts>>

ShowCount(u) ==
    /\ bell[u].at = "back"
    /\ bell' = [bell EXCEPT ![u] = [shown |-> bell[u].got, at |-> "none", got |-> 0]]
    /\ UNCHANGED <<notices, events, socket, happened, cuts>>

CountFails(u) ==
    /\ bell[u].at # "none" /\ cuts < MaxCuts
    /\ bell' = [bell EXCEPT ![u].at = "none", ![u].got = 0] /\ cuts' = cuts + 1
    /\ UNCHANGED <<notices, events, socket, happened>>

\* One reader's click marks a row for everybody; his page asks for the number
\* when the answer comes.
MarkAsRead(u, r) ==
    /\ ~notices[r].read /\ Visible(u, notices[r])
    /\ notices' = [notices EXCEPT ![r].read = TRUE]
    /\ bell' \in {bell, Asked({u})}
    /\ UNCHANGED <<events, socket, happened, cuts>>

MarkAllAsRead(u) ==
    /\ Unread(u) > 0
    /\ notices' = [r \in DOMAIN notices |->
                     [notices[r] EXCEPT !.read = @ \/ Visible(u, notices[r])]]
    /\ bell' \in {bell, Asked({u})}
    /\ UNCHANGED <<events, socket, happened, cuts>>

\* An administrator who is not among the Users.
ReadBySomebody(r) ==
    /\ ~notices[r].read /\ notices[r].to \in Roles
    /\ notices' = [notices EXCEPT ![r].read = TRUE]
    /\ UNCHANGED <<events, socket, bell, happened, cuts>>

-----------------------------------------------------------------------------
(* Sockets *)

Disconnect(u) ==
    /\ socket[u].is = "on" /\ cuts < MaxCuts
    /\ socket' = [socket EXCEPT ![u].is = "off"] /\ cuts' = cuts + 1
    /\ UNCHANGED <<notices, events, bell, happened>>

\* The socket sends the token it began with: it gets its rooms again, or, when
\* the token has expired, is disconnected by the server and does not try again.
Reconnect(u) ==
    /\ socket[u].is = "off"
    /\ \E is \in {"on", "dead"} : socket' = [socket EXCEPT ![u].is = is]
    /\ UNCHANGED <<notices, events, bell, happened, cuts>>

\* The page is loaded again: a token of before or after the change of roles.
Reload(u) ==
    /\ cuts < MaxCuts /\ cuts' = cuts + 1
    /\ \E rooms \in {socket[u].rooms, roles[u]} :
         socket' = [socket EXCEPT ![u] = [is |-> "on", rooms |-> rooms]]
    /\ bell' = [bell EXCEPT ![u] = [shown |-> 0, at |-> "count", got |-> 0]]
    /\ UNCHANGED <<notices, events, happened>>

Bells(u) == Poll(u) \/ CountUnread(u) \/ ShowCount(u)

NoticesNext ==
    \/ \E e \in DOMAIN events : CreateNotification(e) \/ ListenerFails(e) \/ SendNotification(e)
    \/ \E u \in Users :
         \/ Bells(u) \/ CountFails(u) \/ Disconnect(u) \/ Reconnect(u) \/ Reload(u)
         \/ MarkAllAsRead(u) \/ UserInvited(u)
         \/ \E r \in DOMAIN notices : MarkAsRead(u, r)
    \/ \E r \in DOMAIN notices : ReadBySomebody(r)
    \/ UserDeleted

-----------------------------------------------------------------------------
(* Properties *)

\* The variables keep their types; every row comes from an event, and no number
\* is waited for that is there.
NoticesTypeOK ==
    /\ DOMAIN notices \subseteq Row
    /\ \A r \in DOMAIN notices : notices[r] \in Notification /\ notices[r].to = r[2] /\ r[1] =< happened
    /\ DOMAIN events \subseteq 1 .. happened
    /\ \A e \in DOMAIN events : events[e] \in Listener /\ events[e].todo # <<>>
    /\ socket \in [Users -> Socket] /\ bell \in [Users -> Bell]
    /\ happened \in 0 .. MaxEvents /\ cuts \in 0 .. MaxCuts

\* A message goes to nobody who would not find its row in his list, in
\* particular not to the one who caused it: unless his roles are other ones now
\* than those his socket came with, which keeps its rooms.
TellsWhoCanList ==
    \A e \in DOMAIN events : events[e].at = "send" =>
      \A u \in InRoom(e) :
        /\ <<e, Head(events[e].todo)>> \in DOMAIN notices
        /\ \/ Visible(u, notices[<<e, Head(events[e].todo)>>])
           \/ socket[u].rooms # roles[u]

\* The number next to the bell is right again and again, whatever messages did
\* not arrive: without its socket the page still asks every minute.
BadgeCatchesUp == \A u \in Users : []<>(bell[u].shown = Unread(u))
=============================================================================
