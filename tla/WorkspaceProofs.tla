-------------------------- MODULE WorkspaceProofs --------------------------
(***************************************************************************)
(* Proofs about the tables and the bells together, for any number of       *)
(* pages, users, roles and events.  Each step of the two is a step of the  *)
(* tables or leaves them alone, so what is proved of the tables holds of   *)
(* the two; what the users are told is proved here.                        *)
(***************************************************************************)
EXTENDS Workspace, AdminTablesProofs, FiniteSetTheorems, SequenceTheorems

-----------------------------------------------------------------------------
(* The tables *)

\* A request that is sent to the API only is one of those the tables know.
LEMMA ApiOnlyStep ==
    ASSUME ApiOnly
    PROVE  AdminNext
<1>1. PICK p \in Pages : \/ SaveRoles(p)
                         \/ \E item \in Items : Attach(p, item) \/ Detach(p, item)
                         \/ FindRow(p) \/ ClearKeys(p) \/ Answer(p)
  BY DEF ApiOnly
<1>2. Serving(p) \/ \E item \in Items : Asking(p, item)
  BY <1>1 DEF SaveRoles, Serving, Asking
<1> QED BY <1>2 DEF AdminNext

\* The two together do to the tables nothing that the tables do not do alone.
THEOREM TablesAsAlone == WorkspaceSpec => AdminSpec
<1>1. WorkspaceInit => Init
  BY DEF WorkspaceInit
<1>2. [WorkspaceNext]_vars => [AdminNext]_admin
  BY ApiOnlyStep DEF WorkspaceNext, TablesStep, BellsStep, vars
<1> QED BY <1>1, <1>2, PTL DEF WorkspaceSpec, AdminSpec

\* What the runs check of the tables with their bells: an old list in the cache
\* has its reason, a page shows its own change, an object has its row, and a
\* request about one grant leaves the others be.
THEOREM TablesKeepTheirPromises ==
    WorkspaceSpec => [](CacheFresh /\ OwnWriteShown /\ StoreMatches) /\ OnlyOwnItem
BY TablesAsAlone, CacheIsFresh, OwnChangesShown, ObjectsHaveRows, OthersGrantsStay, PTL

-----------------------------------------------------------------------------
(* Types of what the users are told *)

\* The roles of a user are roles.
LEMMA RolesTyped ==
    ASSUME AdminTypeOK
    PROVE  Roles \in [Users -> SUBSET Items]
BY DEF Roles, AdminTypeOK, Rows

\* The number of a set is the same in both modules.
LEMMA SameCardinality == \A S : N!Cardinality(S) = Cardinality(S)
BY DEF N!Cardinality, Cardinality

\* What a bell may show.
Numbers == 0 .. Cardinality(N!Row)

\* A bell holds two numbers of unread notices, and where its request is.
LEMMA BellIs == N!Bell = [shown : Numbers, at : {"none", "count", "back"}, got : Numbers]
BY SameCardinality, Zenon DEF N!Bell, Numbers

\* There are finitely many rows that events can leave, so that a bell can show the
\* number of any of them.
LEMMA RowsFinite == 0 \in Numbers /\ \A S \in SUBSET N!Row : Cardinality(S) \in Numbers
<1>1. IsFiniteSet(N!Event)
  BY FS_Interval, WorkspaceAssumption DEF N!Event
<1>2. IsFiniteSet(Items \cup Users)
  BY FS_Union, WorkspaceAssumption
<1>3. IsFiniteSet(N!Event \X (Items \cup Users))
  BY <1>1, <1>2, FS_Product, Zenon
<1>4. IsFiniteSet(N!Row) /\ Cardinality(N!Row) \in Nat
  BY <1>3, FS_CardinalityType DEF N!Row
<1>5. ASSUME NEW S \in SUBSET N!Row PROVE Cardinality(S) \in Numbers
  <2>1. IsFiniteSet(S) /\ Cardinality(S) =< Cardinality(N!Row)
    BY <1>4, FS_Subset
  <2>2. Cardinality(S) \in Nat
    BY <2>1, FS_CardinalityType
  <2> QED BY <1>4, <2>1, <2>2 DEF Numbers
<1> QED BY <1>4, <1>5 DEF Numbers

\* The table notifications and the listeners under way: what the listener is about
\* to send has its row, with the same actor.
Written ==
    /\ DOMAIN notices \subseteq N!Row
    /\ \A r \in DOMAIN notices : notices[r] \in N!Notification /\ notices[r].to = r[2] /\ r[1] =< happened

Listeners ==
    /\ DOMAIN events \subseteq 1 .. happened
    /\ \A e \in DOMAIN events : events[e] \in N!Listener /\ events[e].todo # <<>>

Counts == happened \in 0 .. MaxEvents /\ cuts \in 0 .. MaxCuts

Browsers == socket \in [Users -> N!Socket] /\ bell \in [Users -> N!Bell]

Sent(e) ==
    events[e].at = "send" => /\ <<e, Head(events[e].todo)>> \in DOMAIN notices
                             /\ notices[<<e, Head(events[e].todo)>>].actor = events[e].actor

Told == Written /\ Listeners /\ Counts /\ Browsers /\ \A e \in DOMAIN events : Sent(e)

\* Nobody has been told anything at first.
LEMMA ToldInit ==
    ASSUME AdminTypeOK, N!NoticesInit
    PROVE  Told
<1>1. DOMAIN notices = {} /\ DOMAIN events = {} /\ happened = 0 /\ cuts = 0
  BY DEF N!NoticesInit
<1>2. Counts
  BY <1>1, WorkspaceAssumption DEF Counts
<1>3. socket \in [Users -> N!Socket]
  BY RolesTyped DEF N!NoticesInit, N!Socket
<1>5. [shown |-> 0, at |-> "none", got |-> 0] \in N!Bell
  BY RowsFinite, BellIs
<1>6. bell \in [Users -> N!Bell]
  BY Zenon, <1>5 DEF N!NoticesInit
<1> QED BY <1>1, <1>2, <1>3, <1>6 DEF Told, Written, Listeners, Browsers

\* An event starts a listener of its own.
LEMMA ToldEmit ==
    ASSUME Told, NEW receivers \in Seq(Items \cup Users), receivers # <<>>,
           NEW actor \in Users \cup {N!Nobody}, N!Emit(receivers, actor)
    PROVE  Told'
<1> DEFINE e == happened + 1
           listener == [todo |-> receivers, actor |-> actor, at |-> "create"]
<1>0. Written /\ Listeners /\ Counts /\ Browsers
  BY DEF Told
<1>1. listener \in N!Listener /\ listener.todo # <<>> /\ listener.at = "create"
  BY DEF N!Listener
<1>2. events' = N!With(events, e, listener) /\ happened' = e /\ UNCHANGED <<notices, socket, bell, cuts>>
  BY DEF N!Emit
<1>3. happened \in Nat /\ happened' \in 0 .. MaxEvents /\ e = happened + 1 /\ e \in Nat
  BY <1>0, WorkspaceAssumption DEF Counts, N!Emit
<1> HIDE DEF e, listener
<1>4. /\ DOMAIN events' = DOMAIN events \cup {e} /\ e \notin DOMAIN events
      /\ events'[e] = listener
      /\ \A f \in DOMAIN events : events'[f] = events[f]
  BY <1>0, <1>2, <1>3 DEF N!With, Listeners
<1>5. Written'
  BY <1>0, <1>2, <1>3 DEF Written, N!Row, N!Event
<1>6. Listeners'
  BY <1>0, <1>1, <1>2, <1>3, <1>4 DEF Listeners
<1>7. Counts' /\ Browsers'
  BY <1>0, <1>2, <1>3 DEF Counts, Browsers
<1>8. ASSUME NEW f \in DOMAIN events' PROVE Sent(f)'
  BY <1>1, <1>2, <1>4 DEF Told, Sent
<1> QED BY <1>5, <1>6, <1>7, <1>8 DEF Told

\* A listener writes the row it is going to send.
LEMMA ToldCreate ==
    ASSUME Told, NEW e \in DOMAIN events, N!CreateNotification(e)
    PROVE  Told'
<1> DEFINE to == Head(events[e].todo)
           row == <<e, to>>
           notice == [to |-> to, actor |-> events[e].actor, read |-> FALSE]
<1>0. Written /\ Listeners /\ Counts /\ Browsers
  BY DEF Told
<1>1. events[e] \in N!Listener /\ to \in Items \cup Users /\ e \in N!Event /\ e =< happened
  BY <1>0, HeadTailProperties, WorkspaceAssumption DEF Listeners, N!Listener, N!Event, Counts
<1>2. row \in N!Row /\ notice \in N!Notification /\ row[1] = e /\ row[2] = to
  BY <1>1 DEF N!Row, N!Notification, N!Listener
<1>3. notice.to = to /\ notice.actor = events[e].actor
  OBVIOUS
<1>4. /\ notices' = N!With(notices, row, notice)
      /\ events' = [events EXCEPT ![e].at = "send"]
      /\ UNCHANGED <<socket, bell, happened, cuts>>
  BY DEF N!CreateNotification
<1> HIDE DEF notice
<1>5. /\ DOMAIN notices' = DOMAIN notices \cup {row} /\ notices'[row] = notice
      /\ \A r \in DOMAIN notices \ {row} : notices'[r] = notices[r]
  BY <1>4 DEF N!With
<1>6. /\ DOMAIN events' = DOMAIN events
      /\ events'[e].todo = events[e].todo /\ events'[e].actor = events[e].actor /\ events'[e] \in N!Listener
      /\ \A f \in DOMAIN events \ {e} : events'[f] = events[f]
  BY <1>1, <1>4 DEF N!Listener
<1>7. Written'
  BY <1>0, <1>1, <1>2, <1>3, <1>4, <1>5 DEF Written
<1>8. Listeners'
  BY <1>0, <1>4, <1>6 DEF Listeners
<1>9. Counts' /\ Browsers'
  BY <1>0, <1>4 DEF Counts, Browsers
<1>10. Sent(e)'
  BY <1>3, <1>5, <1>6 DEF Sent
<1>11. ASSUME NEW f \in DOMAIN events, f # e PROVE Sent(f)'
  <2>1. Sent(f) /\ events'[f] = events[f]
    BY <1>6, <1>11 DEF Told
  <2>2. <<f, Head(events[f].todo)>> # row
    BY <1>11
  <2> QED BY <1>5, <2>1, <2>2 DEF Sent
<1> QED BY <1>6, <1>7, <1>8, <1>9, <1>10, <1>11 DEF Told

\* A listener fails, or has sent to one receiver and goes on with the next.
LEMMA ToldListener ==
    ASSUME Told, NEW e \in DOMAIN events, N!ListenerFails(e) \/ N!SendNotification(e), Counts', Browsers'
    PROVE  Told'
<1>0. Written /\ Listeners
  BY DEF Told
<1>1. UNCHANGED <<notices, happened>>
  BY DEF N!ListenerFails, N!SendNotification
<1>2. Written'
  BY <1>0, <1>1 DEF Written
<1>3. CASE events' = N!Without(events, e)
  <2>1. DOMAIN events' = DOMAIN events \ {e} /\ \A f \in DOMAIN events' : events'[f] = events[f]
    BY <1>3 DEF N!Without
  <2> QED BY <1>0, <1>1, <1>2, <2>1 DEF Told, Listeners, Sent
<1>4. CASE events' # N!Without(events, e)
  <2>1. /\ events' = [events EXCEPT ![e].todo = Tail(@), ![e].at = "create"]
        /\ Len(events[e].todo) # 1
    BY <1>4 DEF N!ListenerFails, N!SendNotification
  <2>2. events[e] \in N!Listener /\ events[e].todo \in Seq(Items \cup Users) /\ events[e].todo # <<>>
    BY <1>0 DEF Listeners, N!Listener
  <2>3. Tail(events[e].todo) \in Seq(Items \cup Users) /\ Tail(events[e].todo) # <<>>
    <3> DEFINE todo == events[e].todo
               rest == Tail(todo)
    <3>1. rest \in Seq(Items \cup Users) /\ Len(rest) = Len(todo) - 1
      BY <2>2, HeadTailProperties
    <3>2. Len(todo) \in Nat /\ Len(todo) # 1
      BY <2>1, <2>2, LenProperties
    <3> HIDE DEF rest
    <3>3. Len(rest) # 0
      BY <3>1, <3>2
    <3>4. rest # <<>>
      BY <3>3
    <3> QED BY <3>1, <3>4 DEF rest
  <2>4. /\ DOMAIN events' = DOMAIN events
        /\ events'[e] \in N!Listener /\ events'[e].todo # <<>> /\ events'[e].at = "create"
        /\ \A f \in DOMAIN events \ {e} : events'[f] = events[f]
    BY <2>1, <2>2, <2>3 DEF N!Listener
  <2>5. Listeners'
    BY <1>0, <1>1, <2>4 DEF Listeners
  <2>6. \A f \in DOMAIN events' : Sent(f)'
    BY <1>1, <2>4 DEF Told, Sent
  <2> QED BY <1>2, <2>5, <2>6 DEF Told
<1> QED BY <1>3, <1>4

\* A bell that asks, or is answered.
LEMMA BellsTyped ==
    ASSUME Browsers, Written
    PROVE  /\ \A us \in SUBSET Users : N!Asked(us) \in [Users -> N!Bell]
           /\ \A u \in Users : N!Unread(u) \in Numbers
<1>1. ASSUME NEW us \in SUBSET Users PROVE N!Asked(us) \in [Users -> N!Bell]
  <2>1. ASSUME NEW u \in Users PROVE [bell[u] EXCEPT !.at = "count", !.got = 0] \in N!Bell
    BY RowsFinite, BellIs DEF Browsers
  <2> QED BY <2>1 DEF Browsers, N!Asked
<1>2. ASSUME NEW u \in Users PROVE N!Unread(u) \in Numbers
  <2> DEFINE unread == {r \in DOMAIN notices : ~notices[r].read /\ N!Visible(u, notices[r])}
  <2>1. unread \in SUBSET N!Row
    BY DEF Written
  <2> HIDE DEF unread
  <2>2. Cardinality(unread) \in Numbers
    BY <2>1, RowsFinite
  <2> QED BY <2>2, SameCardinality, Zenon DEF N!Unread, unread
<1> QED BY <1>1, <1>2

\* What happens in a browser changes neither rows nor listeners.
LEMMA ToldBrowser ==
    ASSUME Told, AdminTypeOK, NEW u \in Users,
           N!Bells(u) \/ N!CountFails(u) \/ N!Disconnect(u) \/ N!Reconnect(u) \/ N!Reload(u)
    PROVE  Told'
<1>0. Written /\ Listeners /\ Counts /\ Browsers
  BY DEF Told
<1>1. UNCHANGED <<notices, events, happened>>
  BY DEF N!Bells, N!Poll, N!CountUnread, N!ShowCount, N!CountFails, N!Disconnect, N!Reconnect, N!Reload
<1>2. cuts' \in 0 .. MaxCuts
  BY <1>0, WorkspaceAssumption DEF Counts, N!Bells, N!Poll, N!CountUnread, N!ShowCount, N!CountFails, N!Disconnect,
     N!Reconnect, N!Reload
<1>3. 0 \in Numbers /\ N!Unread(u) \in Numbers
  BY <1>0, RowsFinite, BellsTyped
<1>4. bell[u] \in N!Bell /\ socket[u] \in N!Socket
  BY <1>0 DEF Browsers
<1>5. bell' \in [Users -> N!Bell]
  <2>1. CASE N!Poll(u)
    BY <1>0, <2>1, BellsTyped DEF N!Poll, N!Ask
  <2>2. CASE N!CountUnread(u)
    <3>1. [bell[u] EXCEPT !.at = "back", !.got = N!Unread(u)] \in N!Bell
      BY <1>3, <1>4, BellIs
    <3>2. bell' = [bell EXCEPT ![u] = [bell[u] EXCEPT !.at = "back", !.got = N!Unread(u)]]
      BY <2>2 DEF N!CountUnread
    <3> QED BY <1>0, <3>1, <3>2 DEF Browsers
  <2>3. CASE N!ShowCount(u)
    <3>1. [shown |-> bell[u].got, at |-> "none", got |-> 0] \in N!Bell
      BY <1>3, <1>4, BellIs
    <3> QED BY <1>0, <2>3, <3>1 DEF Browsers, N!ShowCount
  <2>4. CASE N!CountFails(u)
    <3>1. [bell[u] EXCEPT !.at = "none", !.got = 0] \in N!Bell
      BY <1>3, <1>4, BellIs
    <3>2. bell' = [bell EXCEPT ![u] = [bell[u] EXCEPT !.at = "none", !.got = 0]]
      BY <2>4 DEF N!CountFails
    <3> QED BY <1>0, <3>1, <3>2 DEF Browsers
  <2>5. CASE N!Reload(u)
    <3>1. [shown |-> 0, at |-> "count", got |-> 0] \in N!Bell
      BY <1>3, BellIs
    <3> QED BY <1>0, <2>5, <3>1 DEF Browsers, N!Reload
  <2>6. CASE N!Disconnect(u) \/ N!Reconnect(u)
    BY <1>0, <2>6 DEF Browsers, N!Disconnect, N!Reconnect
  <2> QED BY <2>1, <2>2, <2>3, <2>4, <2>5, <2>6 DEF N!Bells
<1>6. socket' \in [Users -> N!Socket]
  <2>1. CASE N!Reload(u)
    <3>1. PICK rooms \in {socket[u].rooms, Roles[u]} : socket' = [socket EXCEPT ![u] = [is |-> "on", rooms |-> rooms]]
      BY <2>1 DEF N!Reload
    <3>2. rooms \in SUBSET Items
      BY <1>4, RolesTyped DEF N!Socket
    <3>3. [is |-> "on", rooms |-> rooms] \in N!Socket
      BY <3>2 DEF N!Socket
    <3> QED BY <1>0, <3>1, <3>3 DEF Browsers
  <2>2. CASE N!Disconnect(u) \/ N!Reconnect(u)
    <3>1. PICK is \in {"off", "on", "dead"} : socket' = [socket EXCEPT ![u].is = is]
      BY <2>2 DEF N!Disconnect, N!Reconnect
    <3>2. [socket[u] EXCEPT !.is = is] \in N!Socket
      BY <1>4 DEF N!Socket
    <3> QED BY <1>0, <3>1, <3>2 DEF Browsers
  <2>3. CASE N!Bells(u) \/ N!CountFails(u)
    BY <1>0, <2>3 DEF Browsers, N!Bells, N!Poll, N!CountUnread, N!ShowCount, N!CountFails
  <2> QED BY <2>1, <2>2, <2>3
<1>7. Written' /\ Listeners' /\ \A e \in DOMAIN events' : Sent(e)'
  BY <1>1 DEF Told, Written, Listeners, Sent
<1> QED BY <1>0, <1>1, <1>2, <1>5, <1>6, <1>7 DEF Told, Counts, Browsers

\* Reading a row changes nothing of it but that it is read.
LEMMA ToldRead ==
    ASSUME Told, UNCHANGED <<events, happened, cuts, socket>>, DOMAIN notices' = DOMAIN notices,
           bell' = bell \/ \E u \in Users : bell' = N!Asked({u}),
           \A r \in DOMAIN notices : \/ notices'[r] = notices[r]
                                     \/ \E read \in BOOLEAN : notices'[r] = [notices[r] EXCEPT !.read = read]
    PROVE  Told'
<1>0. Written /\ Listeners /\ Counts /\ Browsers
  BY DEF Told
<1>1. ASSUME NEW r \in DOMAIN notices
      PROVE  notices'[r] \in N!Notification /\ notices'[r].to = notices[r].to /\ notices'[r].actor = notices[r].actor
  BY <1>0 DEF Written, N!Notification
<1>2. Written'
  BY <1>0, <1>1 DEF Written
<1>3. Browsers'
  BY <1>0, BellsTyped DEF Browsers
<1>4. \A e \in DOMAIN events' : Sent(e)'
  BY <1>1 DEF Told, Sent
<1> QED BY <1>0, <1>2, <1>3, <1>4 DEF Told, Listeners, Counts

\* Every step of the notifications.
LEMMA ToldNotices ==
    ASSUME Told, AdminTypeOK, N!NoticesNext
    PROVE  Told'
<1>0. Written /\ Listeners /\ Counts /\ Browsers
  BY DEF Told
<1>1. ASSUME NEW e \in DOMAIN events, N!CreateNotification(e) PROVE Told'
  BY <1>1, ToldCreate
<1>2. ASSUME NEW e \in DOMAIN events, N!ListenerFails(e) \/ N!SendNotification(e) PROVE Told'
  <2>1. Counts'
    BY <1>0, <1>2, WorkspaceAssumption DEF Counts, N!ListenerFails, N!SendNotification
  <2>2. N!InRoom(e) \in SUBSET Users
    BY DEF N!InRoom
  <2>3. Browsers'
    BY <1>0, <1>2, <2>2, BellsTyped DEF Browsers, N!ListenerFails, N!SendNotification
  <2> QED BY <1>2, <2>1, <2>3, ToldListener
<1>3. ASSUME NEW u \in Users, N!MarkAllAsRead(u) PROVE Told'
  <2>1. \A r \in DOMAIN notices : (notices[r].read \/ N!Visible(u, notices[r])) \in BOOLEAN
    BY <1>0 DEF Written, N!Notification
  <2> QED BY <1>3, <2>1, ToldRead DEF N!MarkAllAsRead
<1>4. ASSUME NEW u \in Users, N!UserInvited(u) PROVE Told'
  <2>1. RoleOrder \in Seq(Items \cup Users)
    BY WorkspaceAssumption, SeqMonotonic
  <2> QED BY <1>4, <2>1, ToldEmit, WorkspaceAssumption DEF N!UserInvited
<1>5. ASSUME NEW u \in Users, NEW r \in DOMAIN notices, N!MarkAsRead(u, r) PROVE Told'
  BY <1>5, ToldRead DEF N!MarkAsRead
<1>6. ASSUME NEW r \in DOMAIN notices, N!ReadBySomebody(r) PROVE Told'
  BY <1>6, ToldRead DEF N!ReadBySomebody
<1>7. CASE N!UserDeleted
  <2>1. RoleOrder \in Seq(Items \cup Users)
    BY WorkspaceAssumption, SeqMonotonic
  <2> QED BY <1>7, <2>1, ToldEmit, WorkspaceAssumption DEF N!UserDeleted
<1> QED BY <1>1, <1>2, <1>3, <1>4, <1>5, <1>6, <1>7, ToldBrowser DEF N!NoticesNext

\* Every step of the two.
LEMMA ToldStep ==
    ASSUME Told, AdminTypeOK, [WorkspaceNext]_vars
    PROVE  Told'
<1>1. CASE UNCHANGED told
  BY <1>1 DEF told, Told, Written, Listeners, Counts, Browsers, Sent
<1>2. ASSUME NEW p \in Pages, SaveRoles(p) PROVE Told'
  <2>1. RoleOrder \in Seq(Items \cup Users) /\ <<Subject>> \in Seq(Items \cup Users)
    BY WorkspaceAssumption, SeqMonotonic
  <2>2. RoleOrder \o <<Subject>> \in Seq(Items \cup Users) /\ RoleOrder \o <<Subject>> # <<>>
    BY <2>1, ConcatProperties, ConcatEqualIffEmpty, WorkspaceAssumption
  <2> QED BY <1>2, <2>2, ToldEmit DEF SaveRoles, N!UserRolesUpdated
<1> QED BY <1>1, <1>2, ToldNotices DEF WorkspaceNext, TablesStep, BellsStep, ApiOnly, vars

-----------------------------------------------------------------------------
(* The promises *)

\* The variables of both parts keep their types: every row comes from an event.
THEOREM WorkspaceTypesCorrect == WorkspaceSpec => []TypeOK
<1> DEFINE Focus == focus \in {"tables", "bells"}
<1>1. WorkspaceInit => AdminTypeOK /\ Shape /\ Told /\ Focus
  BY InitTyped, ToldInit DEF WorkspaceInit
<1>2. AdminTypeOK /\ Shape /\ Told /\ Focus /\ [WorkspaceNext]_vars => (AdminTypeOK /\ Shape /\ Told /\ Focus)'
  <2>1. [WorkspaceNext]_vars => [AdminNext]_admin
    BY ApiOnlyStep DEF WorkspaceNext, TablesStep, BellsStep, vars
  <2> QED BY <2>1, TypedStep, ToldStep DEF WorkspaceNext, vars
<1>3. AdminTypeOK /\ Told /\ Focus => TypeOK
  BY DEF Told, Written, Listeners, Counts, Browsers, TypeOK, N!NoticesTypeOK
<1> QED BY <1>1, <1>2, <1>3, PTL DEF WorkspaceSpec

\* A notification goes to nobody who could not list it, unless his roles have
\* changed since his socket was connected: what is sent has its row, and the row
\* is for the receiver and by the actor of the event.
THEOREM NobodyElseIsTold == WorkspaceSpec => []TellsWhoCanList
<1>1. WorkspaceInit => AdminTypeOK /\ Shape /\ Told
  BY InitTyped, ToldInit DEF WorkspaceInit
<1>2. AdminTypeOK /\ Shape /\ Told /\ [WorkspaceNext]_vars => (AdminTypeOK /\ Shape /\ Told)'
  <2>1. [WorkspaceNext]_vars => [AdminNext]_admin
    BY ApiOnlyStep DEF WorkspaceNext, TablesStep, BellsStep, vars
  <2> QED BY <2>1, TypedStep, ToldStep
<1>3. Told => TellsWhoCanList
  <2> SUFFICES ASSUME Told, NEW e \in DOMAIN events, events[e].at = "send", NEW u \in N!InRoom(e)
               PROVE  LET row == <<e, Head(events[e].todo)>>
                      IN row \in DOMAIN notices /\ (N!Visible(u, notices[row]) \/ socket[u].rooms # Roles[u])
    BY DEF TellsWhoCanList, N!TellsWhoCanList
  <2> DEFINE row == <<e, Head(events[e].todo)>>
  <2>1. row \in DOMAIN notices /\ notices[row].actor = events[e].actor /\ notices[row].to = row[2]
    BY DEF Told, Sent, Written
  <2>2. row[2] = Head(events[e].todo)
    OBVIOUS
  <2> HIDE DEF row
  <2> QED BY <2>1, <2>2 DEF N!InRoom, N!Visible, row
<1> QED BY <1>1, <1>2, <1>3, PTL DEF WorkspaceSpec
=============================================================================
