---------------------------- MODULE AdminTables ----------------------------
(***************************************************************************)
(* The administration pages (users, roles, permissions, media): a table    *)
(* read through the server's response cache, the requests that change it,  *)
(* and, for media, the object store behind it.  A request is cut at its    *)
(* awaits; the reply of a read goes to the cache on its own, while it is   *)
(* being answered.                                                         *)
(*                                                                         *)
(* The users and the roles table are one row and what it is granted (roles *)
(* of a user, permissions of a user or a role); the permissions and the    *)
(* media table are their rows.  Both are a set of Items.  Names and other  *)
(* columns, searching, sorting and paging are left out.                    *)
(***************************************************************************)
EXTENDS Integers, FiniteSets

CONSTANTS
    Pages,        \* browsers of administrators, one request each at a time
    Items,
    MaxWrites,    \* bound: requests that change the table
    MaxReads,     \* bound: reads of the table, but for those that follow a change
    MaxBroken,    \* bound: requests and reads that fail for no reason of theirs
    None

ASSUME AdminTablesAssumption ==
    MaxWrites \in Nat /\ MaxReads \in Nat /\ MaxBroken \in Nat /\ None \notin Items \cup Pages

VARIABLES
    table,     \* which of the tables it is
    db,        \* the row is not removed; its grants, or the rows of the table
    taken,     \* rows the table ever had, which keep their name or number
    depot,     \* the object store
    cached,    \* the reply in the response cache
    pend,      \* replies on their way into it
    page,      \* what a browser shows, and its read
    mut,       \* its request
    unswept,   \* history: a write was not followed by clearKeys
    torn,      \* history: files with a broken request, or removed while uploaded
    last,      \* history: the page whose write is the latest
    writes, reads, broken

admin == <<table, db, taken, depot, cached, pend, page, mut, unswept, torn, last, writes, reads, broken>>

-----------------------------------------------------------------------------
(* Data *)

Granting == {"users", "roles"}
Tables == Granting \cup {"permissions", "media"}

Rows == SUBSET Items

\* A reply; it is late if keys were cleared after it was read.
Reply == [has : Rows \cup {None}, late : BOOLEAN]

Page == [shown : Reply \cup {None}, at : {"none", "key", "query", "back"}, got : Reply \cup {None}]

\* The item it is about, the await it is stopped at, its copy of the row, and
\* whether that was out of date or has become so.
Mutation == [op : {"none", "sync", "attach", "detach", "edit", "create", "upload", "avatar", "remove"},
             at : {"none", "put", "find", "save", "url", "delete", "clear", "answer"},
             item : Items \cup {None}, copy : Rows \cup {None}, old : BOOLEAN]

\* Nothing is not a list, and not a reply.
ASSUME NoneAssumption == (\A has \in Rows : has # None) /\ (\A reply \in Reply : reply # None)

NoRequest == [op |-> "none", at |-> "none", item |-> None, copy |-> None, old |-> FALSE]

\* What a query finds.
Stored == IF db.live THEN db.has ELSE None

Unopened == [shown |-> None, at |-> "none", got |-> None]

Init ==
    /\ table \in Tables
    /\ \E has \in (IF table \in Granting THEN {{i} : i \in Items} ELSE {{}}) : db = [live |-> TRUE, has |-> has]
    /\ taken = {} /\ depot = {}
    /\ cached = None /\ pend = {}
    /\ page = [p \in Pages |-> Unopened]
    /\ mut = [p \in Pages |-> NoRequest]
    /\ unswept = FALSE /\ torn = {} /\ last = None
    /\ writes = 0 /\ reads = 0 /\ broken = 0

store == <<db, taken, depot>>
history == <<unswept, torn, last>>
bounds == <<writes, reads, broken>>

-----------------------------------------------------------------------------
(* Reading: CacheInterceptor, react-query *)

Fetch(p) == [page EXCEPT ![p].at = "key", ![p].got = None]

\* The page is opened, its window gets the focus.
Refetch(p) ==
    /\ page[p].at = "none" /\ reads < MaxReads
    /\ page' = Fetch(p) /\ reads' = reads + 1
    /\ UNCHANGED <<table, store, cached, pend, mut, history, writes, broken>>

\* A slip to test with: that nothing is stored is not noticed.
LookUpUnchecked(p) ==
    /\ page[p].at = "key"
    /\ page' = [page EXCEPT ![p].at = "back", ![p].got = cached]
    /\ UNCHANGED <<table, store, cached, pend, mut, history, bounds>>

LookUp(p) ==
    /\ page[p].at = "key"
    /\ page' = IF cached # None
               THEN [page EXCEPT ![p].at = "back", ![p].got = cached]
               ELSE [page EXCEPT ![p].at = "query"]
    /\ UNCHANGED <<table, store, cached, pend, mut, history, bounds>>

Query(p) ==
    /\ page[p].at = "query"
    /\ LET reply == [has |-> Stored, late |-> FALSE]
       IN page' = [page EXCEPT ![p].at = "back", ![p].got = reply] /\ pend' = pend \cup {reply}
    /\ UNCHANGED <<table, store, cached, mut, history, bounds>>

Cache(reply) ==
    /\ reply \in pend
    /\ pend' = pend \ {reply} /\ cached' = reply
    /\ UNCHANGED <<table, store, page, mut, history, bounds>>

Show(p) ==
    /\ page[p].at = "back"
    /\ page' = [page EXCEPT ![p] = [shown |-> page[p].got, at |-> "none", got |-> None]]
    /\ UNCHANGED <<table, store, cached, pend, mut, history, bounds>>

\* The page keeps showing what it did.
FetchFails(p) ==
    /\ page[p].at # "none"
    /\ broken < MaxBroken /\ broken' = broken + 1
    /\ page' = [page EXCEPT ![p].at = "none", ![p].got = None]
    /\ last' = IF last = p THEN None ELSE last
    /\ UNCHANGED <<table, store, cached, pend, mut, unswept, torn, writes, reads>>

CacheExpires ==
    /\ cached # None
    /\ cached' = None
    /\ UNCHANGED <<table, store, pend, page, mut, history, bounds>>

-----------------------------------------------------------------------------
(* Asking for a change *)

Ask(p, op, at, item) ==
    /\ mut[p] = NoRequest /\ writes < MaxWrites
    /\ mut' = [mut EXCEPT ![p] = [NoRequest EXCEPT !.op = op, !.at = at, !.item = item]]
    /\ writes' = writes + 1
    /\ UNCHANGED <<table, store, cached, pend, page, history, reads, broken>>

\* The row is in the list the page shows.
Listed(p, item) ==
    /\ page[p].shown # None /\ page[p].shown.has # None
    /\ table \in Granting \/ item \in page[p].shown.has

Ticked(seed, item) == IF item \in seed THEN seed \ {item} ELSE seed \cup {item}

\* The dialog starts from the list the page shows, and sends all of it.
SaveSelection(p, item) ==
    /\ Listed(p, item)
    /\ mut[p] = NoRequest /\ writes < MaxWrites
    /\ LET seed == page[p].shown.has
       IN mut' = [mut EXCEPT ![p] = [op |-> "sync", at |-> "find", item |-> item,
                                     copy |-> Ticked(seed, item), old |-> seed # db.has]]
    /\ writes' = writes + 1
    /\ UNCHANGED <<table, store, cached, pend, page, history, reads, broken>>

EditRow(p, item) == Listed(p, item) /\ Ask(p, "edit", "find", item)

\* Once the dialog that asks whether he is sure is confirmed.
RemoveRow(p, item) == Listed(p, item) /\ Ask(p, "remove", "find", item)

UsersPage(p, item) ==
    table = "users" /\ (SaveSelection(p, item) \/ EditRow(p, item) \/ RemoveRow(p, item))

RolesPage(p, item) ==
    table = "roles" /\ (SaveSelection(p, item) \/ EditRow(p, item) \/ RemoveRow(p, item))

CreatePermission(p, item) == Ask(p, "create", "save", item)

PermissionsPage(p, item) ==
    /\ table = "permissions"
    /\ CreatePermission(p, item) \/ EditRow(p, item) \/ RemoveRow(p, item)

MediaPage(p, item) == table = "media" /\ RemoveRow(p, item)

\* Endpoints that no page calls.
Attach(p, item) == table \in Granting /\ Ask(p, "attach", "find", item)
Detach(p, item) == table \in Granting /\ Ask(p, "detach", "find", item)

\* POST /media/upload, or the avatar of a profile: a new file, and no media page
\* that reads again afterwards.
Upload(p, op, item) ==
    /\ table = "media" /\ item \notin taken \cup {mut[q].item : q \in Pages}
    /\ Ask(p, op, "put", item)

-----------------------------------------------------------------------------
(* Changing it: the services *)

At(p, ops, at) == mut[p].op \in ops /\ mut[p].at = at

\* The others' copies are out of date now.
Moved(p, at) ==
    [q \in Pages |-> IF q = p THEN [mut[p] EXCEPT !.at = at]
                     ELSE [mut[q] EXCEPT !.old = @ \/ (mut[q].copy # None /\ db' # db)]]

\* The answer, good or bad: only a good one makes the page read again.
Failed(p) == mut' = [mut EXCEPT ![p] = NoRequest]

FindRow(p) ==
    /\ mut[p].at = "find"
    /\ LET found == IF table \in Granting THEN db.live ELSE mut[p].item \in db.has
           copy == IF mut[p].op = "sync" THEN mut[p].copy ELSE db.has
       IN IF found THEN mut' = [mut EXCEPT ![p].at = "save", ![p].copy = copy] ELSE Failed(p)
    /\ UNCHANGED <<table, store, cached, pend, page, history, bounds>>

\* A slip to test with: the given item replaces those there are.
EditedReplacing(m) == IF m.op = "attach" THEN {m.item} ELSE m.copy

\* What a request makes of its copy.
Edited(m) ==
    CASE m.op = "attach" -> m.copy \cup {m.item}
      [] m.op = "detach" -> m.copy \ {m.item}
      [] OTHER -> m.copy

\* The row after save(entity), softRemove: the relations that were loaded become
\* what the copy has; updating a user loads none.  A removed row comes back.
Saved(p) ==
    LET m == mut[p] IN
    CASE m.op = "remove" /\ table \in Granting -> [db EXCEPT !.live = FALSE]
      [] m.op = "remove" /\ table \notin Granting -> [db EXCEPT !.has = @ \ {m.item}]
      [] m.op = "edit" /\ table = "users" -> [db EXCEPT !.live = TRUE]
      [] m.op # "remove" /\ table \notin Granting -> [db EXCEPT !.has = @ \cup {m.item}]
      [] OTHER -> [live |-> TRUE, has |-> Edited(m)]

NextStop(p) ==
    CASE mut[p].op \in {"upload", "avatar"} -> "url"
      [] mut[p].op = "remove" /\ table = "media" -> "delete"
      [] OTHER -> "clear"

\* A permission's name is unique, removed ones included.
SaveRow(p) ==
    /\ mut[p].at = "save"
    /\ IF mut[p].op = "create" /\ mut[p].item \in taken
       THEN Failed(p) /\ UNCHANGED <<db, taken, last>>
       ELSE /\ db' = Saved(p)
            /\ taken' = taken \cup (IF mut[p].op = "create" THEN {mut[p].item} ELSE {})
            /\ mut' = Moved(p, NextStop(p))
            /\ last' = p
    /\ UNCHANGED <<table, depot, cached, pend, page, unswept, torn, bounds>>

-----------------------------------------------------------------------------
(* Media: the object store *)

PutObject(p) ==
    /\ mut[p].at = "put"
    /\ depot' = depot \cup {mut[p].item} /\ taken' = taken \cup {mut[p].item}
    /\ mut' = [mut EXCEPT ![p].at = "save"]
    /\ UNCHANGED <<table, db, cached, pend, page, history, bounds>>

\* The row is saved again, with its address; an avatar's request goes on to clear
\* the keys of the users.
SaveUrl(p) ==
    /\ mut[p].at = "url"
    /\ torn' = IF mut[p].item \in db.has THEN torn ELSE torn \cup {mut[p].item}
    /\ db' = [db EXCEPT !.has = @ \cup {mut[p].item}]
    /\ last' = p
    /\ mut' = Moved(p, IF mut[p].op = "avatar" THEN "answer" ELSE "clear")
    /\ unswept' = (unswept \/ mut[p].op = "avatar")
    /\ UNCHANGED <<table, taken, depot, cached, pend, page, bounds>>

\* A slip to test with: the object stays.
DeleteForgotten(p) ==
    /\ mut[p].at = "delete"
    /\ mut' = [mut EXCEPT ![p].at = "clear"]
    /\ UNCHANGED <<table, store, cached, pend, page, history, bounds>>

\* An object that is not there is no error.
DeleteObject(p) ==
    /\ mut[p].at = "delete"
    /\ depot' = depot \ {mut[p].item}
    /\ mut' = [mut EXCEPT ![p].at = "clear"]
    /\ UNCHANGED <<table, db, taken, cached, pend, page, history, bounds>>

-----------------------------------------------------------------------------
(* Afterwards *)

\* A slip to test with: another table's keys are cleared.
ClearNothing(p) ==
    /\ mut[p].at = "clear"
    /\ unswept' = FALSE
    /\ mut' = [mut EXCEPT ![p].at = "answer"]
    /\ UNCHANGED <<table, store, cached, pend, page, torn, last, bounds>>

ClearKeys(p) ==
    /\ mut[p].at = "clear"
    /\ cached' = None
    /\ pend' = {[reply EXCEPT !.late = TRUE] : reply \in pend}
    /\ unswept' = FALSE
    /\ mut' = [mut EXCEPT ![p].at = "answer"]
    /\ UNCHANGED <<table, store, page, torn, last, bounds>>

\* A slip to test with: a read that is under way goes on.
AnswerNoCancel(p) ==
    /\ mut[p].at = "answer"
    /\ Failed(p)
    /\ page' = IF page[p].at = "none" THEN Fetch(p) ELSE page
    /\ UNCHANGED <<table, store, cached, pend, history, bounds>>

\* A page's own request makes it read again, from the start; the others come from
\* no page of the table.
Answer(p) ==
    /\ mut[p].at = "answer"
    /\ Failed(p)
    /\ IF mut[p].op \in {"attach", "detach", "upload", "avatar"}
       THEN UNCHANGED page /\ last' = IF last = p THEN None ELSE last
       ELSE page' = Fetch(p) /\ UNCHANGED last
    /\ UNCHANGED <<table, store, cached, pend, unswept, torn, bounds>>

\* The request fails at any of its awaits: a query, the object store, the
\* network, the process.
Break(p) ==
    /\ mut[p].at # "none"
    /\ broken < MaxBroken /\ broken' = broken + 1
    /\ Failed(p)
    /\ unswept' = (unswept \/ mut[p].at \in {"url", "delete", "clear"})
    /\ torn' = IF table = "media" /\ mut[p].at # "find" THEN torn \cup {mut[p].item} ELSE torn
    /\ last' = IF last = p THEN None ELSE last
    /\ UNCHANGED <<table, store, cached, pend, page, writes, reads>>

\* Requests about another table change this one, and clear only their own keys:
\* a role or a permission that is removed is granted no longer.
RevokedElsewhere(item) ==
    /\ table \in Granting /\ item \in db.has
    /\ writes < MaxWrites /\ writes' = writes + 1
    /\ db' = [db EXCEPT !.has = @ \ {item}]
    /\ mut' = [q \in Pages |-> [mut[q] EXCEPT !.old = @ \/ mut[q].copy # None]]
    /\ unswept' = TRUE /\ last' = None
    /\ UNCHANGED <<table, taken, depot, cached, pend, page, torn, reads, broken>>

Reading(p) == Refetch(p) \/ LookUp(p) \/ Query(p) \/ Show(p) \/ FetchFails(p)

Asking(p, item) ==
    \/ UsersPage(p, item) \/ RolesPage(p, item) \/ PermissionsPage(p, item) \/ MediaPage(p, item)
    \/ Attach(p, item) \/ Detach(p, item)
    \/ Upload(p, "upload", item) \/ Upload(p, "avatar", item)

Serving(p) ==
    \/ FindRow(p) \/ SaveRow(p) \/ PutObject(p) \/ SaveUrl(p) \/ DeleteObject(p)
    \/ ClearKeys(p) \/ Answer(p) \/ Break(p)

AdminNext ==
    \/ \E p \in Pages :
         \/ Reading(p) \/ Serving(p)
         \/ \E item \in Items : Asking(p, item)
    \/ \E reply \in pend : Cache(reply)
    \/ CacheExpires
    \/ \E item \in Items : RevokedElsewhere(item)

AdminSpec == Init /\ [][AdminNext]_admin

-----------------------------------------------------------------------------
(* Properties *)

\* The variables keep their types; a reply waits to be cached or shown only if
\* there is one, and only media have objects.
AdminTypeOK ==
    /\ table \in Tables
    /\ db \in [live : BOOLEAN, has : Rows]
    /\ taken \in Rows /\ depot \in Rows /\ torn \in Rows
    /\ cached \in Reply \cup {None} /\ pend \subseteq Reply
    /\ page \in [Pages -> Page] /\ mut \in [Pages -> Mutation]
    /\ unswept \in BOOLEAN /\ last \in Pages \cup {None}
    /\ writes \in 0 .. MaxWrites /\ reads \in 0 .. MaxReads /\ broken \in 0 .. MaxBroken
    /\ \A p \in Pages : page[p].at = "back" <=> page[p].got # None
    /\ table # "media" => depot = {}

\* The response cache holds an old list only if a clearKeys is still to come, if
\* a write was never followed by one (it broke, or was about another table), or
\* if the list was put there after the clearKeys although read before.
CacheFresh ==
    cached # None /\ cached.has # Stored
      => cached.late \/ unswept \/ \E p \in Pages : mut[p].at \in {"url", "delete", "clear"}

\* After a change of its own has come back and its list with it, and nobody has
\* written since, a page shows the change, unless its list is one of the late.
OwnWriteShown ==
    \A p \in Pages :
        last = p /\ mut[p] = NoRequest /\ page[p].at = "none"
          => page[p].shown # None /\ (page[p].shown.late \/ page[p].shown.has = Stored)

\* A request about one grant (a tick in a dialog, attach, detach) or about none
\* (an edit of the row) changes another one only if the list it started from was
\* out of date, or was overtaken by another request.
OnlyOwnItem ==
    [][\A p \in Pages :
         mut[p].at = "save" /\ mut'[p].at = "clear" /\ ~mut[p].old /\ table \in Granting
           => \A i \in Items : i # mut[p].item \/ mut[p].op = "edit" => (i \in db'.has <=> i \in db.has)]_admin

\* A row of the media table and its object are there together, once the requests
\* about it have ended: unless one of them broke, or it was removed before its
\* upload had ended.
StoreMatches ==
    table = "media" =>
      \A i \in Items \ torn :
        (\A p \in Pages : mut[p].item # i) => (i \in db.has <=> i \in depot)
=============================================================================
