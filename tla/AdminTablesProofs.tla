------------------------- MODULE AdminTablesProofs -------------------------
(***************************************************************************)
(* Proofs about the administration tables, for any number of pages, items  *)
(* and requests: the types, that the response cache holds an old list only *)
(* for a reason, that a request about one grant leaves the others be, that *)
(* a page shows its own change, and that rows and objects come in pairs.   *)
(***************************************************************************)
EXTENDS AdminTables, TLAPS

-----------------------------------------------------------------------------
(* The inductive invariant *)

\* What a request holds at the await it is stopped at.
Shape ==
    \A p \in Pages :
        /\ mut[p].at # "none" => mut[p].item # None
        /\ mut[p].at = "put" => table = "media"
        /\ mut[p].op = "sync" => mut[p].copy # None
        /\ mut[p].at = "save" /\ table \in Granting => mut[p].copy # None

\* The keys of the table are still to be cleared, or were not cleared after a write.
Overdue == unswept \/ \E p \in Pages : mut[p].at \in {"url", "delete", "clear"}

\* CacheFresh, and the same of the replies on their way to the cache.
Recent ==
    \A reply \in Reply :
        (reply \in pend \/ reply = cached) /\ ~reply.late /\ reply.has # Stored => Overdue

\* The copy is the row's list, but for the item the request is about.
Agrees(p) == \A i \in Items : i # mut[p].item \/ mut[p].op # "sync" => (i \in mut[p].copy <=> i \in db.has)

UpToDate ==
    \A p \in Pages :
        table \in Granting /\ ~mut[p].old /\ (mut[p].at = "save" \/ (mut[p].op = "sync" /\ mut[p].at = "find"))
          => Agrees(p)

-----------------------------------------------------------------------------
(* The ways to ask for a change: a dialog's list, or a request about one item *)

Opened(p, item) ==
    \/ \E op \in {"edit", "remove", "attach", "detach"} : Ask(p, op, "find", item)
    \/ table = "permissions" /\ Ask(p, "create", "save", item)
    \/ table = "media" /\ \E op \in {"upload", "avatar"} : Ask(p, op, "put", item)

\* Every request an administrator can make is one of the two.
LEMMA AskingCases ==
    ASSUME NEW p \in Pages, NEW item \in Items, Asking(p, item)
    PROVE  (SaveSelection(p, item) /\ table \in Granting) \/ Opened(p, item)
<1>1. EditRow(p, item) \/ RemoveRow(p, item) => Opened(p, item)
  BY DEF EditRow, RemoveRow, Opened
<1>2. UsersPage(p, item) \/ RolesPage(p, item)
        => (SaveSelection(p, item) /\ table \in Granting) \/ EditRow(p, item) \/ RemoveRow(p, item)
  BY DEF UsersPage, RolesPage, Granting
<1>3. PermissionsPage(p, item) => Opened(p, item)
  BY <1>1 DEF PermissionsPage, CreatePermission, Opened
<1>4. MediaPage(p, item) => Opened(p, item)
  BY <1>1 DEF MediaPage
<1>5. Attach(p, item) \/ Detach(p, item) => Opened(p, item)
  BY DEF Attach, Detach, Opened
<1>6. Upload(p, "upload", item) \/ Upload(p, "avatar", item) => Opened(p, item)
  BY DEF Upload, Opened
<1> QED BY <1>1, <1>2, <1>3, <1>4, <1>5, <1>6 DEF Asking

-----------------------------------------------------------------------------
(* Types *)

\* The initial states are well-typed.
LEMMA InitTyped == Init => AdminTypeOK /\ Shape
<1> SUFFICES ASSUME Init PROVE AdminTypeOK /\ Shape
  OBVIOUS
<1>1. page \in [Pages -> Page] /\ \A p \in Pages : page[p].at = "back" <=> page[p].got # None
  BY DEF Init, Page, Unopened
<1>2. mut \in [Pages -> Mutation] /\ Shape
  BY DEF Init, Mutation, NoRequest, Shape
<1>3. db \in [live : BOOLEAN, has : Rows]
  BY DEF Init, Rows
<1>4. writes \in 0 .. MaxWrites /\ reads \in 0 .. MaxReads /\ broken \in 0 .. MaxBroken
  BY AdminTablesAssumption DEF Init
<1> QED BY <1>1, <1>2, <1>3, <1>4 DEF Init, AdminTypeOK, Rows

\* Every request that is made is well-typed.
LEMMA TypedAsking ==
    ASSUME AdminTypeOK, Shape, NEW p \in Pages, NEW item \in Items, Asking(p, item)
    PROVE  AdminTypeOK' /\ Shape'
<1>1. CASE SaveSelection(p, item) /\ table \in Granting
  <2>1. page[p].shown.has \in Rows
    BY <1>1 DEF SaveSelection, Listed, AdminTypeOK, Page, Reply
  <2>2. Ticked(page[p].shown.has, item) \in Rows
    BY <2>1 DEF Ticked, Rows
  <2>3. mut' \in [Pages -> Mutation]
    BY <1>1, <2>2 DEF SaveSelection, AdminTypeOK, Mutation
  <2>4. Shape'
    BY <1>1, <2>2, AdminTablesAssumption, NoneAssumption DEF SaveSelection, AdminTypeOK, Mutation, Shape
  <2>5. writes' \in 0 .. MaxWrites
    BY <1>1, AdminTablesAssumption DEF SaveSelection, AdminTypeOK
  <2> QED BY <1>1, <2>3, <2>4, <2>5 DEF SaveSelection, AdminTypeOK, store, history
<1>2. ASSUME NEW op \in {"edit", "remove", "attach", "detach", "create", "upload", "avatar"},
             NEW at \in {"find", "save", "put"}, Ask(p, op, at, item),
             at = "save" => table = "permissions", at = "put" => table = "media"
      PROVE  AdminTypeOK' /\ Shape'
  <2>1. mut' \in [Pages -> Mutation]
    BY <1>2 DEF Ask, AdminTypeOK, NoRequest, Mutation
  <2>2. Shape'
    BY <1>2, AdminTablesAssumption DEF Ask, AdminTypeOK, NoRequest, Mutation, Shape, Granting
  <2>3. writes' \in 0 .. MaxWrites
    BY <1>2, AdminTablesAssumption DEF Ask, AdminTypeOK
  <2> QED BY <1>2, <2>1, <2>2, <2>3 DEF AdminTypeOK, Ask, store, history
<1>3. CASE Opened(p, item)
  BY <1>2, <1>3 DEF Opened
<1> QED BY <1>1, <1>3, AskingCases

\* A read keeps the types.
LEMMA TypedReading ==
    ASSUME AdminTypeOK, Shape, NEW p \in Pages, Reading(p)
    PROVE  AdminTypeOK' /\ Shape'
<1>1. CASE Refetch(p)
  <2>1. page' \in [Pages -> Page] /\ \A q \in Pages : page'[q].at = "back" <=> page'[q].got # None
    BY ZenonT(60), <1>1 DEF Refetch, Fetch, AdminTypeOK, Page
  <2>2. reads' \in 0 .. MaxReads
    BY <1>1, AdminTablesAssumption DEF Refetch, AdminTypeOK
  <2> QED BY <1>1, <2>1, <2>2 DEF Refetch, AdminTypeOK, Shape, store, history
<1>2. CASE LookUp(p)
  <2>1. page' \in [Pages -> Page]
    BY <1>2 DEF LookUp, AdminTypeOK, Page
  <2>2. \A q \in Pages : page'[q].at = "back" <=> page'[q].got # None
    BY <1>2 DEF LookUp, AdminTypeOK, Page
  <2>3. Shape'
    BY <1>2 DEF LookUp, Shape
  <2> QED BY <1>2, <2>1, <2>2, <2>3 DEF LookUp, AdminTypeOK, store, history, bounds
<1>3. CASE Query(p)
  <2> DEFINE reply == [has |-> Stored, late |-> FALSE]
  <2>1. reply \in Reply
    BY DEF AdminTypeOK, Stored, Reply
  <2> HIDE DEF reply
  <2>2. page' = [page EXCEPT ![p].at = "back", ![p].got = reply] /\ pend' = pend \cup {reply}
    BY <1>3 DEF Query, reply
  <2>3. page' \in [Pages -> Page] /\ pend' \subseteq Reply
    BY ZenonT(60), <2>1, <2>2 DEF AdminTypeOK, Page
  <2>4. \A q \in Pages : page'[q].at = "back" <=> page'[q].got # None
    BY <2>1, <2>2, NoneAssumption DEF AdminTypeOK, Page
  <2>5. Shape'
    BY <1>3 DEF Query, Shape
  <2> QED BY <1>3, <2>3, <2>4, <2>5 DEF AdminTypeOK, Query, store, history, bounds
<1>4. CASE Show(p)
  <2>1. page' \in [Pages -> Page] /\ \A q \in Pages : page'[q].at = "back" <=> page'[q].got # None
    BY <1>4 DEF Show, AdminTypeOK, Page
  <2> QED BY <1>4, <2>1 DEF Show, AdminTypeOK, Shape, store, history, bounds
<1>5. CASE FetchFails(p)
  <2>1. page' \in [Pages -> Page] /\ \A q \in Pages : page'[q].at = "back" <=> page'[q].got # None
    BY ZenonT(60), <1>5 DEF FetchFails, AdminTypeOK, Page
  <2>2. broken' \in 0 .. MaxBroken /\ last' \in Pages \cup {None}
    BY <1>5, AdminTablesAssumption DEF FetchFails, AdminTypeOK
  <2> QED BY <1>5, <2>1, <2>2 DEF FetchFails, AdminTypeOK, Shape, store
<1> QED BY <1>1, <1>2, <1>3, <1>4, <1>5 DEF Reading

\* What a request writes is a row.
LEMMA SavedTyped ==
    ASSUME AdminTypeOK, Shape, NEW p \in Pages, mut[p].at = "save"
    PROVE  Saved(p) \in [live : BOOLEAN, has : Rows]
<1>1. mut[p].item \in Items /\ (table \in Granting => mut[p].copy \in Rows)
  BY DEF AdminTypeOK, Shape, Mutation
<1>2. table \in Granting => Edited(mut[p]) \in Rows
  BY <1>1 DEF Edited, Rows
<1>3. db.has \in Rows /\ db.live \in BOOLEAN
  BY DEF AdminTypeOK
<1>4. db.has \cup {mut[p].item} \in Rows /\ db.has \ {mut[p].item} \in Rows
  BY <1>1, <1>3 DEF Rows
<1>5. CASE table \in Granting
  <2>1. \/ Saved(p) = [db EXCEPT !.live = FALSE] \/ Saved(p) = [db EXCEPT !.live = TRUE]
        \/ Saved(p) = [live |-> TRUE, has |-> Edited(mut[p])]
    BY <1>5 DEF Saved
  <2>2. [db EXCEPT !.live = FALSE] \in [live : BOOLEAN, has : Rows]
    BY DEF AdminTypeOK
  <2>3. [db EXCEPT !.live = TRUE] \in [live : BOOLEAN, has : Rows]
    BY DEF AdminTypeOK
  <2>4. [live |-> TRUE, has |-> Edited(mut[p])] \in [live : BOOLEAN, has : Rows]
    BY <1>2, <1>5
  <2> QED BY <2>1, <2>2, <2>3, <2>4
<1>6. CASE table \notin Granting
  <2>1. Saved(p) = [db EXCEPT !.has = @ \ {mut[p].item}] \/ Saved(p) = [db EXCEPT !.has = @ \cup {mut[p].item}]
    BY <1>6 DEF Saved, Granting
  <2> QED BY <1>4, <2>1 DEF AdminTypeOK
<1> QED BY <1>5, <1>6

\* The request goes on, and others' copies are out of date: still requests.
LEMMA TypedMoved ==
    ASSUME AdminTypeOK, Shape, NEW p \in Pages, mut[p].at \in {"save", "url"},
           NEW at \in {"url", "delete", "clear", "answer"}, mut' = Moved(p, at), table' = table
    PROVE  mut' \in [Pages -> Mutation] /\ Shape'
<1>1. mut' \in [Pages -> Mutation]
  <2>1. ASSUME NEW q \in Pages, NEW old \in BOOLEAN PROVE [mut[q] EXCEPT !.old = old] \in Mutation
    BY DEF AdminTypeOK, Mutation
  <2>2. [mut[p] EXCEPT !.at = at] \in Mutation
    BY DEF AdminTypeOK, Mutation
  <2>3. ASSUME NEW q \in Pages PROVE (mut[q].old \/ (mut[q].copy # None /\ db' # db)) \in BOOLEAN
    OBVIOUS
  <2> QED BY <2>1, <2>2, <2>3 DEF Moved
<1>2. ASSUME NEW q \in Pages
      PROVE  /\ mut'[q].item = mut[q].item /\ mut'[q].op = mut[q].op /\ mut'[q].copy = mut[q].copy
             /\ mut'[q].at = IF q = p THEN at ELSE mut[q].at
  BY DEF Moved, AdminTypeOK, Mutation
<1>3. ASSUME NEW q \in Pages
      PROVE  /\ mut'[q].at # "none" => mut'[q].item # None
             /\ mut'[q].at = "put" => table = "media"
             /\ mut'[q].op = "sync" => mut'[q].copy # None
             /\ mut'[q].at = "save" /\ table \in Granting => mut'[q].copy # None
  BY <1>2 DEF Shape
<1> QED BY <1>1, <1>3 DEF Shape

\* A request that ends leaves nothing behind.
LEMMA TypedFailed ==
    ASSUME AdminTypeOK, Shape, NEW p \in Pages, Failed(p), table' = table
    PROVE  mut' \in [Pages -> Mutation] /\ Shape'
<1>1. mut' \in [Pages -> Mutation]
  BY DEF Failed, AdminTypeOK, Mutation, NoRequest
<1>2. Shape'
  BY DEF Failed, AdminTypeOK, Mutation, NoRequest, Shape
<1> QED BY <1>1, <1>2

\* Every await of a request keeps the types.
LEMMA TypedServing ==
    ASSUME AdminTypeOK, Shape, NEW p \in Pages, Serving(p)
    PROVE  AdminTypeOK' /\ Shape'
<1>0. mut[p] \in Mutation /\ (mut[p].at # "none" => mut[p].item \in Items)
  BY DEF AdminTypeOK, Mutation, Shape
<1>1. CASE FindRow(p)
  <2>1. CASE Failed(p)
    BY <1>1, <2>1, TypedFailed DEF FindRow, AdminTypeOK, store, history, bounds
  <2>2. CASE ~Failed(p)
    <3>1. PICK copy \in Rows : mut' = [mut EXCEPT ![p].at = "save", ![p].copy = copy]
      BY <1>1, <2>2 DEF FindRow, AdminTypeOK, Mutation, Shape
    <3>2. mut' \in [Pages -> Mutation]
      BY ZenonT(60), <3>1 DEF AdminTypeOK, Mutation
    <3>3. Shape'
      BY <1>0, <1>1, <3>1, NoneAssumption DEF FindRow, AdminTypeOK, Mutation, Shape
    <3> QED BY <1>1, <3>2, <3>3 DEF FindRow, AdminTypeOK, store, history, bounds
  <2> QED BY <2>1, <2>2
<1>2. CASE SaveRow(p)
  <2>1. CASE mut[p].op = "create" /\ mut[p].item \in taken
    BY <1>2, <2>1, TypedFailed DEF SaveRow, AdminTypeOK, bounds
  <2>2. CASE ~(mut[p].op = "create" /\ mut[p].item \in taken)
    <3>1. NextStop(p) \in {"url", "delete", "clear", "answer"}
      BY DEF NextStop
    <3>2. mut' \in [Pages -> Mutation] /\ Shape'
      BY <1>2, <2>2, <3>1, TypedMoved DEF SaveRow
    <3>3. db' \in [live : BOOLEAN, has : Rows]
      BY <1>2, <2>2, SavedTyped DEF SaveRow
    <3>4. taken' \in Rows
      BY <1>0, <1>2, <2>2 DEF SaveRow, AdminTypeOK, Rows
    <3> QED BY <1>2, <2>2, <3>2, <3>3, <3>4 DEF SaveRow, AdminTypeOK, bounds
  <2> QED BY <2>1, <2>2
<1>3. CASE PutObject(p)
  <2>1. mut' \in [Pages -> Mutation]
    BY <1>3 DEF PutObject, AdminTypeOK, Mutation
  <2>2. Shape'
    BY <1>0, <1>3 DEF PutObject, AdminTypeOK, Mutation, Shape, Granting
  <2>3. depot' \in Rows /\ taken' \in Rows
    BY <1>0, <1>3 DEF PutObject, AdminTypeOK, Rows
  <2>4. table = "media"
    BY <1>3 DEF PutObject, Shape
  <2> QED BY <1>3, <2>1, <2>2, <2>3, <2>4 DEF PutObject, AdminTypeOK, history, bounds
<1>4. CASE SaveUrl(p)
  <2>1. mut' \in [Pages -> Mutation] /\ Shape'
    BY <1>4, TypedMoved DEF SaveUrl
  <2>2. db' \in [live : BOOLEAN, has : Rows] /\ torn' \in Rows
    BY <1>0, <1>4 DEF SaveUrl, AdminTypeOK, Rows
  <2> QED BY <1>4, <2>1, <2>2 DEF SaveUrl, AdminTypeOK, bounds
<1>5. CASE DeleteObject(p)
  <2>1. mut' \in [Pages -> Mutation]
    BY ZenonT(60), <1>5 DEF DeleteObject, AdminTypeOK, Mutation
  <2>2. Shape'
    BY <1>0, <1>5 DEF DeleteObject, AdminTypeOK, Mutation, Shape
  <2>3. depot' \in Rows /\ (table # "media" => depot' = {})
    BY <1>0, <1>5 DEF DeleteObject, AdminTypeOK, Rows
  <2> QED BY <1>5, <2>1, <2>2, <2>3 DEF DeleteObject, AdminTypeOK, history, bounds
<1>6. CASE ClearKeys(p)
  <2>1. mut' \in [Pages -> Mutation]
    BY ZenonT(60), <1>6 DEF ClearKeys, AdminTypeOK, Mutation
  <2>2. Shape'
    BY <1>0, <1>6 DEF ClearKeys, AdminTypeOK, Mutation, Shape
  <2>3. pend' \subseteq Reply
    <3>1. \A reply \in Reply : [reply EXCEPT !.late = TRUE] \in Reply
      BY DEF Reply
    <3> QED BY <1>6, <3>1 DEF ClearKeys, AdminTypeOK
  <2> QED BY <1>6, <2>1, <2>2, <2>3 DEF ClearKeys, AdminTypeOK, store, bounds
<1>7. CASE Answer(p)
  <2>1. mut' \in [Pages -> Mutation] /\ Shape'
    BY <1>7, TypedFailed DEF Answer
  <2>2. page' \in [Pages -> Page] /\ \A q \in Pages : page'[q].at = "back" <=> page'[q].got # None
    BY <1>7 DEF Answer, Fetch, AdminTypeOK, Page
  <2> QED BY <1>7, <2>1, <2>2 DEF Answer, AdminTypeOK, store, bounds
<1>8. CASE Break(p)
  <2>1. mut' \in [Pages -> Mutation] /\ Shape'
    BY <1>8, TypedFailed DEF Break
  <2>2. broken' \in 0 .. MaxBroken /\ last' \in Pages \cup {None}
    BY <1>8, AdminTablesAssumption DEF Break, AdminTypeOK
  <2>3. torn' \in Rows
    BY <1>0, <1>8 DEF Break, AdminTypeOK, Rows
  <2> QED BY <1>8, <2>1, <2>2, <2>3 DEF Break, AdminTypeOK, store
<1> QED BY <1>1, <1>2, <1>3, <1>4, <1>5, <1>6, <1>7, <1>8 DEF Serving

\* Every step keeps the types and what the requests hold.
LEMMA TypedStep ==
    ASSUME AdminTypeOK, Shape, [AdminNext]_admin
    PROVE  AdminTypeOK' /\ Shape'
<1>1. ASSUME NEW reply \in pend, Cache(reply) PROVE AdminTypeOK' /\ Shape'
  BY <1>1 DEF Cache, AdminTypeOK, Shape, store, history, bounds
<1>2. CASE CacheExpires
  BY <1>2 DEF CacheExpires, AdminTypeOK, Shape, store, history, bounds
<1>3. ASSUME NEW item \in Items, RevokedElsewhere(item) PROVE AdminTypeOK' /\ Shape'
  <2>1. mut' \in [Pages -> Mutation]
    BY ZenonT(60), <1>3 DEF RevokedElsewhere, AdminTypeOK, Mutation
  <2>2. Shape'
    BY <1>3 DEF RevokedElsewhere, AdminTypeOK, Mutation, Shape
  <2>3. db' \in [live : BOOLEAN, has : Rows]
    BY <1>3 DEF RevokedElsewhere, AdminTypeOK, Rows
  <2>4. writes' \in 0 .. MaxWrites
    BY <1>3, AdminTablesAssumption DEF RevokedElsewhere, AdminTypeOK
  <2> QED BY <1>3, <2>1, <2>2, <2>3, <2>4 DEF RevokedElsewhere, AdminTypeOK
<1>4. CASE UNCHANGED admin
  BY <1>4 DEF admin, AdminTypeOK, Shape
<1> QED BY <1>1, <1>2, <1>3, <1>4, TypedAsking, TypedReading, TypedServing DEF AdminNext

\* The variables of the administration tables keep their types.
THEOREM AdminTypesCorrect == AdminSpec => []AdminTypeOK
<1>1. AdminTypeOK /\ Shape /\ [AdminNext]_admin => (AdminTypeOK /\ Shape)'
  BY TypedStep
<1> QED BY InitTyped, <1>1, PTL DEF AdminSpec
-----------------------------------------------------------------------------
(* The response cache *)

\* Steps that leave the rows, the cache and the replies on their way to it alone:
\* enough that the keys are still to be cleared afterwards, if they were before.
LEMMA RecentKept ==
    ASSUME Recent, Overdue => Overdue', db' = db, cached' = cached, pend' = pend
    PROVE  Recent'
BY DEF Recent, Stored

\* A request that does not move leaves its keys to be cleared.
LEMMA OverdueKept ==
    ASSUME AdminTypeOK, Overdue, unswept => unswept',
           \A q \in Pages : mut[q].at \in {"url", "delete", "clear"}
                              => mut'[q].at \in {"url", "delete", "clear"} \/ unswept'
    PROVE  Overdue'
BY DEF Overdue

\* Once the keys are to be cleared, what the cache holds does not matter.
LEMMA OverdueEnough == Overdue' => Recent'
BY DEF Recent

\* Asking for a change writes nothing yet.
LEMMA RecentAsking ==
    ASSUME AdminTypeOK, Recent, NEW p \in Pages, NEW item \in Items, Asking(p, item)
    PROVE  Recent'
<1>1. CASE SaveSelection(p, item)
  <2>1. Overdue => Overdue'
    BY <1>1, OverdueKept DEF SaveSelection, AdminTypeOK, NoRequest, history
  <2> QED BY <1>1, <2>1, RecentKept DEF SaveSelection, store
<1>2. ASSUME NEW op, NEW at, Ask(p, op, at, item) PROVE Recent'
  <2>1. Overdue => Overdue'
    BY <1>2, OverdueKept DEF Ask, AdminTypeOK, NoRequest, history
  <2> QED BY <1>2, <2>1, RecentKept DEF Ask, store
<1> QED BY <1>1, <1>2, AskingCases DEF Opened

\* A read brings the rows of now to the cache.
LEMMA RecentReading ==
    ASSUME AdminTypeOK, Recent, NEW p \in Pages, Reading(p)
    PROVE  Recent'
<1>1. (Overdue => Overdue') /\ db' = db /\ cached' = cached
  BY DEF Reading, Refetch, LookUp, Query, Show, FetchFails, Overdue, store, history
<1>2. CASE Query(p)
  <2>1. pend' = pend \cup {[has |-> Stored, late |-> FALSE]}
    BY <1>2 DEF Query
  <2> QED BY <1>1, <2>1 DEF Recent, Stored
<1>3. CASE ~Query(p)
  <2>1. pend' = pend
    BY <1>3 DEF Reading, Refetch, LookUp, Show, FetchFails
  <2> QED BY <1>1, <2>1, RecentKept
<1> QED BY <1>2, <1>3

\* A write goes on to clear the keys, or is remembered as one that does not.
LEMMA RecentServing ==
    ASSUME AdminTypeOK, Shape, Recent, NEW p \in Pages, Serving(p)
    PROVE  Recent'
<1> USE DEF AdminTypeOK, Mutation
<1>1. CASE FindRow(p)
  <2>1. Overdue => Overdue'
    BY <1>1, OverdueKept DEF FindRow, Failed, NoRequest, history
  <2> QED BY <1>1, <2>1, RecentKept DEF FindRow, store
<1>2. CASE SaveRow(p)
  <2>1. CASE mut[p].op = "create" /\ mut[p].item \in taken
    <3>1. Overdue => Overdue'
      BY <1>2, <2>1, OverdueKept DEF SaveRow, Failed, NoRequest
    <3> QED BY <1>2, <2>1, <3>1, RecentKept DEF SaveRow
  <2>2. CASE ~(mut[p].op = "create" /\ mut[p].item \in taken)
    <3>1. NextStop(p) \in {"url", "delete", "clear"}
      BY DEF NextStop
    <3>2. mut'[p].at = NextStop(p)
      BY <1>2, <2>2 DEF SaveRow, Moved
    <3>3. Overdue'
      BY <3>1, <3>2 DEF Overdue
    <3> QED BY <3>3, OverdueEnough
  <2> QED BY <2>1, <2>2
<1>3. CASE PutObject(p)
  <2>1. Overdue => Overdue'
    BY <1>3, OverdueKept DEF PutObject, history
  <2> QED BY <1>3, <2>1, RecentKept DEF PutObject
<1>4. CASE SaveUrl(p)
  <2>1. mut'[p].at = IF mut[p].op = "avatar" THEN "answer" ELSE "clear"
    BY <1>4 DEF SaveUrl, Moved
  <2>2. Overdue'
    BY <1>4, <2>1 DEF SaveUrl, Overdue
  <2> QED BY <2>2, OverdueEnough
<1>5. CASE DeleteObject(p)
  <2>1. Overdue => Overdue'
    BY <1>5, OverdueKept DEF DeleteObject, history
  <2> QED BY <1>5, <2>1, RecentKept DEF DeleteObject
<1>6. CASE ClearKeys(p)
  <2>1. cached' = None /\ \A reply \in pend' : reply.late
    BY <1>6 DEF ClearKeys, Reply
  <2> QED BY <2>1, NoneAssumption DEF Recent
<1>7. CASE Answer(p)
  <2>1. Overdue => Overdue'
    BY <1>7, OverdueKept DEF Answer, Failed, NoRequest
  <2> QED BY <1>7, <2>1, RecentKept DEF Answer, store
<1>8. CASE Break(p)
  <2>1. Overdue => Overdue'
    BY <1>8, OverdueKept DEF Break, Failed, NoRequest
  <2> QED BY <1>8, <2>1, RecentKept DEF Break, store
<1> QED BY <1>1, <1>2, <1>3, <1>4, <1>5, <1>6, <1>7, <1>8 DEF Serving

\* Every step keeps it.
LEMMA RecentStep ==
    ASSUME AdminTypeOK, Shape, Recent, [AdminNext]_admin
    PROVE  Recent'
<1>1. ASSUME NEW reply \in pend, Cache(reply) PROVE Recent'
  <2>1. (Overdue => Overdue') /\ db' = db
    BY <1>1 DEF Cache, Overdue, store, history
  <2> QED BY <1>1, <2>1 DEF Cache, Recent, Stored
<1>2. CASE CacheExpires
  <2>1. (Overdue => Overdue') /\ db' = db
    BY <1>2 DEF CacheExpires, Overdue, store, history
  <2> QED BY <1>2, <2>1, NoneAssumption DEF CacheExpires, Recent, Stored
<1>3. ASSUME NEW item \in Items, RevokedElsewhere(item) PROVE Recent'
  BY <1>3, OverdueEnough DEF RevokedElsewhere, Overdue
<1>4. CASE UNCHANGED admin
  BY <1>4 DEF admin, Recent, Overdue, Stored
<1> QED BY <1>1, <1>2, <1>3, <1>4, RecentAsking, RecentReading, RecentServing DEF AdminNext

\* The response cache holds an old list only for one of the reasons CacheFresh names.
THEOREM CacheIsFresh == AdminSpec => []CacheFresh
<1>1. Init => Recent
  BY NoneAssumption DEF Init, Recent
<1>2. AdminTypeOK /\ Shape /\ Recent /\ [AdminNext]_admin => (AdminTypeOK /\ Shape /\ Recent)'
  BY TypedStep, RecentStep
<1>3. AdminTypeOK /\ Recent => CacheFresh
  BY DEF AdminTypeOK, Recent, Overdue, CacheFresh
<1> QED BY InitTyped, <1>1, <1>2, <1>3, PTL DEF AdminSpec
-----------------------------------------------------------------------------
(* Only the item a request is about *)

\* Neither the rows nor the requests change, as far as copies go.
LEMMA UpToDateKept ==
    ASSUME UpToDate, table' = table, db' = db,
           \A q \in Pages : \/ mut'[q] = mut[q]
                            \/ mut'[q].at \notin {"find", "save"}
                            \/ mut'[q].at = "find" /\ mut'[q].op # "sync"
                            \/ table \notin Granting
    PROVE  UpToDate'
<1>1. ASSUME NEW q \in Pages, mut'[q] = mut[q], Agrees(q) PROVE Agrees(q)'
  BY <1>1 DEF Agrees
<1> QED BY <1>1 DEF UpToDate

\* A list that starts from the row as it is now is the row's, but for the item.
LEMMA UpToDateAsking ==
    ASSUME AdminTypeOK, UpToDate, NEW p \in Pages, NEW item \in Items, Asking(p, item)
    PROVE  UpToDate'
<1>1. CASE SaveSelection(p, item)
  <2> DEFINE seed == page[p].shown.has
  <2>1. mut' = [mut EXCEPT ![p] = [op |-> "sync", at |-> "find", item |-> item,
                                   copy |-> Ticked(seed, item), old |-> seed # db.has]]
    BY <1>1 DEF SaveSelection
  <2>2. ASSUME seed = db.has PROVE Agrees(p)'
    <3>1. mut'[p].copy = Ticked(db.has, item) /\ mut'[p].item = item /\ mut'[p].op = "sync"
      BY <2>1, <2>2 DEF AdminTypeOK
    <3>2. db' = db
      BY <1>1 DEF SaveSelection, store
    <3> QED BY <3>1, <3>2 DEF Agrees, Ticked
  <2>3. ASSUME NEW q \in Pages, q # p PROVE mut'[q] = mut[q]
    BY <2>1, <2>3 DEF AdminTypeOK
  <2>4. ~mut'[p].old => seed = db.has
    BY <2>1 DEF AdminTypeOK
  <2>5. ASSUME NEW q \in Pages, q # p, Agrees(q) PROVE Agrees(q)'
    BY <1>1, <2>3, <2>5 DEF Agrees, SaveSelection, store
  <2> QED BY <1>1, <2>2, <2>3, <2>4, <2>5 DEF UpToDate, SaveSelection
<1>2. ASSUME NEW op \in {"edit", "remove", "attach", "detach", "create", "upload", "avatar"},
             NEW at \in {"find", "save", "put"}, Ask(p, op, at, item), at = "save" => table = "permissions"
      PROVE  UpToDate'
  <2>1. mut'[p].op # "sync" /\ mut'[p].at = at /\ \A q \in Pages \ {p} : mut'[q] = mut[q]
    BY <1>2 DEF Ask, AdminTypeOK, NoRequest
  <2> QED BY <1>2, <2>1, UpToDateKept DEF Ask, store, Granting
<1> QED BY <1>1, <1>2, AskingCases DEF Opened

\* A request that writes makes the copies of the others old, and its own is used up.
LEMMA UpToDateMoved ==
    ASSUME AdminTypeOK, Shape, UpToDate, NEW p \in Pages, table' = table,
           NEW at \in {"url", "delete", "clear", "answer"}, mut' = Moved(p, at)
    PROVE  UpToDate'
<1>1. mut'[p].at = at
  BY DEF Moved, AdminTypeOK, Mutation
<1>2. ASSUME NEW q \in Pages, q # p
      PROVE  /\ mut'[q].item = mut[q].item /\ mut'[q].op = mut[q].op /\ mut'[q].copy = mut[q].copy
             /\ mut'[q].at = mut[q].at
             /\ mut'[q].old <=> mut[q].old \/ (mut[q].copy # None /\ db' # db)
  BY <1>2 DEF Moved, AdminTypeOK, Mutation
<1>3. ASSUME NEW q \in Pages, q # p, table \in Granting, ~mut'[q].old,
             mut[q].at = "save" \/ (mut[q].op = "sync" /\ mut[q].at = "find")
      PROVE  Agrees(q)'
  <2>1. mut[q].copy # None
    BY <1>3 DEF Shape
  <2>2. db' = db /\ ~mut[q].old
    BY <1>2, <1>3, <2>1
  <2>3. Agrees(q)
    BY <1>3, <2>2 DEF UpToDate
  <2> QED BY <1>2, <1>3, <2>2, <2>3 DEF Agrees
<1> QED BY <1>1, <1>2, <1>3 DEF UpToDate

\* A request takes its copy when it finds the row.
LEMMA UpToDateFound ==
    ASSUME AdminTypeOK, UpToDate, NEW p \in Pages, FindRow(p)
    PROVE  UpToDate'
<1>1. CASE Failed(p)
  <2>1. mut'[p].at = "none" /\ \A q \in Pages \ {p} : mut'[q] = mut[q]
    BY <1>1 DEF Failed, AdminTypeOK, NoRequest
  <2> QED BY <2>1, UpToDateKept DEF FindRow, store
<1>2. CASE ~Failed(p)
  <2> DEFINE copy == IF mut[p].op = "sync" THEN mut[p].copy ELSE db.has
  <2>1. mut' = [mut EXCEPT ![p].at = "save", ![p].copy = copy]
    BY <1>2 DEF FindRow
  <2>2. /\ mut'[p].at = "save" /\ mut'[p].copy = copy /\ mut'[p].item = mut[p].item
        /\ mut'[p].op = mut[p].op /\ mut'[p].old = mut[p].old
        /\ \A q \in Pages \ {p} : mut'[q] = mut[q]
    BY <2>1 DEF AdminTypeOK, Mutation
  <2>3. mut[p].at = "find" /\ db' = db /\ table' = table
    BY DEF FindRow, store
  <2>4. ASSUME table \in Granting, ~mut[p].old PROVE Agrees(p)'
    <3>1. CASE mut[p].op = "sync"
      <4>1. Agrees(p)
        BY <2>3, <2>4, <3>1 DEF UpToDate
      <4> QED BY <2>2, <2>3, <3>1, <4>1 DEF Agrees
    <3>2. CASE mut[p].op # "sync"
      BY <2>2, <2>3, <3>2 DEF Agrees
    <3> QED BY <3>1, <3>2
  <2>5. ASSUME NEW q \in Pages, q # p, Agrees(q) PROVE Agrees(q)'
    BY <2>2, <2>3, <2>5 DEF Agrees
  <2> QED BY <2>2, <2>3, <2>4, <2>5 DEF UpToDate
<1> QED BY <1>1, <1>2

\* Every await of a request keeps the copies that are up to date so.
LEMMA UpToDateServing ==
    ASSUME AdminTypeOK, Shape, UpToDate, NEW p \in Pages, Serving(p)
    PROVE  UpToDate'
<1>1. CASE FindRow(p)
  BY <1>1, UpToDateFound
<1>2. CASE SaveRow(p)
  <2>1. CASE mut[p].op = "create" /\ mut[p].item \in taken
    <3>1. mut'[p].at = "none" /\ \A q \in Pages \ {p} : mut'[q] = mut[q]
      BY <1>2, <2>1 DEF SaveRow, Failed, AdminTypeOK, NoRequest
    <3> QED BY <1>2, <2>1, <3>1, UpToDateKept DEF SaveRow
  <2>2. CASE ~(mut[p].op = "create" /\ mut[p].item \in taken)
    <3>1. NextStop(p) \in {"url", "delete", "clear", "answer"}
      BY DEF NextStop
    <3> QED BY <1>2, <2>2, <3>1, UpToDateMoved DEF SaveRow
  <2> QED BY <2>1, <2>2
<1>3. CASE PutObject(p)
  <2>1. table = "media"
    BY <1>3 DEF PutObject, Shape
  <2> QED BY <1>3, <2>1 DEF PutObject, UpToDate, Granting
<1>4. CASE SaveUrl(p)
  BY <1>4, UpToDateMoved DEF SaveUrl
<1>5. CASE DeleteObject(p) \/ ClearKeys(p) \/ Answer(p) \/ Break(p)
  <2>1. mut'[p].at \in {"clear", "answer", "none"} /\ \A q \in Pages \ {p} : mut'[q] = mut[q]
    BY <1>5 DEF DeleteObject, ClearKeys, Answer, Break, Failed, AdminTypeOK, Mutation, NoRequest
  <2> QED BY <1>5, <2>1, UpToDateKept DEF DeleteObject, ClearKeys, Answer, Break, store
<1> QED BY <1>1, <1>2, <1>3, <1>4, <1>5 DEF Serving

\* Every step does.
LEMMA UpToDateStep ==
    ASSUME AdminTypeOK, Shape, UpToDate, [AdminNext]_admin
    PROVE  UpToDate'
<1>1. ASSUME NEW p \in Pages, Reading(p) PROVE UpToDate'
  BY <1>1, UpToDateKept DEF Reading, Refetch, LookUp, Query, Show, FetchFails, store
<1>2. ASSUME NEW reply \in pend, Cache(reply) PROVE UpToDate'
  BY <1>2, UpToDateKept DEF Cache, store
<1>3. CASE CacheExpires
  BY <1>3, UpToDateKept DEF CacheExpires, store
<1>4. ASSUME NEW item \in Items, RevokedElsewhere(item) PROVE UpToDate'
  <2>1. ASSUME NEW q \in Pages
        PROVE  /\ mut'[q].at = mut[q].at /\ mut'[q].op = mut[q].op
               /\ mut[q].copy # None => mut'[q].old
    BY <1>4 DEF RevokedElsewhere, AdminTypeOK, Mutation
  <2> QED BY <1>4, <2>1 DEF RevokedElsewhere, UpToDate, Shape
<1>5. CASE UNCHANGED admin
  BY <1>5, UpToDateKept DEF admin
<1> QED BY <1>1, <1>2, <1>3, <1>4, <1>5, UpToDateAsking, UpToDateServing DEF AdminNext

\* The grants a request that writes leaves alone.
OwnItemStep ==
    \A p \in Pages :
        mut[p].at = "save" /\ mut'[p].at = "clear" /\ ~mut[p].old /\ table \in Granting
          => \A i \in Items : i # mut[p].item \/ mut[p].op = "edit" => (i \in db'.has <=> i \in db.has)

\* A request stopped at its save goes on by saving, and by nothing else.
LEMMA SaveIsTheOnlyWay ==
    ASSUME AdminTypeOK, [AdminNext]_admin, NEW p \in Pages, mut[p].at = "save", mut'[p].at = "clear"
    PROVE  SaveRow(p) /\ db' = Saved(p)
<1>1. ASSUME NEW q \in Pages, Serving(q) PROVE SaveRow(p) /\ db' = Saved(p)
  <2>1. CASE q = p
    <3>1. SaveRow(p)
      BY <1>1, <2>1 DEF Serving, FindRow, PutObject, SaveUrl, DeleteObject, ClearKeys, Answer, Break,
                        Failed, NoRequest, AdminTypeOK
    <3> QED BY <3>1 DEF SaveRow, Failed, NoRequest, AdminTypeOK
  <2>2. CASE q # p
    BY <1>1, <2>2 DEF Serving, FindRow, SaveRow, PutObject, SaveUrl, DeleteObject, ClearKeys, Answer, Break,
                      Failed, Moved, NoRequest, AdminTypeOK, Mutation
  <2> QED BY <2>1, <2>2
<1>2. ASSUME NEW q \in Pages, NEW item \in Items, Asking(q, item) PROVE FALSE
  <2>1. ASSUME NEW op, NEW at, Ask(q, op, at, item) PROVE FALSE
    BY <2>1 DEF Ask, NoRequest, AdminTypeOK
  <2>2. ~SaveSelection(q, item)
    BY DEF SaveSelection, NoRequest, AdminTypeOK
  <2> QED BY <1>2, <2>1, <2>2, AskingCases DEF Opened
<1>3. ASSUME NEW q \in Pages, Reading(q) PROVE FALSE
  BY <1>3 DEF Reading, Refetch, LookUp, Query, Show, FetchFails
<1>4. ~\E reply \in pend : Cache(reply)
  BY DEF Cache
<1>5. ~CacheExpires /\ ~UNCHANGED admin
  BY DEF CacheExpires, admin
<1>6. ASSUME NEW item \in Items, RevokedElsewhere(item) PROVE FALSE
  BY <1>6 DEF RevokedElsewhere, AdminTypeOK, Mutation
<1> QED BY <1>1, <1>2, <1>3, <1>4, <1>5, <1>6 DEF AdminNext

\* A copy that is up to date changes nothing but the request's own item.
LEMMA OwnItemOnly ==
    ASSUME AdminTypeOK, UpToDate, [AdminNext]_admin
    PROVE  OwnItemStep
<1> SUFFICES ASSUME NEW p \in Pages, mut[p].at = "save", mut'[p].at = "clear", ~mut[p].old,
                    table \in Granting, NEW i \in Items, i # mut[p].item \/ mut[p].op = "edit"
             PROVE  i \in db'.has <=> i \in db.has
  BY DEF OwnItemStep
<1>1. Agrees(p) /\ db' = Saved(p)
  BY SaveIsTheOnlyWay DEF UpToDate
<1>2. CASE mut[p].op = "remove" \/ (mut[p].op = "edit" /\ table = "users")
  BY <1>1, <1>2 DEF Saved, AdminTypeOK
<1>3. CASE ~(mut[p].op = "remove" \/ (mut[p].op = "edit" /\ table = "users"))
  <2>1. db'.has = Edited(mut[p])
    BY <1>1, <1>3 DEF Saved
  <2>2. i \in Edited(mut[p]) <=> i \in mut[p].copy
    BY DEF Edited
  <2> QED BY <1>1, <2>1, <2>2 DEF Agrees
<1> QED BY <1>2, <1>3

\* A request about one grant changes another one only if its list was out of date.
THEOREM OthersGrantsStay == AdminSpec => OnlyOwnItem
<1>1. Init => UpToDate
  BY DEF Init, UpToDate, NoRequest
<1>2. AdminTypeOK /\ Shape /\ UpToDate /\ [AdminNext]_admin => (AdminTypeOK /\ Shape /\ UpToDate)'
  BY TypedStep, UpToDateStep
<1>3. AdminTypeOK /\ UpToDate /\ [AdminNext]_admin => [OwnItemStep]_admin
  BY OwnItemOnly
<1>4. OnlyOwnItem <=> [][OwnItemStep]_admin
  BY DEF OnlyOwnItem, OwnItemStep
<1> QED BY InitTyped, <1>1, <1>2, <1>3, <1>4, PTL DEF AdminSpec
-----------------------------------------------------------------------------
(* A page shows its own change *)

\* No reply on its way to the cache, or in it, was overtaken by a write, but for
\* those that were under way when the keys were cleared.
Matching == \A reply \in Reply : reply \in pend \/ reply = cached => reply.late \/ reply.has = Stored

Good(reply) == reply # None /\ (reply.late \/ reply.has = Stored)

\* The list of a page, or the one it is about to show, is the list of now.
Shown(p) ==
    CASE page[p].at = "none" -> Good(page[p].shown)
      [] page[p].at = "back" -> Good(page[p].got)
      [] OTHER -> TRUE

\* The page's last write, if any, was followed by clearKeys.
Swept(p) == mut[p].at \notin {"url", "delete", "clear"} /\ ~(mut[p].op = "avatar" /\ mut[p].at = "answer")

\* The page that wrote last finds nothing old any more, and from its answer on
\* shows nothing old either.
CaughtUp(p) == last = p /\ Swept(p) => Matching /\ (mut[p].at # "answer" => Shown(p))

\* A step that leaves the rows and what the page shows alone.
LEMMA CaughtUpKept ==
    ASSUME NEW p \in Pages, CaughtUp(p), last' = p => last = p, Swept(p)' => Swept(p), Matching => Matching',
           db' = db, page'[p] = page[p], mut[p].at = "answer" => mut'[p].at = "answer"
    PROVE  CaughtUp(p)'
BY DEF CaughtUp, Shown, Good, Stored

\* What the cache and the replies on their way to it may become while nothing is written.
LEMMA MatchingKept ==
    ASSUME Matching, db' = db, cached' \in pend \cup {cached, None},
           \A reply \in pend' : reply \in pend \/ reply.late \/ reply.has = Stored
    PROVE  Matching'
<1>1. Stored' = Stored
  BY DEF Stored
<1>2. None \notin Reply
  BY NoneAssumption
<1> QED BY <1>1, <1>2 DEF Matching

\* Asking for a change shows and writes nothing.
LEMMA CaughtUpAsking ==
    ASSUME AdminTypeOK, NEW p \in Pages, CaughtUp(p), NEW q \in Pages, NEW item \in Items, Asking(q, item)
    PROVE  CaughtUp(p)'
<1>1. ASSUME NEW op, NEW at \in {"find", "save", "put"}, mut[q] = NoRequest, mut'[q].at = at, mut'[q].op = op,
             \A r \in Pages \ {q} : mut'[r] = mut[r], last' = last, UNCHANGED <<db, cached, pend, page>>
      PROVE  CaughtUp(p)'
  <2>1. Matching => Matching'
    BY <1>1 DEF Matching, Stored
  <2>2. mut[q].at = "none" /\ mut[q].op = "none"
    BY <1>1 DEF NoRequest
  <2> QED BY <1>1, <2>1, <2>2, CaughtUpKept DEF Swept
<1>2. CASE SaveSelection(q, item)
  BY <1>1, <1>2 DEF SaveSelection, AdminTypeOK, store, history
<1>3. ASSUME NEW op, NEW at \in {"find", "save", "put"}, Ask(q, op, at, item) PROVE CaughtUp(p)'
  BY <1>1, <1>3 DEF Ask, NoRequest, AdminTypeOK, store, history
<1> QED BY <1>2, <1>3, AskingCases DEF Opened

\* A read of the page that wrote last ends with a list of now.
LEMMA CaughtUpReading ==
    ASSUME AdminTypeOK, NEW p \in Pages, CaughtUp(p), NEW q \in Pages, Reading(q)
    PROVE  CaughtUp(p)'
<1> USE DEF AdminTypeOK
<1>1. db' = db /\ cached' = cached /\ mut' = mut /\ (last' = p => last = p)
  BY AdminTablesAssumption DEF Reading, Refetch, LookUp, Query, Show, FetchFails, store, history
<1>2. Matching => Matching'
  <2>1. \A reply \in pend' : reply \in pend \/ reply.has = Stored
    BY DEF Reading, Refetch, LookUp, Query, Show, FetchFails
  <2> QED BY <1>1, <2>1, MatchingKept
<1>3. CASE p # q
  <2>1. page'[p] = page[p]
    BY <1>3 DEF Reading, Refetch, Fetch, LookUp, Query, Show, FetchFails
  <2> QED BY <1>1, <1>2, <2>1, CaughtUpKept DEF Swept
<1>4. CASE p = q
  <2> SUFFICES ASSUME last' = p, Swept(p)', mut'[p].at # "answer" PROVE Shown(p)'
    BY <1>1, <1>2 DEF CaughtUp, Swept
  <2>1. Matching /\ Shown(p) /\ Stored' = Stored
    BY <1>1 DEF CaughtUp, Swept, Stored
  <2>2. CASE Refetch(p)
    BY <2>2 DEF Refetch, Fetch, Page, Shown
  <2>3. CASE LookUp(p)
    <3>1. cached # None => Good(cached)
      BY <2>1 DEF Matching, Good
    <3>2. cached # None => page'[p].at = "back" /\ page'[p].got = cached
      BY <2>3 DEF LookUp, Page
    <3>3. cached = None => page'[p].at = "query"
      BY <2>3 DEF LookUp, Page
    <3> QED BY <2>1, <3>1, <3>2, <3>3 DEF Shown, Good
  <2>4. CASE Query(p)
    <3> DEFINE reply == [has |-> Stored, late |-> FALSE]
    <3>1. reply \in Reply
      BY DEF Stored, Reply
    <3>2. Good(reply)
      BY <3>1, NoneAssumption DEF Good
    <3> HIDE DEF reply
    <3>3. page'[p].at = "back" /\ page'[p].got = reply
      BY <2>4 DEF Query, Page, reply
    <3> QED BY <2>1, <3>2, <3>3 DEF Shown, Good
  <2>5. CASE Show(p)
    BY <2>1, <2>5 DEF Show, Shown, Good
  <2>6. CASE FetchFails(p)
    BY <1>1, <2>6, AdminTablesAssumption DEF FetchFails
  <2> QED BY <1>4, <2>2, <2>3, <2>4, <2>5, <2>6 DEF Reading
<1> QED BY <1>3, <1>4

\* A request that writes has its keys cleared and its page read again; another
\* page's write makes that one the last.
LEMMA CaughtUpServing ==
    ASSUME AdminTypeOK, Shape, NEW p \in Pages, CaughtUp(p), NEW q \in Pages, Serving(q)
    PROVE  CaughtUp(p)'
<1> USE DEF AdminTypeOK, Mutation
<1>1. ASSUME UNCHANGED <<db, cached, pend>> PROVE Matching => Matching'
  BY <1>1 DEF Matching, Stored
<1>2. CASE FindRow(q)
  <2>1. Swept(p)' => Swept(p)
    BY <1>2 DEF FindRow, Failed, NoRequest, Swept
  <2> QED BY <1>1, <1>2, <2>1, CaughtUpKept DEF FindRow, Failed, store, history
<1>3. CASE SaveRow(q)
  <2>1. CASE mut[q].op = "create" /\ mut[q].item \in taken
    <3>1. Swept(p)' => Swept(p)
      BY <1>3, <2>1 DEF SaveRow, Failed, NoRequest, Swept
    <3> QED BY <1>1, <1>3, <2>1, <3>1, CaughtUpKept DEF SaveRow, Failed
  <2>2. CASE ~(mut[q].op = "create" /\ mut[q].item \in taken)
    <3>1. NextStop(q) \in {"url", "delete", "clear"}
      BY DEF NextStop
    <3>2. mut'[q].at = NextStop(q) /\ last' = q
      BY <1>3, <2>2 DEF SaveRow, Moved
    <3> QED BY <3>1, <3>2 DEF CaughtUp, Swept
  <2> QED BY <2>1, <2>2
<1>4. CASE PutObject(q)
  <2>1. Swept(p)' => Swept(p)
    BY <1>4 DEF PutObject, Swept
  <2> QED BY <1>1, <1>4, <2>1, CaughtUpKept DEF PutObject, history
<1>5. CASE SaveUrl(q)
  <2>1. mut'[q].at = (IF mut[q].op = "avatar" THEN "answer" ELSE "clear") /\ mut'[q].op = mut[q].op /\ last' = q
    BY <1>5 DEF SaveUrl, Moved
  <2> QED BY <2>1 DEF CaughtUp, Swept
<1>6. CASE DeleteObject(q)
  <2>1. Swept(p)' => Swept(p)
    BY <1>6 DEF DeleteObject, Swept
  <2> QED BY <1>1, <1>6, <2>1, CaughtUpKept DEF DeleteObject, history
<1>7. CASE ClearKeys(q)
  <2>1. cached' = None /\ (\A reply \in pend' : reply.late) /\ UNCHANGED <<db, page, last>>
    BY <1>7 DEF ClearKeys, Reply, store
  <2>2. Matching'
    BY <2>1, NoneAssumption DEF Matching
  <2>3. CASE p # q
    BY <1>7, <2>1, <2>2, <2>3, CaughtUpKept DEF ClearKeys, Swept
  <2>4. CASE p = q
    BY <1>7, <2>2, <2>4 DEF ClearKeys, CaughtUp
  <2> QED BY <2>3, <2>4
<1>8. CASE Answer(q)
  <2>1. UNCHANGED <<db, cached, pend>> /\ (last' = p => last = p)
    BY <1>8, AdminTablesAssumption DEF Answer, store
  <2>2. CASE p # q
    <3>1. page'[p] = page[p] /\ mut'[p] = mut[p]
      BY <1>8, <2>2 DEF Answer, Failed, Fetch
    <3> QED BY <1>1, <2>1, <3>1, CaughtUpKept DEF Swept
  <2>3. CASE p = q
    <3> SUFFICES ASSUME last' = p PROVE Matching' /\ Shown(p)'
      BY DEF CaughtUp
    <3>1. mut[p].op # "avatar" /\ page' = Fetch(p)
      BY <1>8, <2>3, AdminTablesAssumption DEF Answer
    <3>2. Matching
      BY <1>8, <2>1, <2>3, <3>1 DEF Answer, CaughtUp, Swept
    <3>3. page'[p].at = "key"
      BY <3>1 DEF Fetch, Page
    <3> QED BY <1>1, <2>1, <3>2, <3>3 DEF Shown
  <2> QED BY <2>2, <2>3
<1>9. CASE Break(q)
  <2>1. last' = p => last = p /\ p # q
    BY <1>9, AdminTablesAssumption DEF Break
  <2>2. p # q => mut'[p] = mut[p]
    BY <1>9 DEF Break, Failed
  <2> QED BY <1>1, <1>9, <2>1, <2>2, CaughtUpKept DEF Break, store, CaughtUp, Swept
<1> QED BY <1>2, <1>3, <1>4, <1>5, <1>6, <1>7, <1>8, <1>9 DEF Serving

\* Every step keeps it.
LEMMA CaughtUpStep ==
    ASSUME AdminTypeOK, Shape, NEW p \in Pages, CaughtUp(p), [AdminNext]_admin
    PROVE  CaughtUp(p)'
<1>1. ASSUME NEW reply \in pend, Cache(reply) PROVE CaughtUp(p)'
  <2>1. UNCHANGED <<db, page, mut, last>> /\ cached' \in pend /\ pend' \subseteq pend
    BY <1>1 DEF Cache, store, history
  <2> QED BY <2>1, MatchingKept, CaughtUpKept DEF Swept
<1>2. CASE CacheExpires
  <2>1. UNCHANGED <<db, page, mut, last, pend>> /\ cached' = None
    BY <1>2 DEF CacheExpires, store, history
  <2> QED BY <2>1, MatchingKept, CaughtUpKept DEF Swept
<1>3. ASSUME NEW item \in Items, RevokedElsewhere(item) PROVE CaughtUp(p)'
  BY <1>3, AdminTablesAssumption DEF RevokedElsewhere, CaughtUp
<1>4. CASE UNCHANGED admin
  BY <1>4 DEF admin, CaughtUp, Swept, Matching, Shown, Good, Stored
<1> QED BY <1>1, <1>2, <1>3, <1>4, CaughtUpAsking, CaughtUpReading, CaughtUpServing DEF AdminNext

\* After a change of its own a page shows it, until somebody else writes.
THEOREM OwnChangesShown == AdminSpec => []OwnWriteShown
<1> DEFINE Caught == \A p \in Pages : CaughtUp(p)
<1>1. Init => Caught
  BY AdminTablesAssumption DEF Init, CaughtUp
<1>2. AdminTypeOK /\ Shape /\ Caught /\ [AdminNext]_admin => (AdminTypeOK /\ Shape /\ Caught)'
  BY TypedStep, CaughtUpStep
<1>3. Caught => OwnWriteShown
  BY DEF CaughtUp, OwnWriteShown, Swept, NoRequest, Shown, Good
<1> QED BY InitTyped, <1>1, <1>2, <1>3, PTL DEF AdminSpec
-----------------------------------------------------------------------------
(* Rows of the media table and their objects *)

Uploads == {"upload", "avatar"}

\* The awaits of the requests about media.
Stages ==
    table = "media" =>
      \A p \in Pages :
        \/ mut[p].op = "none" /\ mut[p].at = "none" /\ mut[p].item = None
        \/ mut[p].op \in Uploads /\ mut[p].at \in {"put", "save", "url", "clear", "answer"}
        \/ mut[p].op = "remove" /\ mut[p].at \in {"find", "save", "delete", "clear", "answer"}

\* The request is about the item, and stopped at one of the awaits.
Busy(p, ops, i, ats) == mut[p].item = i /\ mut[p].op \in ops /\ mut[p].at \in ats

\* A file is uploaded once.
OneUpload(i) == \A p, q \in Pages : mut[p].item = i /\ mut[q].item = i
                                      /\ mut[p].op \in Uploads /\ mut[q].op \in Uploads => p = q

\* Before its object is put there is no trace of it, and a request to remove it
\* finds nothing.
Fresh(i) ==
    /\ \A p \in Pages : Busy(p, Uploads, i, {"put"}) => i \notin taken
    /\ i \notin taken => /\ i \notin db.has /\ i \notin depot
                         /\ \A p \in Pages : mut[p].item = i => mut[p].at \in {"put", "find"}

\* Between the put and the first save there is the object and no row; nobody can
\* be about to delete it.
Stocked(i) ==
    \A p \in Pages : Busy(p, Uploads, i, {"save"}) =>
        i \in depot /\ i \notin db.has /\ \A q \in Pages : mut[q].item = i /\ mut[q].op = "remove" => mut[q].at = "find"

\* Until its object is deleted the row is gone.
Gone(i) == \A p \in Pages : mut[p].item = i /\ mut[p].at = "delete" => i \notin db.has

\* A row has its object; an object without a row awaits its save or its deletion.
Paired(i) ==
    /\ i \in db.has => i \in depot
    /\ i \in depot => \/ i \in db.has
                      \/ \E p \in Pages : Busy(p, Uploads, i, {"save"}) \/ Busy(p, {"remove"}, i, {"delete"})

Kept(i) == OneUpload(i) /\ Fresh(i) /\ Stocked(i) /\ Gone(i) /\ Paired(i)

Files == table = "media" => \A i \in Items \ torn : Kept(i)

\* A step that leaves the item alone: no request about it starts, goes on or ends,
\* but for such as have written all they had to, or nothing yet.
Spared(i) ==
    /\ i \in db'.has <=> i \in db.has
    /\ i \in depot' <=> i \in depot
    /\ i \in taken' <=> i \in taken
    /\ \A q \in Pages : mut'[q].item = i => /\ mut[q].item = i /\ mut'[q].op = mut[q].op
                                            /\ \/ mut'[q].at = mut[q].at
                                               \/ mut[q].at = "clear" /\ mut'[q].at = "answer"
    /\ \A q \in Pages : mut[q].item = i /\ mut[q].at \in {"save", "delete"}
                          => mut'[q].item = i /\ mut'[q].op = mut[q].op /\ mut'[q].at = mut[q].at

\* Such a step keeps what holds of the item.
LEMMA KeptApart ==
    ASSUME NEW i \in Items, Kept(i), Spared(i)
    PROVE  Kept(i)'
<1> USE DEF Spared
<1>1. OneUpload(i)'
  BY DEF Kept, OneUpload
<1>2. Fresh(i)'
  BY DEF Kept, Fresh, Busy
<1>3. Stocked(i)'
  BY DEF Kept, Stocked, Busy
<1>4. Gone(i)'
  BY DEF Kept, Gone
<1>5. Paired(i)'
  BY DEF Kept, Paired, Busy
<1> QED BY <1>1, <1>2, <1>3, <1>4, <1>5 DEF Kept

\* The media page and the profile ask for nothing else.
LEMMA MediaAsking ==
    ASSUME table = "media", NEW p \in Pages, NEW item \in Items, Asking(p, item)
    PROVE  \/ Ask(p, "remove", "find", item)
           \/ \E op \in Uploads : Ask(p, op, "put", item) /\ item \notin taken \cup {mut[q].item : q \in Pages}
BY DEF Asking, UsersPage, RolesPage, PermissionsPage, MediaPage, RemoveRow, Attach, Detach, Upload, Granting, Uploads

\* A request about a file starts.
LEMMA FilesAsking ==
    ASSUME AdminTypeOK, Stages, Files, NEW p \in Pages, NEW item \in Items, Asking(p, item)
    PROVE  Stages' /\ Files'
<1> SUFFICES ASSUME table = "media" PROVE Stages' /\ Files'
  BY AskingCases DEF SaveSelection, Opened, Ask, Stages, Files
<1>1. PICK op \in Uploads \cup {"remove"}, at \in {"put", "find"} :
         /\ Ask(p, op, at, item)
         /\ op = "remove" <=> at = "find"
         /\ at = "put" => item \notin taken /\ \A q \in Pages : mut[q].item # item
  BY MediaAsking DEF Uploads
<1>2. /\ mut[p].op = "none" /\ mut[p].at = "none" /\ mut[p].item = None
      /\ mut'[p].op = op /\ mut'[p].at = at /\ mut'[p].item = item
      /\ \A q \in Pages \ {p} : mut'[q] = mut[q]
      /\ UNCHANGED <<table, db, depot, taken, torn>>
  BY <1>1 DEF Ask, NoRequest, AdminTypeOK, store, history
<1>3. Stages'
  BY <1>1, <1>2 DEF Stages, Uploads
<1>4. ASSUME NEW i \in Items \ torn PROVE Kept(i)'
  <2>1. Kept(i) /\ i # None
    BY AdminTablesAssumption DEF Files
  <2>2. CASE i # item
    <3>1. Spared(i)
      BY <1>2, <2>1, <2>2 DEF Spared
    <3> QED BY <2>1, <3>1, KeptApart
  <2>3. CASE i = item
    <3>1. OneUpload(i)'
      BY <1>1, <1>2, <2>1, <2>3 DEF Kept, OneUpload, Uploads
    <3>2. Fresh(i)'
      BY <1>1, <1>2, <2>1, <2>3 DEF Kept, Fresh, Busy, Uploads
    <3>3. Stocked(i)'
      BY <1>1, <1>2, <2>1, <2>3 DEF Kept, Stocked, Busy, Uploads
    <3>4. Gone(i)' /\ Paired(i)'
      BY <1>1, <1>2, <2>1, <2>3 DEF Kept, Gone, Paired, Busy
    <3> QED BY <3>1, <3>2, <3>3, <3>4 DEF Kept
  <2> QED BY <2>2, <2>3
<1> QED BY <1>2, <1>3, <1>4 DEF Files

\* A request to remove a file finds its row, and then the file is not being uploaded
\* for the first time; or it finds none and ends.
LEMMA FileFound ==
    ASSUME AdminTypeOK, Stages, Files, table = "media", NEW p \in Pages, FindRow(p)
    PROVE  Stages' /\ Files'
<1>1. /\ mut[p].at = "find" /\ mut[p].op = "remove"
      /\ \A q \in Pages \ {p} : mut'[q] = mut[q]
      /\ UNCHANGED <<table, db, depot, taken, torn>>
  BY DEF FindRow, Failed, Stages, Uploads, store, history, AdminTypeOK
<1>2. CASE mut[p].item \notin db.has
  <2>1. mut'[p].op = "none" /\ mut'[p].at = "none" /\ mut'[p].item = None
    BY <1>2 DEF FindRow, Failed, NoRequest, Granting, AdminTypeOK
  <2>2. Stages'
    BY <1>1, <2>1 DEF Stages
  <2>3. ASSUME NEW i \in Items \ torn PROVE Kept(i)'
    <3>1. Spared(i)
      BY <1>1, <2>1, AdminTablesAssumption DEF Spared
    <3> QED BY <3>1, KeptApart DEF Files
  <2> QED BY <1>1, <2>2, <2>3 DEF Files
<1>3. CASE mut[p].item \in db.has
  <2>1. mut'[p].op = "remove" /\ mut'[p].at = "save" /\ mut'[p].item = mut[p].item
    BY <1>1, <1>3 DEF FindRow, Granting, AdminTypeOK, Mutation
  <2>2. Stages'
    BY <1>1, <2>1 DEF Stages
  <2>3. ASSUME NEW i \in Items \ torn, i = mut[p].item PROVE Kept(i)'
    <3>1. Kept(i) /\ i \in taken
      BY <1>3, <2>3 DEF Files, Kept, Fresh
    <3>2. OneUpload(i)'
      BY <1>1, <2>1, <3>1 DEF Kept, OneUpload, Uploads
    <3>3. Fresh(i)'
      BY <1>1, <2>1, <3>1 DEF Kept, Fresh, Busy
    <3>4. Stocked(i)'
      BY <1>1, <1>3, <2>1, <2>3, <3>1 DEF Kept, Stocked, Busy, Uploads
    <3>5. Gone(i)' /\ Paired(i)'
      BY <1>1, <2>1, <3>1 DEF Kept, Gone, Paired, Busy
    <3> QED BY <3>2, <3>3, <3>4, <3>5 DEF Kept
  <2>4. ASSUME NEW i \in Items \ torn, i # mut[p].item PROVE Kept(i)'
    <3>1. Spared(i)
      BY <1>1, <2>1, <2>4 DEF Spared
    <3> QED BY <3>1, KeptApart DEF Files
  <2> QED BY <1>1, <2>2, <2>3, <2>4 DEF Files
<1> QED BY <1>2, <1>3

\* A request that moves leaves the others where they are.
LEMMA MovedFields ==
    ASSUME AdminTypeOK, NEW p \in Pages, NEW at, mut' = Moved(p, at)
    PROVE  /\ mut'[p].at = at /\ mut'[p].op = mut[p].op /\ mut'[p].item = mut[p].item
           /\ \A q \in Pages \ {p} : mut'[q].at = mut[q].at /\ mut'[q].op = mut[q].op /\ mut'[q].item = mut[q].item
BY DEF Moved, AdminTypeOK, Mutation

\* The first save of an upload gives the object its row, that of a removal takes it.
LEMMA FileSaved ==
    ASSUME AdminTypeOK, Stages, Files, table = "media", NEW p \in Pages, SaveRow(p)
    PROVE  Stages' /\ Files'
<1> DEFINE it == mut[p].item
<1>1. mut[p].at = "save" /\ mut[p].op \in Uploads \cup {"remove"} /\ UNCHANGED <<table, depot, torn>>
  BY DEF SaveRow, Stages
<1>2. taken' = taken /\ mut' = Moved(p, NextStop(p)) /\ db' = Saved(p)
  BY <1>1 DEF SaveRow, Uploads
<1>3. NextStop(p) = IF mut[p].op = "remove" THEN "delete" ELSE "url"
  BY <1>1 DEF NextStop, Uploads
<1>4. db'.has = IF mut[p].op = "remove" THEN db.has \ {it} ELSE db.has \cup {it}
  BY <1>1, <1>2 DEF Saved, Uploads, Granting, AdminTypeOK
<1>5. /\ mut'[p].at = NextStop(p) /\ mut'[p].op = mut[p].op /\ mut'[p].item = it
      /\ \A q \in Pages \ {p} : mut'[q].at = mut[q].at /\ mut'[q].op = mut[q].op /\ mut'[q].item = mut[q].item
  BY <1>2, MovedFields
<1> HIDE DEF it
<1>6. Stages'
  BY <1>1, <1>3, <1>5 DEF Stages
<1>7. ASSUME NEW i \in Items \ torn, i = it PROVE Kept(i)'
  <2>0. Kept(i) /\ mut[p].item = i /\ i \in taken
    BY <1>1, <1>7 DEF Files, Kept, Fresh, it
  <2>1. OneUpload(i)'
    BY <1>5, <1>7, <2>0 DEF Kept, OneUpload
  <2>2. Fresh(i)'
    BY <1>1, <1>2, <1>3, <1>5, <2>0 DEF Kept, Fresh, Busy
  <2>3. CASE mut[p].op = "remove"
    <3>1. Stocked(i)'
      BY <1>1, <1>3, <1>5, <2>0, <2>3 DEF Kept, Stocked, Busy, Uploads
    <3>2. Gone(i)'
      BY <1>4, <1>7, <2>3 DEF Gone
    <3>3. Paired(i)'
      BY <1>1, <1>3, <1>4, <1>5, <1>7, <2>0, <2>3 DEF Kept, Paired, Busy
    <3> QED BY <2>1, <2>2, <3>1, <3>2, <3>3 DEF Kept
  <2>4. CASE mut[p].op \in Uploads
    <3>0. Busy(p, Uploads, i, {"save"}) /\ mut[p].op # "remove"
      BY <1>1, <2>0, <2>4 DEF Busy, Uploads
    <3>1. i \in depot /\ \A q \in Pages : mut[q].item = i /\ mut[q].op = "remove" => mut[q].at = "find"
      BY <2>0, <3>0 DEF Kept, Stocked
    <3>2. Stocked(i)'
      BY <1>3, <1>5, <2>0, <3>0 DEF Kept, OneUpload, Stocked, Busy
    <3>3. Gone(i)'
      BY <1>3, <1>5, <2>0, <3>0, <3>1 DEF Gone, Stages, Uploads
    <3>4. Paired(i)'
      BY <1>1, <1>4, <1>7, <3>0, <3>1 DEF Paired
    <3> QED BY <2>1, <2>2, <3>2, <3>3, <3>4 DEF Kept
  <2> QED BY <1>1, <2>3, <2>4
<1>8. ASSUME NEW i \in Items \ torn, i # it PROVE Kept(i)'
  <2>1. mut[p].item # i
    BY <1>8 DEF it
  <2>2. Spared(i)
    BY <1>1, <1>2, <1>4, <1>5, <1>8, <2>1 DEF Spared
  <2> QED BY <2>1, <2>2, KeptApart DEF Files
<1> QED BY <1>1, <1>6, <1>7, <1>8 DEF Files

\* The object of an upload is put: nobody else uploads it.
LEMMA FilePut ==
    ASSUME AdminTypeOK, Stages, Files, table = "media", NEW p \in Pages, PutObject(p)
    PROVE  Stages' /\ Files'
<1> DEFINE it == mut[p].item
<1>1. mut[p].at = "put" /\ mut[p].op \in Uploads /\ UNCHANGED <<table, db, torn>>
  BY DEF PutObject, Stages, history
<1>2. depot' = depot \cup {it} /\ taken' = taken \cup {it}
  BY DEF PutObject
<1>3. /\ mut'[p].at = "save" /\ mut'[p].op = mut[p].op /\ mut'[p].item = it
      /\ \A q \in Pages \ {p} : mut'[q] = mut[q]
  BY DEF PutObject, AdminTypeOK, Mutation
<1> HIDE DEF it
<1>4. Stages'
  BY <1>1, <1>3 DEF Stages
<1>5. ASSUME NEW i \in Items \ torn, i = it PROVE Kept(i)'
  <2>0. Kept(i) /\ mut[p].item = i /\ Busy(p, Uploads, i, {"put"})
    BY <1>1, <1>5 DEF Files, Busy, it
  <2>1. i \notin taken /\ i \notin db.has /\ \A q \in Pages : mut[q].item = i => mut[q].at \in {"put", "find"}
    BY <2>0 DEF Kept, Fresh
  <2>2. OneUpload(i)'
    BY <1>3, <1>5, <2>0 DEF Kept, OneUpload
  <2>3. \A q \in Pages : Busy(q, Uploads, i, {"put"}) => q = p
    BY <1>1, <2>0 DEF Kept, OneUpload, Busy
  <2>4. Fresh(i)'
    BY <1>2, <1>3, <1>5, <2>3 DEF Fresh, Busy
  <2>5. \A q \in Pages : mut[q].item = i /\ mut[q].op = "remove" => mut[q].at = "find"
    BY <2>1 DEF Stages, Uploads
  <2>6. Stocked(i)'
    BY <1>1, <1>2, <1>3, <1>5, <2>1, <2>5 DEF Stocked, Busy, Uploads
  <2>7. Gone(i)' /\ Paired(i)'
    BY <1>1, <1>2, <1>3, <1>5, <2>1 DEF Gone, Paired, Busy
  <2> QED BY <2>2, <2>4, <2>6, <2>7 DEF Kept
<1>6. ASSUME NEW i \in Items \ torn, i # it PROVE Kept(i)'
  <2>1. mut[p].item # i
    BY <1>6 DEF it
  <2>2. Spared(i)
    BY <1>1, <1>2, <1>3, <1>6, <2>1 DEF Spared
  <2> QED BY <2>2, KeptApart DEF Files
<1> QED BY <1>1, <1>4, <1>5, <1>6 DEF Files

\* The second save of an upload adds a row only if the first was removed meanwhile.
LEMMA FileAddressed ==
    ASSUME AdminTypeOK, Stages, Files, table = "media", NEW p \in Pages, SaveUrl(p)
    PROVE  Stages' /\ Files'
<1> DEFINE it == mut[p].item
           at == IF mut[p].op = "avatar" THEN "answer" ELSE "clear"
<1>1. mut[p].at = "url" /\ mut[p].op \in Uploads /\ UNCHANGED <<table, depot, taken>>
  BY DEF SaveUrl, Stages
<1>2. mut' = Moved(p, at)
  BY DEF SaveUrl
<1>3. db'.has = db.has \cup {it} /\ torn' = IF it \in db.has THEN torn ELSE torn \cup {it}
  BY DEF SaveUrl, AdminTypeOK
<1>4. at \in {"answer", "clear"}
  OBVIOUS
<1> HIDE DEF at
<1>5. /\ mut'[p].at = at /\ mut'[p].op = mut[p].op /\ mut'[p].item = it
      /\ \A q \in Pages \ {p} : mut'[q].at = mut[q].at /\ mut'[q].op = mut[q].op /\ mut'[q].item = mut[q].item
  BY <1>2, MovedFields
<1> HIDE DEF it
<1>6. Stages'
  BY <1>1, <1>4, <1>5 DEF Stages
<1>7. ASSUME NEW i \in Items \ torn', i = it PROVE Kept(i)'
  <2>0. i \in db.has /\ i \in Items \ torn /\ mut[p].item = i
    BY <1>3, <1>7 DEF it
  <2>1. Kept(i)
    BY <2>0 DEF Files
  <2>2. OneUpload(i)'
    BY <1>5, <1>7, <2>1, <2>0 DEF Kept, OneUpload
  <2>3. Fresh(i)'
    BY <1>1, <1>4, <1>5, <2>0, <2>1 DEF Kept, Fresh, Busy
  <2>4. Stocked(i)'
    BY <1>1, <1>4, <1>5, <2>0, <2>1 DEF Kept, Stocked, Busy, Uploads
  <2>5. Gone(i)' /\ Paired(i)'
    BY <1>1, <1>3, <1>4, <1>5, <2>0, <2>1 DEF Kept, Gone, Paired, Busy
  <2> QED BY <2>2, <2>3, <2>4, <2>5 DEF Kept
<1>8. ASSUME NEW i \in Items \ torn', i # it PROVE Kept(i)'
  <2>1. mut[p].item # i /\ i \in Items \ torn
    BY <1>3, <1>8 DEF it
  <2>2. Spared(i)
    BY <1>1, <1>3, <1>5, <1>8, <2>1 DEF Spared
  <2> QED BY <2>1, <2>2, KeptApart DEF Files
<1> QED BY <1>1, <1>6, <1>7, <1>8 DEF Files

\* The object is deleted, and its row is gone already.
LEMMA FileDeleted ==
    ASSUME AdminTypeOK, Stages, Files, table = "media", NEW p \in Pages, DeleteObject(p)
    PROVE  Stages' /\ Files'
<1> DEFINE it == mut[p].item
<1>1. mut[p].at = "delete" /\ mut[p].op = "remove" /\ UNCHANGED <<table, db, taken, torn>>
  BY DEF DeleteObject, Stages, Uploads, history
<1>2. depot' = depot \ {it}
  BY DEF DeleteObject
<1>3. /\ mut'[p].at = "clear" /\ mut'[p].op = mut[p].op /\ mut'[p].item = it
      /\ \A q \in Pages \ {p} : mut'[q] = mut[q]
  BY DEF DeleteObject, AdminTypeOK, Mutation
<1> HIDE DEF it
<1>4. Stages'
  BY <1>1, <1>3 DEF Stages
<1>5. ASSUME NEW i \in Items \ torn, i = it PROVE Kept(i)'
  <2>0. Kept(i) /\ mut[p].item = i /\ i \notin db.has /\ i \in taken
    BY <1>1, <1>5 DEF Files, Kept, Fresh, Gone, it
  <2>1. \A q \in Pages : ~Busy(q, Uploads, i, {"save"})
    BY <1>1, <2>0 DEF Kept, Stocked
  <2>2. OneUpload(i)'
    BY <1>3, <1>5, <2>0 DEF Kept, OneUpload
  <2>3. Fresh(i)'
    BY <1>1, <1>3, <2>0 DEF Kept, Fresh, Busy
  <2>4. Stocked(i)'
    BY <1>3, <2>1 DEF Stocked, Busy
  <2>5. Gone(i)' /\ Paired(i)'
    BY <1>1, <1>2, <1>5, <2>0 DEF Gone, Paired
  <2> QED BY <2>2, <2>3, <2>4, <2>5 DEF Kept
<1>6. ASSUME NEW i \in Items \ torn, i # it PROVE Kept(i)'
  <2>1. mut[p].item # i
    BY <1>6 DEF it
  <2>2. Spared(i)
    BY <1>1, <1>2, <1>3, <1>6, <2>1 DEF Spared
  <2> QED BY <2>2, KeptApart DEF Files
<1> QED BY <1>1, <1>4, <1>5, <1>6 DEF Files

\* A request that has written all it had to, or breaks.
LEMMA FilesAnswered ==
    ASSUME AdminTypeOK, Shape, Stages, Files, table = "media", NEW p \in Pages, ClearKeys(p) \/ Answer(p) \/ Break(p)
    PROVE  Stages' /\ Files'
<1>1. UNCHANGED <<table, db, depot, taken>> /\ \A q \in Pages \ {p} : mut'[q] = mut[q]
  BY DEF ClearKeys, Answer, Break, Failed, store, AdminTypeOK
<1>2. CASE ClearKeys(p)
  <2>1. /\ mut[p].at = "clear" /\ mut'[p].at = "answer" /\ mut'[p].op = mut[p].op /\ mut'[p].item = mut[p].item
        /\ torn' = torn
    BY <1>2 DEF ClearKeys, AdminTypeOK, Mutation
  <2>2. Stages'
    BY <1>1, <2>1 DEF Stages
  <2>3. ASSUME NEW i \in Items \ torn PROVE Kept(i)'
    <3>1. Spared(i)
      BY <1>1, <2>1 DEF Spared
    <3> QED BY <3>1, KeptApart DEF Files
  <2> QED BY <1>1, <2>1, <2>2, <2>3 DEF Files
<1>3. CASE Answer(p) \/ Break(p)
  <2>1. mut'[p].op = "none" /\ mut'[p].at = "none" /\ mut'[p].item = None
    BY <1>3 DEF Answer, Break, Failed, NoRequest, AdminTypeOK
  <2>2. Stages'
    BY <1>1, <2>1 DEF Stages
  <2>3. ASSUME NEW i \in Items \ torn' PROVE i \notin torn /\ (mut[p].item = i => mut[p].at \in {"find", "answer"})
    BY <1>3 DEF Answer, Break
  <2>4. ASSUME NEW i \in Items \ torn' PROVE Kept(i)'
    <3>1. Spared(i)
      BY <1>1, <2>1, <2>3, AdminTablesAssumption DEF Spared
    <3> QED BY <2>3, <3>1, KeptApart DEF Files
  <2> QED BY <1>1, <2>2, <2>4 DEF Files
<1> QED BY <1>2, <1>3

\* Every step keeps rows and objects together.
LEMMA FilesStep ==
    ASSUME AdminTypeOK, Shape, Stages, Files, [AdminNext]_admin
    PROVE  Stages' /\ Files'
<1>1. CASE table # "media"
  <2>1. table' = table
    BY AskingCases DEF AdminNext, admin, Reading, Refetch, LookUp, Query, Show, FetchFails, SaveSelection, Opened, Ask,
       Serving, FindRow, SaveRow, PutObject, SaveUrl, DeleteObject, ClearKeys, Answer, Break, Cache, CacheExpires,
       RevokedElsewhere
  <2> QED BY <1>1, <2>1 DEF Stages, Files
<1>2. CASE table = "media"
  <2>1. ASSUME UNCHANGED <<table, db, depot, taken, torn, mut>> PROVE Stages' /\ Files'
    <3>1. Stages'
      BY <2>1 DEF Stages
    <3>2. ASSUME NEW i \in Items \ torn PROVE Kept(i)'
      <4>1. Spared(i)
        BY <1>2, <2>1 DEF Spared
      <4> QED BY <1>2, <4>1, KeptApart DEF Files
    <3> QED BY <2>1, <3>1, <3>2 DEF Files
  <2>2. ASSUME NEW p \in Pages, Reading(p) PROVE Stages' /\ Files'
    BY <2>1, <2>2 DEF Reading, Refetch, LookUp, Query, Show, FetchFails, store, history
  <2>3. ASSUME NEW p \in Pages, Serving(p) PROVE Stages' /\ Files'
    BY <1>2, <2>3, FileFound, FileSaved, FilePut, FileAddressed, FileDeleted, FilesAnswered DEF Serving
  <2>4. ASSUME NEW reply \in pend, Cache(reply) PROVE Stages' /\ Files'
    BY <2>1, <2>4 DEF Cache, store, history
  <2>5. CASE CacheExpires
    BY <2>1, <2>5 DEF CacheExpires, store, history
  <2>6. ASSUME NEW item \in Items, RevokedElsewhere(item) PROVE Stages' /\ Files'
    BY <1>2, <2>6 DEF RevokedElsewhere, Granting
  <2>7. CASE UNCHANGED admin
    BY <2>1, <2>7 DEF admin
  <2> QED BY <2>2, <2>3, <2>4, <2>5, <2>6, <2>7, FilesAsking DEF AdminNext
<1> QED BY <1>1, <1>2

\* A row of the media table has its object and an object its row, once the requests
\* about them have ended, unless one broke or overtook the upload.
THEOREM ObjectsHaveRows == AdminSpec => []StoreMatches
<1>1. Init => Stages /\ Files
  BY AdminTablesAssumption DEF Init, Stages, Files, NoRequest, Granting, Kept, OneUpload, Fresh, Stocked, Gone, Paired, Busy
<1>2. AdminTypeOK /\ Shape /\ Stages /\ Files /\ [AdminNext]_admin => (AdminTypeOK /\ Shape /\ Stages /\ Files)'
  BY TypedStep, FilesStep
<1>3. Files => StoreMatches
  BY DEF Files, StoreMatches, Kept, Paired, Busy
<1> QED BY InitTyped, <1>1, <1>2, <1>3, PTL DEF AdminSpec
=============================================================================
