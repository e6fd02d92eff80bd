------------------------------ MODULE BoardPage ------------------------------
(***************************************************************************)
(* The interactive board page (useKanbanBoard): drag and drop with         *)
(* positions halfway between two neighbours, the optimistic copy of the    *)
(* board in the react-query cache, the requests in flight and the refetch  *)
(* that reconciles the copy with the server.                               *)
(*                                                                         *)
(* A request runs on the server in one step (KanbanAtomic).  Titles are    *)
(* left out, and with them the edits.  A position is a natural number: the *)
(* step STEP is divisible by 2 as often as the user may act                *)
(* (DropAssumption), so a midpoint is exact.                               *)
(***************************************************************************)
EXTENDS Naturals, FiniteSets

CONSTANTS
    Columns, Cards,   \* ids
    Root,             \* the board itself, in which the columns are
    STEP,             \* POSITION_STEP
    New, Gone,        \* a row not yet inserted, a row deleted
    None, Asked,      \* no fetch in flight; one the server has not answered
    MaxActs,          \* bound: what the user does in one behaviour
    MaxSent,          \* bound: requests in flight
    MaxFaults         \* bound: requests and fetches that fail

Items == Columns \cup Cards
Place == [in : Columns \cup {Root}, pos : Nat]

Board == [Items -> Place \cup {New, Gone}]

\* STEP can be halved as often as the user may act.
ASSUME DropAssumption ==
    /\ MaxActs \in Nat /\ MaxSent \in Nat /\ MaxFaults \in Nat /\ STEP \in Nat
    /\ \E half \in [0..MaxActs -> 1..STEP] :
          half[0] = STEP /\ \A n \in 1..MaxActs : half[n - 1] = 2 * half[n]

\* Ids are told apart, and None and Asked from what there is.
ASSUME IdAssumption ==
    /\ IsFiniteSet(Columns) /\ IsFiniteSet(Cards) /\ Columns \cap Cards = {} /\ Root \notin Columns
    /\ None \notin Nat \cup Place \cup Board \cup {Asked} /\ Asked \notin Board

VARIABLES
    server,   \* the rows of this board
    page,     \* the same in the cache under ['board', id]
    sent,     \* the requests whose handler on the server has not ended, or whose
              \* reply the page has not seen
    fetch,    \* the getBoard in flight: None, Asked, or the board it read
    unsure,   \* since the last fetch was sent it failed, or a request may have
              \* changed the server without the page being told
    acts, faults

vars == <<server, page, sent, fetch, unsure, acts, faults>>

-----------------------------------------------------------------------------
(* Boards *)

\* On a page, a row it has not seen and a deleted row look the same.
Shown(b, x) == b[x] \notin {New, Gone} /\ (x \in Cards => b[b[x].in] \notin {New, Gone})

Listed(b, c) == {x \in Items : Shown(b, x) /\ b[x].in = c}

\* The last position of a set of items; 0 when there is none.
LastPos(b, S) == IF S = {} THEN 0
                 ELSE CHOOSE p \in {b[x].pos : x \in S} : \A x \in S : b[x].pos <= p

(* Positions *)

\* A slip to test DropsWhereShown with: the item after the target is used.
MidpointAfter(prev, next) ==
    IF next = None THEN (IF prev = None THEN STEP ELSE prev + STEP)
    ELSE next + STEP \div 2

\* A slip to test TypeOK with: an empty list has no position to start from.
MidpointOfNothing(prev, next) ==
    IF prev = None
    THEN IF next = None THEN None ELSE next \div 2
    ELSE IF next = None THEN prev + STEP ELSE (prev + next) \div 2

\* midpoint
Midpoint(prev, next) ==
    IF prev = None
    THEN IF next = None THEN STEP ELSE next \div 2
    ELSE IF next = None THEN prev + STEP ELSE (prev + next) \div 2

\* The positions of the item before item y of S in the order of the page; items
\* at the same position are in any order.
Before(b, S, y) ==
    LET tied == {z \in S \ {y} : b[z].pos = b[y].pos}
        less == {z \in S : b[z].pos < b[y].pos}
    IN  (IF less = {} THEN {None} ELSE {LastPos(b, less)})
           \cup {b[z].pos : z \in tied}

\* Where a drop on item y puts something, among the items S of y's list.
InsertedAt(b, S, y) == {Midpoint(prev, b[y].pos) : prev \in Before(b, S, y)}

AppendedAt(b, S) == Midpoint(IF S = {} THEN None ELSE LastPos(b, S), None)

-----------------------------------------------------------------------------
(* Requests.  "asked": the server has not run it; "ok", "refused": it has;    *)
(* waiting: the page still waits for the reply.                               *)

Request ==
    [kind : {"move", "create", "remove"}, id : Items,
     to : Place \cup {None}, state : {"asked", "ok", "refused"}, waiting : BOOLEAN]

TypeOK ==
    /\ server \in Board /\ page \in Board
    /\ sent \in SUBSET Request
    /\ fetch \in {None, Asked} \cup Board
    /\ unsure \in BOOLEAN
    /\ acts \in 0..MaxActs /\ faults \in 0..MaxFaults

NewRequest(kind, x, to) ==
    [kind |-> kind, id |-> x, to |-> to, state |-> "asked", waiting |-> TRUE]

Send(m) ==
    /\ acts < MaxActs /\ acts' = acts + 1
    /\ m \notin sent
    /\ Cardinality({n \in sent : n.waiting}) < MaxSent
    /\ sent' = sent \cup {m}

\* writeBoard and mutate
Drop(x, place) ==
    /\ page' = [page EXCEPT ![x] = place]
    /\ Send(NewRequest("move", x, place))
    /\ UNCHANGED <<server, fetch, unsure, faults>>

\* handleDragEnd of a column: it is put before the column it is dropped on, or
\* that holds the card it is dropped on; on itself, nothing happens.
DropColumn(c, over) ==
    LET target == IF over \in Columns THEN over ELSE page[over].in
    IN  /\ Shown(page, c) /\ Shown(page, over) /\ target # c
        /\ \E p \in InsertedAt(page, Listed(page, Root) \ {c}, target) :
              Drop(c, [in |-> Root, pos |-> p])

\* handleDragEnd of a card.  The list it lands in is taken without it, so that a
\* card dropped on itself goes to the end, as on the body of a column; the test
\* for a drop in place compares it with a member of that list and never holds.
DropCard(k, over) ==
    LET dest == IF over \in Columns THEN over ELSE page[over].in
        others == Listed(page, dest) \ {k}
    IN  /\ Shown(page, k) /\ Shown(page, over)
        /\ \E p \in IF over \in others THEN InsertedAt(page, others, over)
                    ELSE {AppendedAt(page, others)} :
              Drop(k, [in |-> dest, pos |-> p])

\* createColumnMutation and createCardMutation: no optimistic write.  The column
\* was on the page when the form was opened, and may be gone by now.
Create(x, c) ==
    /\ \A n \in sent : n.id # x
    /\ page[x] = New /\ server[x] = New
    /\ IF x \in Columns THEN c = Root ELSE c \in Columns /\ page[c] # New
    /\ Send(NewRequest("create", x, [in |-> c, pos |-> 0]))
    /\ UNCHANGED <<server, page, fetch, unsure, faults>>

\* deleteColumnMutation and deleteCardMutation: no optimistic write.  The item was
\* on the page when the user was asked to confirm, and may be gone by now.
Remove(x) ==
    /\ page[x] # New
    /\ Send(NewRequest("remove", x, None))
    /\ UNCHANGED <<server, page, fetch, unsure, faults>>

-----------------------------------------------------------------------------
(* The server *)

\* What the services answer with 200 or 201: KanbanAtomic's Add, MoveWithin,
\* MoveAcross and Delete.
Accepts(m) ==
    /\ m.kind = "create" \/ Shown(server, m.id)
    /\ m.kind # "remove" /\ m.id \in Cards => Shown(server, m.to.in)

Effect(m) ==
    CASE m.kind = "move" -> [server EXCEPT ![m.id] = m.to]
      [] m.kind = "create" ->
           [server EXCEPT ![m.id] =
              [m.to EXCEPT !.pos = LastPos(server, Listed(server, m.to.in)) + STEP]]
      [] m.kind = "remove" ->
           [x \in Items |-> IF x = m.id \/ x \in Listed(server, m.id)
                            THEN Gone ELSE server[x]]

\* Requests in flight together may run in any order.
Serve(m) ==
    /\ m \in sent /\ m.state = "asked"
    /\ server' = IF Accepts(m) THEN Effect(m) ELSE server
    /\ unsure' = (unsure \/ ~m.waiting)
    /\ LET done == [m EXCEPT !.state = IF Accepts(m) THEN "ok" ELSE "refused"]
       IN  sent' = (sent \ {m}) \cup IF m.waiting THEN {done} ELSE {}
    /\ UNCHANGED <<page, fetch, acts, faults>>

-----------------------------------------------------------------------------
(* Replies *)

\* invalidateQueries: the fetch in flight, if any, is cancelled for a new one.
Invalidate == fetch' = Asked /\ unsure' = FALSE

\* A slip to test Reconciled with: a fetch already in flight is kept.
SettledKept(m) ==
    /\ m \in sent /\ m.waiting /\ m.state = "ok"
    /\ sent' = sent \ {m}
    /\ IF fetch = None THEN Invalidate ELSE UNCHANGED <<fetch, unsure>>
    /\ UNCHANGED <<server, page, acts, faults>>

\* onSuccess (invalidateKeys) of the creates and removes, onSettled of the moves.
Settled(m) ==
    /\ m \in sent /\ m.waiting /\ m.state = "ok"
    /\ sent' = sent \ {m}
    /\ Invalidate
    /\ UNCHANGED <<server, page, acts, faults>>

\* A reply with an error status, a lost reply, or no reply for 30 seconds, after
\* which the server may still run the request.  The onError of a move restores
\* ctx.prev, but no onMutate sets it: the page stays as it is.  Only a move has
\* an onSettled.
Failed(m) ==
    /\ m \in sent /\ m.waiting
    /\ \/ m.state = "refused" /\ UNCHANGED faults
       \/ m.state # "refused" /\ faults < MaxFaults /\ faults' = faults + 1
    /\ sent' = (sent \ {m}) \cup
               IF m.state = "asked" THEN {[m EXCEPT !.waiting = FALSE]} ELSE {}
    /\ IF m.kind = "move" THEN Invalidate
       ELSE UNCHANGED fetch /\ unsure' = (unsure \/ m.state = "ok")
    /\ UNCHANGED <<server, page, acts>>

\* A request nobody waits for is lost on the way.
Lost(m) ==
    /\ m \in sent /\ ~m.waiting
    /\ sent' = sent \ {m}
    /\ UNCHANGED <<server, page, fetch, unsure, acts, faults>>

-----------------------------------------------------------------------------
(* The query *)

FetchRead ==
    /\ fetch = Asked
    /\ fetch' = server
    /\ UNCHANGED <<server, page, sent, unsure, acts, faults>>

\* The reply replaces the cached board, with whatever was written to it since.
FetchDone ==
    /\ fetch \notin {None, Asked}
    /\ page' = fetch
    /\ fetch' = None
    /\ UNCHANGED <<server, sent, unsure, acts, faults>>

FetchFailed ==
    /\ fetch # None
    /\ faults < MaxFaults /\ faults' = faults + 1
    /\ fetch' = None
    /\ unsure' = TRUE
    /\ UNCHANGED <<server, page, sent, acts>>

\* The window gets the focus, and the board, stale at once, is fetched again.
Refocus ==
    /\ fetch = None
    /\ Invalidate
    /\ UNCHANGED <<server, page, sent, acts, faults>>

-----------------------------------------------------------------------------

\* Rows as appends have put them: multiples of STEP, each position taken once.
Init ==
    /\ \E rank \in [Items -> 1..Cardinality(Items)], home \in [Cards -> Columns \cup {New}] :
          /\ \A c \in Columns : rank[c] <= Cardinality(Columns)
          /\ \A k \in Cards : rank[k] <= Cardinality(Cards)
          /\ \A x, y \in Items : rank[x] = rank[y] /\ (x \in Cards <=> y \in Cards) => x = y
          /\ server = [x \in Items |->
                         IF x \in Columns THEN [in |-> Root, pos |-> STEP * rank[x]]
                         ELSE IF home[x] = New THEN New
                         ELSE [in |-> home[x], pos |-> STEP * rank[x]]]
    /\ page = server
    /\ sent = {} /\ fetch = None /\ unsure = FALSE
    /\ acts = 0 /\ faults = 0

Next ==
    \/ \E c \in Columns, over \in Items : DropColumn(c, over)
    \/ \E k \in Cards, over \in Items : DropCard(k, over)
    \/ \E x \in Items, c \in Columns \cup {Root} : Create(x, c)
    \/ \E x \in Items : Remove(x)
    \/ \E m \in sent : Serve(m) \/ Settled(m) \/ Failed(m) \/ Lost(m)
    \/ FetchRead \/ FetchDone \/ FetchFailed \/ Refocus

Spec == Init /\ [][Next]_vars

-----------------------------------------------------------------------------
(* Properties *)

\* Whatever the order in which requests run, replies come back and fetches read:
\* when everything has come back, the page shows what the server has.
Reconciled == sent = {} /\ fetch = None /\ ~unsure => page = server

Distinct(b, S) == \A x, y \in S : b[x].pos = b[y].pos => x = y

\* The item a drop of x on over puts x before, or the column it puts x last in.
Target(x, over) == IF x \in Columns /\ over \in Cards THEN page[over].in ELSE over

\* An item dropped on another is shown right before it, and a card dropped on the
\* body of a column last, as long as no two neighbours share a position.
DropsWhereShown ==
    [][\A x, over \in Items :
         (x # over /\ IF x \in Columns THEN DropColumn(x, over) ELSE DropCard(x, over)) =>
           LET y == Target(x, over)
               S == Listed(page, page'[x].in) \ {x}
               at == page'[x].pos
           IN  Distinct(page, S) =>
                 \A z \in S : IF y \in S /\ page[z].pos >= page[y].pos
                             THEN at < page[z].pos ELSE page[z].pos < at]_vars

\* A move the server refuses is rolled back (FEATURES.md: "rollback on error"):
\* the page does not go on showing it, unless that is where the server has it.
RollbackOnError ==
    [][\A m \in sent : m.kind = "move" /\ m.state = "refused" /\ m \notin sent' =>
          page'[m.id] # m.to \/ server[m.id] = m.to]_vars
=============================================================================
