# Verification of the Kanban application (Nestplate)

TLA+ models of this repository: a NestJS backend over PostgreSQL
(`backend/src`) with boards, columns and cards on top of an account template
(sessions, roles, invitations, notifications, media), and a React front end
(`frontend/src`). Every definition is translated from the code;
`PROJECT.json` gives the lines under `"map"`. What is outside the repository
(TypeORM, PostgreSQL, Redis, react-query, socket.io, the identity provider,
HTTP) is modelled from how the code uses it and marked external there.

Contents: 1 inventory, 2 what is modelled, 3 the runs, 4 the proofs, 5 what the
checks found, 6 what is left out, 7 plan.

## 1. Inventory

The backend is a single process, but every handler gives up the thread at each
`await`: any other handler may run between two of its queries, and except for
TypeORM's own `save` and `softRemove` and the migrations nothing is in a
transaction and nothing takes a lock. So for each component the questions are:
what did a handler read before an `await` and use after it, and what is left
when it stops halfway.

| Component | State | Operations | Hard behaviour | Correct when | Modules |
|---|---|---|---|---|---|
| **Kanban services** (`boards/`, `columns/`, `cards/`, `common/services/base.service.ts`) | the tables `boards`, `board_columns`, `cards`, each with `deletedAt` | list, open, create, update, remove; move of a column and of a card | ownership checked in one query, row written by another; append position computed in a query of its own; `softRemove` deletes what it had in memory; `save` writes a whole entity back | boards are owner-private; deletion cascades and is final; a move places one row; an edit moves nothing; an append is last | `KanbanData`, `Kanban`, `KanbanAtomic` |
| **Board page** (`hooks/use-kanban-board.ts`, `use-mutations.ts`) | cached board, requests in flight, fetch in flight | drag and drop, create, delete, refetch | optimistic write that a refetch may overwrite; requests overtaking each other; requests that fail or time out and still run | the page ends up showing the server's board; an item is shown where it was dropped; a failed move is rolled back | `BoardPage` |
| **API client** (`lib/api.ts`) | the token cookie, refresh in flight, queue of waiting calls | request, 401, refresh, retry, logout | many calls meet a 401 at once; a refresh that fails, or ends after a logout | one refresh at a time; every waiting call ends | `Session`, `SingleFlight` |
| **Sessions** (`auth/auth.service.ts`, `auth.controller.ts`, `jwt.strategy.ts`, `csrf.middleware.ts`) and **SSO logins** (`sso/`) | cookies, blacklisted tokens, revoked SSO sessions | login, Google login, SSO login, silent login, refresh, logout, single logout, back-channel logout | revocation between two reads of a refresh; two overlapping logouts; visitors sent to and fro by a silent login | a request whose token was dead when it was sent is refused | `Session` |
| **One-time tokens** (`auth.service.ts`) and **invitations** (`invitations/`) | links with `usedAt`/`acceptedAt`, `expiresAt`; accounts | forgot and reset password, verify address, invite, resend, revoke, accept | check, use and mark are three queries; a saved copy undoes what happened since | a link lets a request in only while it is good; what is done is undone by nobody but an overlapping request | `Links`, `GuardedLink` |
| **Users, roles, permissions** (`users/`, `roles/`, `permissions/`) | join tables | create, update, remove; attach, detach, sync | read-modify-write of a whole list | a request changes no other grant than its own | `AdminTables` |
| **Response cache** (`common/cache/`) | cached replies | read through, clear, expire | a reply read before a write and stored after the keys were cleared | old only for a known reason | `AdminTables` |
| **Media** (`media/`) | rows and remote objects | upload, avatar, remove | two stores, no transaction | a row and its object are there together | `AdminTables` |
| **Notifications** (`notifications/`, `socket-bridge.tsx`) | rows by user or by role, rooms of sockets, the bell's count | event, send, connect, read, count | rooms fixed at connection; one `isRead` for a whole role; messages missed while offline | a message goes only to those who can list it; the count comes right | `Notices`, `Workspace` |
| **Start and seed** (`docker-entrypoint.sh`, `main.ts`, `database/`) | all tables | migrate, seed, listen | a kill after half a seed; two servers starting on one database; removed rows that keep their names | a server that listens has its administrator with all permissions; a server comes up again | `Startup` |
| **Guards** (`auth/*.guard.ts`), validators, DTOs | none | check one request | – | – | – |
| Mail, health, throttling, filters, configuration, scripts | none of their own | – | – | – | – |

How they interact: a page calls the services through the API client; a request
reaches a handler after the JWT strategy (`Session`) and the guards have let it
pass, with `req.user.userId` as the user. The administration pages read through
the response cache, and their requests about a user's roles emit the events
notifications are made of, while the roles they write decide whose bell counts
which rows: `Workspace` composes the two. An SSO login makes a session in
`Session`, and provisions the account in `Links`. `PROJECT.json` lists under
`"hazards"` where each of these can go wrong and which property would notice.

## 2. What is modelled

| Module | Models | Built on |
|---|---|---|
| `KanbanData` | the three tables and the queries of the services | – |
| `KanbanAtomic` | the abstract specification: what the services promise, one step per operation | `KanbanData` |
| `Kanban` | the services as they are, cut at every `await` | `KanbanData`; instance of `KanbanAtomic` |
| `BoardPage` | the board page, its requests, replies and refetches | – |
| `SingleFlight` | the abstract specification of the refresh queue | – |
| `Session` | cookies, tabs, API client, token checks, identity provider | instance of `SingleFlight` |
| `GuardedLink` | the abstract specification of what an emailed link keeps | – |
| `Links` | accounts, and the three kinds of link about them | instance of `GuardedLink` |
| `AdminTables` | one administration table, the response cache, the object store | – |
| `Notices` | events, rows, sockets, the bell | – |
| `Workspace` | the two together | `AdminTables`; instance of `Notices` |
| `Startup` | migrations, seeder, kills and restarts | – |
| `MC...` | symmetry and history for TLC; `MCKanban` states the properties of `KanbanAtomic` about the services' rows | the module they check |
| `...Proofs` | theorems | the module they are about |

**KanbanData.** One function `row` from primary keys to rows or `None`. A row
has its parent (`userId`, `boardId` or `columnId`), its position and whether
`deletedAt` is set; rows never disappear. `OwnsBoard`, `OwnsColumn` and
`OwnsCard` are the `where` clauses of the services, whose joins see live rows
only. `NextPositions` is a set because rows may share a position, and
`ORDER BY position DESC LIMIT 1` does not say which one comes first.

**Kanban.** A request in flight is a record: the operation, the `await` it is at
(`pc`), the user, the entity and the relations the handler has in memory, and
the columns `save` found changed.

| Code | Steps (`pc` before each) |
|---|---|
| `createForUser` without position | parent checked → `place` (nextPosition) → `insert` |
| `createForUser` with position | parent checked → `insert` |
| `updateForUser` | owned row found → `preload` → `load` (SELECT of `save`) → `write` |
| `move` of a column | owned column found, entity changed → `load` → `write` |
| `move` of a card | owned card found → `dest` (assertColumnOwned) → `load` → `write` |
| `removeForUser` of a board, a column | owned tree read → `reload` (SELECTs of `softRemove`) → `remove` |
| `removeForUser` of a card | owned card found → `refind` → `remove` |

The first query belongs to the action that starts the request (`Arrive`), since
nothing is read before it; one that finds nothing answers 404 and is no step.
`Abort` is a query that rejects or a process that stops, at any `await`. TypeORM
as used here: `find*` and `preload` skip deleted rows; `save` of an existing
entity reads the row again *including* deleted ones and writes the columns in
which the entity differs, `deletedAt` among them; `softRemove` reads the
relations again and tries to detach a child the entity does not hold, which the
NOT NULL column refuses. The SELECTs of one `find` with relations, and those of
one `softRemove`, are one step each.

**KanbanAtomic.** `AddBoard`, `Add`, `MoveWithin`, `MoveAcross` and `Delete`,
guarded by ownership, each in one step. `Kanban` has its variable `row`, so the
refinement mapping is the identity on it and hides the requests.

**BoardPage.** `server` and `page` are the board in the database and in the
react-query cache. `DropColumn` and `DropCard` are `handleDragEnd` with its
cases: on a column, on a card, on itself, into another column; they write `page`
and send a `move`. `Create` and `Remove` send only. `Serve` runs a request in
one step (the interleaving *inside* the server is `Kanban`'s), in any order
among those in flight. `Settled` is a good reply, `Failed` an error status, a
lost reply or the 30 s timeout, after which the server may still `Serve` the
request. `FetchRead` and `FetchDone` are `getBoard` reading and its reply
replacing the cache; `Invalidate` cancels a fetch in flight for a new one, as
`invalidateQueries` does; `Refocus` is a refetch at any moment. `unsure` says
that since the last fetch was sent a request may have run of which the page was
not told, or the fetch failed.

**Session.** The cookies of one browser (`jar`), its tabs, the calls in flight,
the revocation table and the sessions at the identity provider. What a tab does
in one turn of its event loop is one action (`OnOk`, `OnError`, `OnRefreshed`,
...); a backend handler is one action for each await (`CheckBlacklist`,
`CheckSession`, `Run`, `RefreshSession`, `RefreshSign`, ...). A call that meets
a 401 becomes the page's refresh (`BeginRefresh`) or waits in the queue
(`Enqueue`); `OnRefreshed` and `OnRefreshFailed` release all of them. Only the
call that refreshed carries `_retry` when it is tried again: one that waited may
refresh once itself. A token is what is signed into it; `origin`
is what the code does not keep, the session it comes from. `tok` tells which
calls carry the same string, so that a blacklisted token is blacklisted in all
of them. The redirects of SSO (`BeginSso`, `IdpAnswers`, `IdpRefuses`,
`Exchange`, `Callback`, `EndSession`) take the page away and bring it back. They
may fail at each await, with an error page and the cookies set so far:
`SsoUnavailable` (no SSO is configured), `Exchange` (wrong cookies, no answer of
the identity provider) and `CallbackFails` (`provisionUser` throws, after the
cookies have been cleared).
`csrf_token` and `sso_id_token` are set at a login only and end one by one
(`CookiesEnd`). `SingleFlight` has two variables, the refreshing call and the
waiting ones of each page; `Session` maps the calls' stages on them.

**Links.** An account and its address are one, because the unique index keeps
the address of a removed account taken. A link (`row`) is an invitation, a reset
or a verification token, good, used or expired. A page and its request are a
record (`job`): the operation, the await, the address, the link and the copy of
the user row it has loaded. Making a link is look, drop the unused ones, insert,
mail; following one is look, use (load and save the user, or create him), mark.
Next to them are the other writers of the same rows: edits and removals of a
user, `resend` and `revoke`, and the provisioning of an SSO login. `Break` is a
query that fails or a process that stops at any await; what was written stays.
`stale` (history) holds the requests whose copy another one has overtaken.
`GuardedLink` knows which links are good, who was let in, who is renewing, and
who was told that it worked: it lets nobody in once the link has worked, but all
who were in before may succeed, and one that fails may have taken effect. That
is less than one-time, and `ResetForOne` shows the difference.

**AdminTables.** One of four tables: the grants of a user or a role (`users`,
`roles`) or the rows of a table (`permissions`, `media`). A page reads through
the cache (`LookUp`, `Query`), and the reply is put there on its own while it is
being answered (`Cache`), as Nest's `CacheInterceptor` does it. A request loads
the list, changes it and saves it whole (`FindRow`, `SaveRow`), then clears the
keys (`ClearKeys`), and the page fetches again, cancelling a read in flight
(`Answer`). Media have the object store before or after the row (`PutObject`,
`SaveUrl`, `DeleteObject`). History variables say which replies are late, which
writes were not followed by a clearing, and whose write was the last.

**Notices.** An event is sent to its receivers one after the other: insert the
row, then emit to a room. A socket is in the rooms of the roles its token had;
it may be cut, reconnect while the token is good, or stay away until a reload.
The bell asks for the count when a message comes and every minute, and shows it
a step later. **Workspace** emits `UserRolesUpdated` when a request of
`AdminTables` saves a user's roles, and gives `Notices` these roles.

**Startup.** Each server is at one step of the entrypoint and the seeder:
migrations (one transaction), each permission looked up and inserted, the list
of all of them, the two roles, the account. A server may be killed at any step
(`Crash`) and is started again; a step that inserts a name that is there, live
or removed, throws, which ends the process. While a server listens,
administrators edit what was seeded.

## 3. The runs

| Run | Instance | Shows |
|---|---|---|
| `kanban_isolated` | 2 users with one request each; 2 boards, 2 columns, 2 cards | however requests of different users interleave and wherever one aborts, the services implement `KanbanAtomic`; `Cascade`, `DeletedIsFinal`, `OnlyMovesMove`, `AppendsLast` |
| `kanban_overlap` | 2 users, 2 requests in any split; 2 boards, 2 columns, 1 card | whatever overlaps: `OwnerPrivate`, no row changes hands, is lost, or is written by anybody but its owner; `GoneForGood`, a row that is out of reach when its owner has nothing in flight stays out of reach (with the history variable `lost`) |
| `kanban_cascade` | 1 user, 2 requests; 1 board, 2 columns, 1 card | `Cascade` **violated** (section 5) |
| `kanban_edit` | the same | `OnlyMovesMove` **violated** (section 5) |
| `board_page` | 2 columns, 3 cards, 2 user actions, 2 requests in flight, 1 fault | `Reconciled`: when all has come back, and unless `unsure`, the page equals the server; `DropsWhereShown` |
| `board_rollback` | 2 columns, 2 cards, 3 actions | `RollbackOnError` **violated** (section 5) |
| `session` | 1 tab, 2 calls, 1 session at the identity provider, 1 fault | `DeadIsRefused`; `ImplementsSingleFlight`; `EveryCallEnds`; `SilentRests`: while the identity provider has no session, the login page goes to it by itself only once in the life of the cookie `sso_silent` |
| `links` | 1 address, 2 requests, 3 links of one kind | `ImplementsGuardedLink`; `LiveLinks`; `UndoneOnlyByStale`; `EveryRequestEnds` |
| `links_twice` | 1 address, 2 requests, 1 link | `ResetForOne` **violated** (section 5) |
| `workspace` | 2 browsers, 2 items, 2 writes, 1 read, 1 failure; 1 user with a bell, 1 event, 1 cut | `CacheFresh`, `OwnWriteShown`, `OnlyOwnItem`, `StoreMatches`; `TellsWhoCanList`, `BadgeCatchesUp` |
| `startup` | 2 servers, 2 permissions in the code and 1 added, 2 kills, 3 edits | `FullAccess`; `ComesUp` |
| `startup_again` | 1 server, 1 kill, 2 edits | `ChecksBeforeInserting` **violated** (section 5) |

Each passing run of a module also checks its type invariant.

Why these bounds are enough for what they ask:

- *Two requests.* Every hazard of the services is a pair: one request has read,
  another writes. A third request could only be a second writer. The same holds
  for the links and the tables.
- *Two boards, two columns, one or two cards.* A move needs a source and a
  destination, of the same owner or of two; a cascade needs all three levels; a
  position tie needs two siblings.
- *`Positions = {1}`, `STEP = 1`.* A client's position can tie with an appended
  one, lie at it or (after more appends) below it; only comparisons matter.
- *`MaxPerUser`.* The services give their promise to a user who waits for an
  answer before he sends the next request (1). With 2 they do not keep all of
  it, and the runs say which part survives.
- *Board page.* Three cards give a drop between two others; two actions in
  flight can be served and answered in either order with a fetch before,
  between and after; one fault is a lost reply or a timeout with a late run.
  `STEP = 2^MaxActs` keeps midpoints exact: `DropAssumption` asks that `STEP`
  can be halved once for each action of the user.
- *Session.* Two calls are one that refreshes and one that waits, or a logout
  next to either; a revocation may fall between any two awaits. `refreshing` and
  the queue belong to one page, so one tab exercises them; the safety properties
  are proved for any number of tabs (section 4).
- *Links.* Two overlapping requests, each with a link of its own and one made
  before them. One kind at a time, but every kind (`Init` chooses); what two
  kinds share is the account, which edits and removals disturb as well. The
  invariant of the proofs was also model-checked with two addresses, two links
  and two kinds.
- *Workspace.* One write is overtaken by another while a read is on its way to
  the cache. `focus` looks at the tables or at the bells, since nothing flows
  back from the bells. Two reads, and two cuts, were checked once as well.
- *Startup.* Two servers can meet at each lookup; one kill each leaves half a
  seed twice; three edits are a removal, a reassignment and an addition.

Symmetry is used where all properties are invariants or action properties over
unordered sets, never with a temporal property that needs fairness.
`workspace`, `startup` and `startup_again` switch the deadlock check off: when
their bounds are reached everything has been answered and nothing need happen.

Fairness, and why the code justifies it:

| Run | Weak fairness of | Because |
|---|---|---|
| `session` | every step of a handler and every answer, per call (`ServerNext`, `ReplyNext`); leaving a page that was sent away (`Leave`, `EndSession`) | a query ends or rejects; a call of the client ends with its 30 s timeout at the latest. The refresh itself is sent by a plain `axios.post` (`api.ts:101`), which has no timeout: that it ends rests on the server answering or the connection breaking. The browser follows a redirect. Not of visitors, of the identity provider, of time |
| `links` | every step of a request under way (`Server`), per page | every query, mail and hash comes back, if only with an error (`Break` may end any of them). Not of pages, of time |
| `workspace` | `Poll`, `CountUnread`, `ShowCount`, per user | the count has a `refetchInterval` of 60 s (with the tab in view), and a query that does not fail comes back. Not of messages, reconnects, requests |
| `startup` | the next step of each server's start (`Boot`) | `docker-entrypoint.sh` says of the migrations that "this is safe on restarts", and the platform starts the container again; kills and edits are bounded in number |

Each property has a mutant in `PROJECT.json`: a definition with the slip a
programmer might make (`PlaceOnLast`, `OnRefreshedAlone`, `AcceptMarksFirst`,
`AnswerNoCancel`, `LookPermissionsEarly`, ...), with which the same run finds
the property violated. These slips are the definitions marked so in the modules.

## 4. The proofs

Every safety property of the passing runs, invariant or action property, is
also a theorem: for any number of users, rows, tabs, requests, servers, and so
on, where a run has two. A module assumes only what its `...Assumption` says of
the constants: that ids, users and `None` are told apart, that bounds are
numbers, and that what the code keeps in memory or in one list is finite
(requests in flight, the items of a board, users, roles). Three assumptions say
more. `DropAssumption`: `STEP` (65536 in the code) can be halved once for each
action of the user, since a double's exactness is not modelled.
`WorkspaceAssumption`: the roles that are told of events (`RoleOrder`, the
code's `ADMIN_ROLES`) are not an empty list. And five theorems about the Kanban
services, named `Isolated...`, assume `MaxPerUser = 1`: a user waits for an
answer before he sends the next request. They are false without it
(`kanban_cascade` and `kanban_edit` show how).

**`KanbanProofs`**: `TypeCorrect` (`Spec => []TypeOK`) and `OwnersArePrivate`
(`Spec => OwnerPrivate`). Neither is inductive alone: that a `SaveWrite` keeps
the owner depends on what the request checked several steps earlier, while other
requests have written in between. The invariant is

    IInv == TypeOK /\ RowsFit /\ \A r \in Requests : RequestOK(r)

`RowsFit` are the foreign keys. `RequestOK(r)` says that what `r` holds belongs
to its user *now*: the row it will write, the destination it will write there,
and each row in its relations. It is preserved because no step changes the owner
of a row (`OwnerStable`), so what was checked stays true although the row may
have moved or been deleted since (`RequestStable`). `ArriveStep` and
`ContinueStep` have one step per action; a read changes one request
(`ReadStep`), a write is covered by `WriteStep`.

**`KanbanPromiseProofs`**: what the services give a user. `CascadeHolds` and
`DeletionIsFinal` are about the abstract specification, with
`AInv == RowsTyped /\ RowsHang /\ Cascade`; the point of `DeleteStep` is that two
levels of children are enough for a tree of three. `IsolatedIsAtomic`
(`Spec => ImplementsAtomic`) is the refinement, step by step: with one request
per user, the last write of a handler is the atomic operation and every other
step is none. Its invariant is

    ExactInv == IInv /\ Alone /\ \A r \in Requests : Exact(r)

where `Exact(r)` says that what `r` has in memory is still what a query would
return: the row it edits is as it was read (`Saves`), the position it appends at
is the next one (`Adds`), the tree it deletes is the whole tree (`Removes`). It
is preserved because the steps of another user write only his rows, which is
`OwnersArePrivate` used as a lemma (`OthersExact`), and because `Alone` leaves
no other request of the same user. `IsolatedCascade` and
`IsolatedDeletionIsFinal` then follow from the abstract theorems, and
`IsolatedEditsStayPut` and `IsolatedAppendsLast` from `ExactInv`.
`GoneIsForGood` (`HistorySpec => []GoneForGood`) needs no such hypothesis: what
was lost is deleted or hangs from something lost (`Rooted`), and no save under
way is of a lost row (`Apart`), since its request would have had to find the
row before it was lost, and none was in flight then.

**`BoardPageProofs`**: `BoardTypesCorrect`, `PageReconciles`
(`Spec => []Reconciled`) and `DropsAreShown` (`Spec => DropsWhereShown`). The
invariant `BoardInv` says that all positions, on the server, on the page, in a
fetch and in requests, are multiples of `STEP` halved as often as the user has
acted (`Unit`), so that the midpoint of two is a number strictly between them
(`Halving`); and that there is a last position to append after (`LastExists`),
because the order of the proper subsets of a finite set is well-founded.
`Settling` is the other half of `Reconciled`: unless a change is still to be
heard of, what a fetch has read is what the server has; it is this that fails if
`onSettled` kept the fetch in flight instead of asking again (`SettledKept`).

**`SessionProofs`**: `SessionTypes` and `RefusesTheDead`
(`Spec => []DeadIsRefused`). The argument is about a call that has not been let
through yet: if its token was dead when it was sent, one of the two checks still
before it will say so (`Caught`), because a token of a session of the identity
provider names it (`Honest`), blacklisting marks every copy, and revocations are
never taken back. `OldName` is the pigeonhole step: when the cookie gets another
token, some name is free for the copies of the old one. `FlightIsSingle`
(`Spec => Flight!Safety`) is the safety half of the refinement: a step of
`Session` is a step of `SingleFlight` or none, given that one call of a page
refreshes at most, that only pages that are there have calls, and that nobody
waits unless somebody refreshes (`FlightInv`). `SilentAttemptRests`
(`Spec => SilentRests`) needs no invariant but the types: it is one lemma for
what may clear `sso_silent` (`SilentStep`: time, or a callback with a code of
the identity provider) and one for how a page gets to the identity provider
(`StaysHome`: by itself only without the cookie).

**`LinksProofs`**: `LinkTypes`, and `UndoingIsStale`
(`Spec => UndoneOnlyByStale`). The invariant says what a request knows of the
rows it has read: whose link it is and of which kind, that the account it will
save is there, and that a copy which is not stale is the row (`KnowsLink`,
`KnowsUser`, `FreshOK`); that links of one number agree on their address
(`Agree`); and that the links requests will still make are within the bound.
`StepKeeps` reduces each action to what it does to the tables and to its own
request, `NewOK`. `LinksAreFew` (`Spec => []LiveLinks`) counts: each request
accounts for at most one of the links that are kept, about to be renewed or
about to be inserted (`LiveInv`), since one that drops the others is still to
insert its own (`DropOK`), and one that inserts stops being counted
(`InsertOK`). `LinksKeepPromise` (`Spec => Promise!Safety`) is the safety half
of the refinement of `GuardedLink`, one lemma for each abstract step a request
takes (`FollowStep` admits, `MarkStep` succeeds, `ProlongStep` renews, ...).

**`AdminTablesProofs`**: `AdminTypesCorrect`; `CacheIsFresh`
(`AdminSpec => []CacheFresh`), whose invariant says that a reply on its way into
the cache is what is stored, or late, or a clearing is still to come (`Recent`);
`OthersGrantsStay` (`AdminSpec => OnlyOwnItem`): a copy not marked as old is the
row (`UpToDate`). `OwnChangesShown` (`AdminSpec => []OwnWriteShown`): once the
page that wrote last has cleared the keys, every reply that could still reach
the cache or the page is the stored one or late, and from its answer on so is
what the page shows or is about to show (`CaughtUp`). `ObjectsHaveRows`
(`AdminSpec => []StoreMatches`) needs the life of a file (`Kept`): it is uploaded
once (`OneUpload`), leaves no trace before its object is put (`Fresh`), has an
object and no row, and nobody about to delete it, until its first save
(`Stocked`), and after its row has gone an object only until the deletion that
is still to come (`Gone`, `Paired`).

**`WorkspaceProofs`**: `TablesAsAlone` (`WorkspaceSpec => AdminSpec`): with the
bells the tables do nothing they do not do alone, so the theorems about
`AdminTables` hold of the composition (`TablesKeepTheirPromises`).
`WorkspaceTypesCorrect`, and `NobodyElseIsTold`
(`WorkspaceSpec => []TellsWhoCanList`), with the invariant `Told`: a listener
about to send has stored the row it will send, for that receiver and by that
actor (`Sent`), while other listeners, readers and changes of roles run; that
the receiver can list it then follows from the rooms his socket is in.

**`StartupProofs`**: `StartupTypes` and `ListensWithFullAccess`
(`Spec => []FullAccess`). A server that has passed a step finds its result there
as long as nothing was edited (`PassedOK`), what it has read exists (`ReadOK`),
and no other server takes it away (`Leaves`): the two that start at once write
the same.

Model-checked only: what depends on fairness, that is `EveryCallEnds`,
`EveryRequestEnds`, `BadgeCatchesUp`, `ComesUp` and the liveness halves of
`ImplementsSingleFlight` and `ImplementsGuardedLink`. Liveness under fairness
and `ENABLED` are out of the prover's reach, as is induction over recursive data
(which these models do without).

## 5. What the checks found

- `kanban_cascade`: `FEATURES.md` promises that deleting a board deletes its
  columns and cards. A column or card that another request of the same user
  inserts or moves below it after `softRemove` has read stays live under a
  deleted parent.
- `kanban_edit`: `update-card.dto.ts` says moving goes through `/move` only. An
  edit preloads column and position too, and undoes a move that commits between
  its two reads.
- `links_twice`: `AUTH.md` calls a reset token "one-time". Two overlapping
  requests with one link both pass the check and both set the password. A failure
  between the update and the mark also leaves the link good.
- `board_rollback`: `FEATURES.md` promises "rollback on error". There is no
  `onMutate`, so the handlers have no snapshot to restore; the refetch of
  `onSettled` repairs the page, unless it fails.
- `startup_again`: `DATA_LAYER.md` says the seeder is idempotent because it
  looks before it inserts. Its lookups skip soft-deleted rows, whose names are
  still taken: after an administrator has removed something seeded the next
  start inserts the name again, fails, and no later start gets further.

What the modules show beyond these, without a run of its own:

- The overlap that breaks `Cascade` also breaks `DeletedIsFinal` (a `save` that
  read a live row writes `deletedAt = NULL` over a delete) and `AppendsLast`
  (two creates get the same position) once a user has two requests in flight;
  `GoneForGood` is what remains true.
- The "no-op drop in place" of a comment in `use-kanban-board.ts` never happens
  (l.286 looks for the card in a list it was filtered out of): a card dropped on
  itself goes to the end of its column.
- The SSO callback clears `sso_silent` as "logged in", but before it provisions
  the user (`sso.controller.ts:86-88`). If that fails (for the address of a removed
  account it always does) nobody is logged in, and a visitor with a session at
  the identity provider is sent there again by the login page. `SilentRests` is
  about visitors without one, who get the login form as `use-silent-sso.ts` says.
- Overlapping requests for a link leave several that work; `LiveLinks` says how
  many. An acceptance that fails after the account was created leaves the
  invitation pending, and nobody can accept it.
- Of two overlapping changes to one user's roles or permissions one may be lost.
- A save of an earlier copy undoes a verification, a removal, an acceptance or
  a revocation (`resend` inserts a revoked invitation again). The address of a
  removed account can be invited, but the invitation cannot be accepted.
- A refresh that ends after a logout stores a token again. The `csrf_token` is
  not renewed, so that a week after the login refreshes are refused. Of two
  overlapping logouts with one token the second ends with an error.
- A reply read before a write may enter the response cache after the keys were
  cleared, and is shown until it expires. The removal of a role or a permission
  does not clear the lists of users and roles.
- Each start gives the roles `superadmin` and `user` the permissions of the code
  again, whatever an administrator has assigned.

## 6. What is left out

- Titles, descriptions, priorities, due dates, names: no property tells them
  apart. An edit in `Kanban` and `Links` keeps its read and write of the whole
  row, which is what makes it matter; on the board page edits are left out.
- Double precision: positions are natural numbers and midpoints exact. That some
  fifty drops into one gap exhaust a double is listed as a hazard only.
- Permissions: the guards are predicates over one request and keep no state; a
  request in `Kanban`, `Links` and `AdminTables` has passed them.
- Sessions: passwords, Turnstile, what the store shows of the user; a failed
  refresh of one tab removing the new token of another; the socket across a
  logout and a login within one page. The OIDC protocol is its library's.
- Links: an account whose address changes; the list of invitations.
- Tables and cache: paging, searching and sorting (so that `Answer` always
  cancels a read in flight: `invalidateQueries` does so only for a query that has
  data, which a page or search asked for a moment ago has not); dialogs' contents; which
  addresses a key pattern matches (an avatar upload clears the users' lists but
  not the media's; `GET /media` is cached by URL although filtered by user);
  the branch without Redis, in which `store.del` of a list of keys removes
  nothing. `CacheFresh` would not hold there, as its mutant `ClearNothing` shows.
- Notifications: the list and its removal; `system.*` events, which nothing
  emits.
- Start: roles renamed by administrators, `DB_SEED=false`, the development
  server's `synchronize`; a `save()` of the seeder is one step.
- Mail (that it fails unnoticed is in `Links`), health, throttling, filters,
  configuration, scripts: input, output and libraries.

## 7. Plan

Done: all components that keep state have a module, and every safety property
that is model-checked is proved. What would come next:

1. **Proofs** – that one user's overlapping requests do not disturb what the
   services promise to another who sends his one at a time (`ExactInv` for the
   users with one request in flight only); the promises of `SingleFlight` and
   `GuardedLink` stated as invariants of their own.
2. **Larger models** – two tabs in the `session` run for the token one tab
   removes from another; two kinds of link in the `links` run; edits on the
   board page.
3. **The list of notifications** and its removal, next to the bell.
