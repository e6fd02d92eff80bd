---------------------------- MODULE LinksProofs ----------------------------
(***************************************************************************)
(* Proofs about accounts and the links mailed for them, for any number of  *)
(* addresses, links and overlapping requests: the types, and that what was *)
(* done is undone only by a request with an old copy; how many links work  *)
(* at a time, and that every step is one of GuardedLink's.  What makes it  *)
(* inductive is what a request knows of the rows it has read, and that the *)
(* requests about one link agree on whose it is.                           *)
(***************************************************************************)
EXTENDS Links, FiniteSetTheorems, TLAPS

-----------------------------------------------------------------------------
(* The invariant *)

\* The awaits of each request.
StopsAt(j) ==
    \/ j.op = "none" /\ j.at = "none"
    \/ j.op \in Issuing /\ j.at \in {"find", "drop", "insert", "mail"}
    \/ j.op = "newpass" /\ j.at \in {"find", "load", "save", "mark", "ok"}
    \/ j.op = "confirm" /\ j.at \in {"find", "save", "mark", "ok"}
    \/ j.op = "accept" /\ j.at \in {"find", "create", "mark", "ok"}
    \/ j.op = "resend" /\ j.at \in {"find", "save", "mail"}
    \/ j.op = "revoke" /\ j.at \in {"find", "save"}
    \/ j.op \in {"edit", "remove"} /\ j.at \in {"load", "save"}
    \/ j.op = "sso" /\ j.at \in {"find", "load", "save", "create"}

HasLink(j) ==
    j.op \in Following \cup {"resend", "revoke"} \/ (j.op \in Issuing /\ j.at = "mail")

HasUser(j) == j.op \in {"newpass", "edit", "remove", "sso"} /\ j.at = "save"

JobOK(j) ==
    /\ StopsAt(j)
    /\ j.op # "none" => j.to # None
    /\ HasLink(j) <=> j.link # None
    /\ HasUser(j) <=> j.user # None

About(j) == IF j.op \in Issuing THEN j.op ELSE KindOf(j.op)

\* Requests whose account is there.
Sure(j) ==
    \/ j.user # None \/ j.at = "mark"
    \/ j.op \in {"reset", "verify"} /\ j.at \in {"drop", "insert"}
    \/ j.op \in {"newpass", "confirm"} /\ j.at # "find"

KnowsUser(j) == Sure(j) => users[j.to] # None

KnowsLink(j) ==
    j.link # None =>
      /\ j.link =< made
      /\ row[j.link] # None => row[j.link].to = j.to /\ row[j.link].kind = About(j)

RowsHaveUsers ==
    \A l \in Link : row[l] # None /\ row[l].kind \in {"reset", "verify"} => users[row[l].to] # None

\* Requests about one link are about the same address.
Agree ==
    \A s, t \in Slots :
        job[s].link # None /\ job[s].link = job[t].link
          => job[s].to = job[t].to /\ About(job[s]) = About(job[t])

\* A copy that is not stale is the row.
FreshOK(s) ==
    s \notin stale =>
      /\ job[s].user # None => job[s].user = users[job[s].to]
      /\ HoldsLink(job[s]) => row[job[s].link] # None /\ row[job[s].link].is # "used"

IsPending(j) == j.op \in Issuing /\ j.at \in {"find", "drop", "insert"}

\* The requests under way that will make a link.
Pending == {s \in Slots : IsPending(job[s])}

Inv ==
    /\ TypeOK
    /\ \A s \in Slots : JobOK(job[s]) /\ KnowsUser(job[s]) /\ KnowsLink(job[s]) /\ FreshOK(s)
    /\ RowsHaveUsers /\ Agree
    /\ made + Cardinality(Pending) =< MaxLinks
-----------------------------------------------------------------------------
(* One step *)

LEMMA LinkRows == LinkRow = [kind : Issuing, to : Emails, is : {"good", "used", "expired"}]
BY DEF LinkRow, Invitation, ResetToken, VerificationToken, Issuing

LEMMA IdleOK ==
    Idle \in Job /\ JobOK(Idle) /\ Idle.link = None /\ Idle.user = None /\ ~HoldsLink(Idle)
    /\ Idle.op = "none" /\ Idle.at = "none" /\ ~Sure(Idle) /\ ~IsPending(Idle)
BY DEF Idle, Job, JobOK, StopsAt, HasLink, HasUser, Sure, HoldsLink, IsPending, Issuing, Following

\* What one step does to the tables: accounts stay, and a row keeps its address
\* and kind, or has those of the request that saves or inserts it.
TablesOK(s) ==
    /\ users' \in [Emails -> User \cup {None}] /\ row' \in [Link -> LinkRow \cup {None}]
    /\ made' \in made .. MaxLinks
    /\ \A l \in Link : l > made' => row'[l] = None
    /\ \A e \in Emails : users[e] # None => users'[e] # None
    /\ \A l \in Link : row'[l] # None =>
         \/ row[l] # None /\ row'[l].to = row[l].to /\ row'[l].kind = row[l].kind
         \/ l = job[s].link /\ row'[l].to = job[s].to /\ row'[l].kind = About(job[s])
         \/ l > made

\* What its request is afterwards.
NewOK(s, w) ==
    /\ w \in Job /\ JobOK(w)
    /\ (Sure(w) => users'[w.to] # None)
    /\ w.link # None =>
         /\ w.link =< made'
         /\ row'[w.link] # None => row'[w.link].to = w.to /\ row'[w.link].kind = About(w)
         /\ \A t \in Slots \ {s} : job[t].link = w.link => job[t].to = w.to /\ About(job[t]) = About(w)
    /\ s \notin stale =>
         /\ w.user # None => w.user = users'[w.to]
         /\ HoldsLink(w) => row'[w.link] # None /\ row'[w.link].is # "used"

LEMMA StepKeeps ==
    ASSUME LinksAssumption, Inv, NEW s \in Slots, NEW w, job' = [job EXCEPT ![s] = w],
           TablesOK(s), NewOK(s, w), RowsHaveUsers', Note, UNCHANGED kinds,
           made' + Cardinality(Pending') =< MaxLinks
    PROVE  Inv'
<1>0. job \in [Slots -> Job] /\ job' \in [Slots -> Job] /\ job'[s] = w
      /\ \A t \in Slots \ {s} : job'[t] = job[t]
  BY DEF Inv, TypeOK, NewOK
<1>1. ASSUME NEW t \in Slots \ {s}
      PROVE  JobOK(job'[t]) /\ KnowsUser(job[t])' /\ KnowsLink(job[t])' /\ FreshOK(t)'
  <2>1. JobOK(job[t]) /\ KnowsUser(job[t]) /\ KnowsLink(job[t]) /\ FreshOK(t) /\ job[t] \in Job
    BY <1>0 DEF Inv
  <2>2. KnowsUser(job[t])'
    <3>1. Sure(job[t]) => job[t].to \in Emails
      BY <2>1 DEF Sure, JobOK, StopsAt, HasUser, Job, Issuing, Following
    <3> QED BY <1>0, <2>1, <3>1 DEF KnowsUser, TablesOK
  <2>3. KnowsLink(job[t])'
    <3> SUFFICES ASSUME job[t].link # None
                 PROVE  /\ job[t].link =< made'
                        /\ row'[job[t].link] # None =>
                             row'[job[t].link].to = job[t].to /\ row'[job[t].link].kind = About(job[t])
      BY <1>0 DEF KnowsLink, About, KindOf
    <3>1. job[t].link \in Link /\ job[t].link =< made /\ made \in Nat /\ made' \in Nat /\ made =< made'
      BY <2>1 DEF Job, KnowsLink, Inv, TypeOK, TablesOK, LinksAssumption
    <3>2. job[t].link = job[s].link => job[t].to = job[s].to /\ About(job[t]) = About(job[s])
      BY DEF Inv, Agree
    <3> QED BY <2>1, <3>1, <3>2 DEF KnowsLink, TablesOK, Link, LinksAssumption
  <2>4. FreshOK(t)'
    BY <1>0, <2>1 DEF FreshOK, Note
  <2> QED BY <1>0, <2>1, <2>2, <2>3, <2>4
<1>2. JobOK(job'[s]) /\ KnowsUser(job[s])' /\ KnowsLink(job[s])'
  BY <1>0 DEF NewOK, KnowsUser, KnowsLink
<1>3. FreshOK(s)'
  BY <1>0 DEF NewOK, FreshOK, Note
<1>4. Agree'
  BY <1>0 DEF Inv, Agree, NewOK
<1>5. \A t \in Slots : JobOK(job'[t]) /\ (job'[t].user # None \/ HoldsLink(job'[t]) => job'[t].at \notin {"none", "ok"})
  BY <1>1, <1>2 DEF JobOK, HasUser, HoldsLink
<1>6. stale' \subseteq {t \in Slots : Busy(t)}'
  BY <1>5 DEF Note, Busy
<1>7. \A t \in Slots : job'[t].at = "mark" => users'[job'[t].to] # None
  BY <1>1, <1>2 DEF KnowsUser, Sure
<1>8. TypeOK'
  BY <1>0, <1>6, <1>7 DEF TypeOK, TablesOK, Inv, LinksAssumption
<1> QED BY <1>1, <1>2, <1>3, <1>4, <1>8 DEF Inv

\* The bound counts the links that requests under way will make.
LEMMA PendingFinite ==
    ASSUME LinksAssumption
    PROVE  IsFiniteSet(Pending) /\ Cardinality(Pending) \in Nat
           /\ IsFiniteSet(Pending') /\ Cardinality(Pending') \in Nat
BY FS_Subset, FS_CardinalityType DEF Pending, LinksAssumption

LEMMA FewerPending ==
    ASSUME LinksAssumption, Inv, NEW s \in Slots, NEW w, job' = [job EXCEPT ![s] = w],
           IsPending(w) => IsPending(job[s])
    PROVE  Cardinality(Pending') =< Cardinality(Pending)
<1>1. Pending' \subseteq Pending
  BY DEF Pending, Inv, TypeOK
<1> QED BY <1>1, PendingFinite, FS_Subset

LEMMA OneLessPending ==
    ASSUME LinksAssumption, Inv, NEW s \in Slots, NEW w, job' = [job EXCEPT ![s] = w],
           IsPending(job[s]), ~IsPending(w)
    PROVE  Cardinality(Pending') = Cardinality(Pending) - 1 /\ Cardinality(Pending) > 0
<1>1. Pending' = Pending \ {s} /\ s \in Pending
  BY DEF Pending, Inv, TypeOK
<1> QED BY <1>1, PendingFinite, FS_RemoveElement

LEMMA OneMore ==
    ASSUME NEW S, IsFiniteSet(S), NEW x
    PROVE  IsFiniteSet(S \cup {x}) /\ Cardinality(S \cup {x}) =< Cardinality(S) + 1
<1>1. IsFiniteSet(S \cup {x})
  BY FS_AddElement, Zenon
<1>2. Cardinality(S \cup {x}) = Cardinality(S) \/ Cardinality(S \cup {x}) = Cardinality(S) + 1
  BY FS_AddElement, Zenon
<1>3. Cardinality(S) \in Nat
  BY FS_CardinalityType
<1> QED BY <1>1, <1>2, <1>3

LEMMA OneMorePending ==
    ASSUME LinksAssumption, Inv, NEW s \in Slots, NEW w, job' = [job EXCEPT ![s] = w]
    PROVE  Cardinality(Pending') =< Cardinality(Pending) + 1
<1>1. Pending' \subseteq Pending \cup {s}
  BY DEF Pending, Inv, TypeOK
<1>2. IsFiniteSet(Pending \cup {s}) /\ Cardinality(Pending \cup {s}) =< Cardinality(Pending) + 1
  BY PendingFinite, OneMore
<1>3. Cardinality(Pending') =< Cardinality(Pending \cup {s}) /\ Cardinality(Pending \cup {s}) \in Nat
  BY <1>1, <1>2, FS_Subset, FS_CardinalityType
<1> QED BY <1>2, <1>3, PendingFinite

LEMMA SameTables ==
    ASSUME LinksAssumption, Inv, UNCHANGED <<users, row, made>>, NEW s \in Slots
    PROVE  TablesOK(s) /\ RowsHaveUsers'
BY DEF Inv, TypeOK, TablesOK, RowsHaveUsers, LinksAssumption

\* A request that is over.
LEMMA AnswerOK ==
    ASSUME LinksAssumption, Inv, NEW s \in Slots, Answer(s)
    PROVE  job' = [job EXCEPT ![s] = Idle] /\ NewOK(s, Idle)
           /\ Cardinality(Pending') =< Cardinality(Pending)
BY IdleOK, FewerPending DEF Answer, NewOK

LEMMA AnswerKeeps ==
    ASSUME LinksAssumption, Inv, NEW s \in Slots, Answer(s), UNCHANGED <<users, row, made>>,
           Note, UNCHANGED kinds
    PROVE  Inv'
<1>1. made' + Cardinality(Pending') =< MaxLinks
  BY AnswerOK, PendingFinite DEF Inv, TypeOK, LinksAssumption
<1> QED BY <1>1, AnswerOK, SameTables, StepKeeps

\* A request that goes on, about the same link.
GoesOn(s, w) ==
    /\ w \in Job /\ JobOK(w)
    /\ w.to = job[s].to /\ w.link = job[s].link /\ About(w) = About(job[s])
    /\ IsPending(w) => IsPending(job[s])

LEMMA GoesOnOK ==
    ASSUME LinksAssumption, Inv, NEW s \in Slots, NEW w, GoesOn(s, w), TablesOK(s),
           Sure(w) => users'[w.to] # None,
           s \notin stale =>
             /\ w.user # None => w.user = users'[w.to]
             /\ HoldsLink(w) => row'[w.link] # None /\ row'[w.link].is # "used"
    PROVE  NewOK(s, w)
<1>1. ASSUME w.link # None
      PROVE  /\ w.link =< made'
             /\ row'[w.link] # None => row'[w.link].to = w.to /\ row'[w.link].kind = About(w)
             /\ \A t \in Slots \ {s} : job[t].link = w.link => job[t].to = w.to /\ About(job[t]) = About(w)
  <2>1. w.link \in Link /\ w.link =< made /\ made \in Nat /\ made' \in Nat /\ made =< made'
        /\ KnowsLink(job[s])
    BY <1>1 DEF GoesOn, Job, KnowsLink, Inv, TypeOK, TablesOK, LinksAssumption
  <2>2. \A t \in Slots : job[t].link = w.link => job[t].to = w.to /\ About(job[t]) = About(w)
    BY <1>1 DEF GoesOn, Inv, Agree
  <2> QED BY <1>1, <2>1, <2>2 DEF GoesOn, KnowsLink, TablesOK, Link, LinksAssumption
<1> QED BY <1>1 DEF NewOK, GoesOn

LEMMA LookKeeps ==
    ASSUME LinksAssumption, Inv, NEW s \in Slots, NEW w, GoesOn(s, w),
           job' = [job EXCEPT ![s] = w], UNCHANGED <<users, row, made>>, Note, UNCHANGED kinds,
           Sure(w) => users[w.to] # None,
           s \notin stale =>
             /\ w.user # None => w.user = users[w.to]
             /\ HoldsLink(w) => row[w.link] # None /\ row[w.link].is # "used"
    PROVE  Inv'
<1>1. NewOK(s, w)
  BY SameTables, GoesOnOK
<1>2. Cardinality(Pending') =< Cardinality(Pending)
  BY FewerPending DEF GoesOn
<1>3. made' + Cardinality(Pending') =< MaxLinks
  BY <1>2, PendingFinite DEF Inv, TypeOK, LinksAssumption
<1> QED BY <1>1, <1>3, SameTables, StepKeeps

-----------------------------------------------------------------------------
(* The pages *)

\* A page asks: for a link of its own, or with the address and kind of a link
\* there is.
LEMMA OpenKeeps ==
    ASSUME LinksAssumption, Inv, NEW s \in Slots, Note, UNCHANGED kinds,
           NEW op \in Issuing \cup Following \cup {"resend", "revoke", "edit", "remove", "sso"},
           NEW e \in Emails, NEW l \in Link \cup {None}, NEW at \in {"find", "load"},
           Open(s, op, e, l, at),
           at = "find" <=> op \notin {"edit", "remove"},
           l = None <=> op \notin Following \cup {"resend", "revoke"},
           l # None => row[l] # None /\ row[l].to = e /\ row[l].kind = KindOf(op),
           op \in Issuing => made + Cardinality(Pending) < MaxLinks
    PROVE  Inv'
<1> DEFINE w == [Idle EXCEPT !.op = op, !.to = e, !.link = l, !.at = at]
<1>1. w.op = op /\ w.to = e /\ w.link = l /\ w.at = at /\ w.user = None
  BY DEF Idle
<1>2. w \in Job
  BY DEF Idle, Job, Issuing, Following
<1>3. job' = [job EXCEPT ![s] = w] /\ UNCHANGED <<users, row, made>>
  BY DEF Open
<1> HIDE DEF w
<1>4. e # None
  BY DEF LinksAssumption
<1>5. JobOK(w) /\ ~Sure(w) /\ ~HoldsLink(w) /\ (IsPending(w) => op \in Issuing)
  BY <1>1, <1>4 DEF JobOK, StopsAt, HasLink, HasUser, Sure, HoldsLink, IsPending, Issuing, Following
<1>6. ASSUME l # None
      PROVE  /\ l =< made /\ row[l].kind = About(w)
             /\ \A t \in Slots : job[t].link = l => job[t].to = e /\ About(job[t]) = About(w)
  <2>1. l \in Link /\ l =< made
    BY <1>6 DEF Inv, TypeOK, Link, LinksAssumption
  <2>2. About(w) = KindOf(op)
    BY <1>1, <1>6 DEF About, KindOf, Issuing, Following
  <2> QED BY <1>6, <2>1, <2>2 DEF Inv, KnowsLink
<1>7. NewOK(s, w)
  BY <1>1, <1>2, <1>3, <1>5, <1>6 DEF NewOK
<1>8. made' + Cardinality(Pending') =< MaxLinks
  <2>1. CASE op \in Issuing
    <3>1. Cardinality(Pending') =< Cardinality(Pending) + 1
      BY <1>3, OneMorePending
    <3> QED BY <1>3, <2>1, <3>1, PendingFinite DEF Inv, TypeOK, LinksAssumption
  <2>2. CASE op \notin Issuing
    <3>1. Cardinality(Pending') =< Cardinality(Pending)
      BY <1>3, <1>5, <2>2, FewerPending
    <3> QED BY <1>3, <3>1, PendingFinite DEF Inv, TypeOK, LinksAssumption
  <2> QED BY <2>1, <2>2
<1> QED BY <1>3, <1>7, <1>8, SameTables, StepKeeps

LEMMA RoomIs ==
    ASSUME NEW kind, Room(kind)
    PROVE  kind \in kinds /\ made + Cardinality(Pending) < MaxLinks
<1>1. {s \in Slots : \E at \in {"find", "drop", "insert"} : At(s, Issuing, at)} = Pending
  BY DEF Pending, IsPending, At
<1> QED BY <1>1 DEF Room

LEMMA ClientKeeps ==
    ASSUME LinksAssumption, Inv, NEW s \in Slots, Client(s), Note, UNCHANGED kinds
    PROVE  Inv'
<1>1. ASSUME NEW e \in Emails,
             ForgotPage(s, e) \/ ResendVerification(s, e) \/ InviteModal(s, e)
      PROVE  Inv'
  BY <1>1, RoomIs, OpenKeeps DEF ForgotPage, ResendVerification, InviteModal, Issuing, Following
<1>2. ASSUME NEW e \in Emails, EditUser(s, e) \/ RemoveUser(s, e) \/ SsoLogin(s, e)
      PROVE  Inv'
  BY <1>2, OpenKeeps DEF EditUser, RemoveUser, SsoLogin, Issuing, Following
<1>3. ASSUME NEW l \in Link, row[l] # None
      PROVE  row[l].to \in Emails /\ l # None
  BY <1>3, LinkRows DEF Inv, TypeOK, Link, LinksAssumption
<1>4. ASSUME NEW l \in Link, row[l] # None, row[l].kind = "reset", ResetPage(s, l, row[l].to)
      PROVE  Inv'
  BY <1>3, <1>4, OpenKeeps DEF ResetPage, KindOf, Issuing, Following
<1>5. ASSUME NEW l \in Link, row[l] # None, row[l].kind = "verify", VerifyPage(s, l, row[l].to)
      PROVE  Inv'
  BY <1>3, <1>5, OpenKeeps DEF VerifyPage, KindOf, Issuing, Following
<1>6. ASSUME NEW l \in Link, row[l] # None, row[l].kind = "invite",
             \/ AcceptPage(s, l, row[l].to) \/ ResendInvite(s, l, row[l].to)
             \/ RevokeInvite(s, l, row[l].to)
      PROVE  Inv'
  BY <1>3, <1>6, OpenKeeps DEF AcceptPage, ResendInvite, RevokeInvite, KindOf, Issuing, Following
<1>7. ASSUME Leave(s)
      PROVE  Inv'
  BY <1>7, AnswerKeeps DEF Leave
<1> QED BY <1>1, <1>2, <1>4, <1>5, <1>6, <1>7 DEF Client

-----------------------------------------------------------------------------
(* What the server reads *)

After(s, at) == [job[s] EXCEPT !.at = at]

LEMMA AfterIs ==
    ASSUME Inv, NEW s \in Slots, NEW at, Goto(s, at)
    PROVE  /\ job' = [job EXCEPT ![s] = After(s, at)]
           /\ After(s, at).op = job[s].op /\ After(s, at).to = job[s].to
           /\ After(s, at).link = job[s].link /\ After(s, at).user = job[s].user
           /\ After(s, at).at = at
BY DEF Goto, After, Inv, TypeOK, Job

Ats == {"none", "find", "drop", "insert", "mail", "load", "save", "create", "mark", "ok"}

\* A request that has found what it looked for.
LEMMA GotoKeeps ==
    ASSUME LinksAssumption, Inv, NEW s \in Slots, NEW at \in Ats, Goto(s, at),
           UNCHANGED <<users, row, made>>, Note, UNCHANGED kinds,
           LET w == After(s, at) IN
           /\ JobOK(w)
           /\ IsPending(w) => IsPending(job[s])
           /\ Sure(w) => users[w.to] # None
           /\ w.user = None
           /\ HoldsLink(w) => HoldsLink(job[s]) \/ (row[w.link] # None /\ row[w.link].is # "used")
    PROVE  Inv'
<1> DEFINE w == After(s, at)
<1>1. job' = [job EXCEPT ![s] = w] /\ w.op = job[s].op /\ w.to = job[s].to /\ w.link = job[s].link
  BY AfterIs
<1>2. w \in Job
  BY DEF After, Inv, TypeOK, Job, Ats
<1>3. JobOK(w) /\ (IsPending(w) => IsPending(job[s])) /\ (Sure(w) => users[w.to] # None) /\ w.user = None
      /\ (HoldsLink(w) => HoldsLink(job[s]) \/ (row[w.link] # None /\ row[w.link].is # "used"))
  OBVIOUS
<1> HIDE DEF w
<1>4. GoesOn(s, w)
  BY <1>1, <1>2, <1>3 DEF GoesOn, About
<1>5. s \notin stale => (HoldsLink(w) => row[w.link] # None /\ row[w.link].is # "used")
  BY <1>1, <1>3 DEF Inv, FreshOK
<1> QED BY <1>1, <1>3, <1>4, <1>5, LookKeeps

LEMMA LooksKeep ==
    ASSUME LinksAssumption, NoneAssumption, Inv, NEW s \in Slots, Note, UNCHANGED kinds,
           \/ ForgotPassword(s) \/ FindForVerification(s) \/ CreateInvite(s)
           \/ ResetPassword(s) \/ VerifyEmail(s) \/ AcceptInvite(s)
           \/ Resend(s) \/ Revoke(s) \/ SendMail(s)
    PROVE  Inv'
<1> DEFINE j == job[s]
<1>0. j \in Job /\ JobOK(j) /\ KnowsUser(j) /\ KnowsLink(j)
  BY DEF Inv, TypeOK
<1>1. CASE ForgotPassword(s)
  <2>1. At(s, {"reset"}, "find") /\ UNCHANGED <<users, row, made>>
        /\ (Answer(s) \/ (Live(j.to) /\ Goto(s, "drop")))
    BY <1>1 DEF ForgotPassword
  <2>2. ASSUME Live(j.to), Goto(s, "drop") PROVE Inv'
    BY <1>0, <2>1, <2>2, AfterIs, GotoKeeps
       DEF At, Live, JobOK, StopsAt, HasLink, HasUser, HoldsLink, IsPending, Sure, Ats, Issuing, Following
  <2> QED BY <2>1, <2>2, AnswerKeeps
<1>2. CASE FindForVerification(s)
  <2>1. At(s, {"verify"}, "find") /\ UNCHANGED <<users, row, made>>
        /\ (Answer(s) \/ (Live(j.to) /\ Goto(s, "drop")))
    BY <1>2 DEF FindForVerification
  <2>2. ASSUME Live(j.to), Goto(s, "drop") PROVE Inv'
    BY <1>0, <2>1, <2>2, AfterIs, GotoKeeps
       DEF At, Live, JobOK, StopsAt, HasLink, HasUser, HoldsLink, IsPending, Sure, Ats, Issuing, Following
  <2> QED BY <2>1, <2>2, AnswerKeeps
<1>3. CASE CreateInvite(s)
  <2>1. At(s, {"invite"}, "find") /\ UNCHANGED <<users, row, made>> /\ (Answer(s) \/ Goto(s, "drop"))
    BY <1>3 DEF CreateInvite
  <2>2. ASSUME Goto(s, "drop") PROVE Inv'
    BY <1>0, <2>1, <2>2, AfterIs, GotoKeeps
       DEF At, JobOK, StopsAt, HasLink, HasUser, HoldsLink, IsPending, Sure, Ats, Issuing, Following
  <2> QED BY <2>1, <2>2, AnswerKeeps
<1>4. ASSUME NEW op \in Following, NEW next, Follow(s, op, next),
             next = CASE op = "newpass" -> "load" [] op = "confirm" -> "save" [] OTHER -> "create"
      PROVE  Inv'
  <2>1. At(s, {op}, "find") /\ UNCHANGED <<users, row, made>>
        /\ (Answer(s) \/ (Good(j.link) /\ Goto(s, next)))
    BY <1>4 DEF Follow
  <2>2. ASSUME Good(j.link), Goto(s, next) PROVE Inv'
    <3>1. j.link # None /\ j.link \in Link
      BY <1>0, <2>1 DEF JobOK, HasLink, At, Job
    <3>2. row[j.link].to = j.to /\ row[j.link].kind = KindOf(op) /\ row[j.link].is = "good" /\ row[j.link] # None
      BY <1>0, <2>1, <2>2, <3>1 DEF KnowsLink, Good, About, At, Issuing, Following
    <3>3. op \in {"newpass", "confirm"} => users[j.to] # None
      BY <3>1, <3>2 DEF KindOf, Inv, RowsHaveUsers
    <3>4. JobOK(After(s, next)) /\ ~IsPending(After(s, next)) /\ After(s, next).user = None
          /\ (Sure(After(s, next)) => op \in {"newpass", "confirm"})
      BY <1>0, <1>4, <2>1, <2>2, AfterIs
         DEF At, JobOK, StopsAt, HasLink, HasUser, IsPending, Sure, Issuing, Following
    <3>5. next \in Ats
      BY <1>4 DEF Ats, Following
    <3> QED BY <2>1, <2>2, <3>2, <3>3, <3>4, <3>5, AfterIs, GotoKeeps
  <2> QED BY <2>1, <2>2, AnswerKeeps
<1>5. CASE ResetPassword(s) \/ VerifyEmail(s) \/ AcceptInvite(s)
  BY <1>4, <1>5 DEF ResetPassword, VerifyEmail, AcceptInvite, Following
<1>6. CASE Resend(s)
  <2>1. At(s, {"resend"}, "find") /\ UNCHANGED <<users, row, made>>
        /\ (Answer(s) \/ (row[j.link] # None /\ row[j.link].is # "used" /\ Goto(s, "save")))
    BY <1>6 DEF Resend
  <2>2. ASSUME row[j.link] # None, row[j.link].is # "used", Goto(s, "save") PROVE Inv'
    BY <1>0, <2>1, <2>2, AfterIs, GotoKeeps
       DEF At, JobOK, StopsAt, HasLink, HasUser, HoldsLink, IsPending, Sure, Ats, Issuing, Following
  <2> QED BY <2>1, <2>2, AnswerKeeps
<1>7. CASE Revoke(s)
  <2>1. At(s, {"revoke"}, "find") /\ UNCHANGED <<users, row, made>> /\ (Answer(s) \/ Goto(s, "save"))
    BY <1>7 DEF Revoke
  <2>2. ASSUME Goto(s, "save") PROVE Inv'
    BY <1>0, <2>1, <2>2, AfterIs, GotoKeeps
       DEF At, JobOK, StopsAt, HasLink, HasUser, HoldsLink, IsPending, Sure, Ats, Issuing, Following
  <2> QED BY <2>1, <2>2, AnswerKeeps
<1>8. CASE SendMail(s)
  BY <1>8, AnswerKeeps DEF SendMail
<1> QED BY <1>1, <1>2, <1>3, <1>5, <1>6, <1>7, <1>8

LEMMA ProvisionKeeps ==
    ASSUME LinksAssumption, Inv, NEW s \in Slots, Note, UNCHANGED kinds, ProvisionUser(s)
    PROVE  Inv'
<1>0. job[s] \in Job /\ JobOK(job[s])
  BY DEF Inv, TypeOK
<1>1. ASSUME NEW at \in {"load", "create"}, Goto(s, at)
      PROVE  Inv'
  BY <1>0, <1>1, AfterIs, GotoKeeps
     DEF ProvisionUser, At, JobOK, StopsAt, HasLink, HasUser, HoldsLink, IsPending, Sure, Ats, Issuing, Following
<1> QED BY <1>1, AnswerKeeps DEF ProvisionUser

\* The copy of an account is the row, as long as it is not stale.
LEMMA LoadKeeps ==
    ASSUME LinksAssumption, NoneAssumption, Inv, NEW s \in Slots, Note, UNCHANGED kinds, LoadUser(s)
    PROVE  Inv'
<1> DEFINE j == job[s]
           w == [j EXCEPT !.at = "save", !.user = users[j.to]]
<1>0. j \in Job /\ JobOK(j) /\ KnowsLink(j) /\ FreshOK(s) /\ j.at = "load" /\ j.to \in Emails
  BY DEF LoadUser, Inv, TypeOK, Job, JobOK, StopsAt
<1>1. CASE Live(j.to)
  <2>1. job' = [job EXCEPT ![s] = w] /\ UNCHANGED <<users, row, made>>
    BY <1>1 DEF LoadUser
  <2>2. users[j.to] \in User /\ users[j.to] # None
    BY <1>0, <1>1 DEF Live, Inv, TypeOK
  <2>3. w \in Job /\ w.op = j.op /\ w.to = j.to /\ w.link = j.link /\ w.at = "save" /\ w.user = users[j.to]
    BY <1>0, <2>2 DEF Job
  <2> HIDE DEF w
  <2>4. JobOK(w) /\ ~IsPending(w) /\ (HoldsLink(w) => HoldsLink(j)) /\ About(w) = About(j)
    BY <1>0, <2>2, <2>3
       DEF JobOK, StopsAt, HasLink, HasUser, HoldsLink, IsPending, About, Issuing, Following
  <2>5. GoesOn(s, w)
    BY <2>3, <2>4 DEF GoesOn
  <2>6. s \notin stale => (HoldsLink(w) => row[w.link] # None /\ row[w.link].is # "used")
    BY <1>0, <2>3, <2>4 DEF FreshOK
  <2> QED BY <2>1, <2>2, <2>3, <2>5, <2>6, LookKeeps
<1>2. CASE ~Live(j.to)
  BY <1>2, AnswerKeeps DEF LoadUser
<1> QED BY <1>1, <1>2

-----------------------------------------------------------------------------
(* What it writes *)

\* A write of the user row.
LEMMA UsersTables ==
    ASSUME LinksAssumption, NoneAssumption, Inv, NEW s \in Slots, NEW u \in User, SaveUser(s, u),
           UNCHANGED <<row, made>>
    PROVE  TablesOK(s) /\ RowsHaveUsers'
<1>1. users' \in [Emails -> User \cup {None}] /\ \A e \in Emails : users[e] # None => users'[e] # None
  BY DEF SaveUser, Inv, TypeOK
<1>2. \A l \in Link : row[l] # None => row[l].to \in Emails
  BY LinkRows DEF Inv, TypeOK
<1>3. TablesOK(s)
  BY <1>1 DEF TablesOK, Inv, TypeOK, LinksAssumption
<1> QED BY <1>1, <1>2, <1>3 DEF RowsHaveUsers, Inv

\* A write of one row of the links' tables.
LEMMA LinkTables ==
    ASSUME LinksAssumption, NoneAssumption, Inv, NEW s \in Slots, NEW is \in {"good", "used"},
           SaveLink(s, About(job[s]), is), job[s].link \in Link, job[s].to \in Emails,
           About(job[s]) \in Issuing, About(job[s]) # "invite" => users[job[s].to] # None,
           UNCHANGED <<users, made>>
    PROVE  TablesOK(s) /\ RowsHaveUsers'
           /\ row'[job[s].link] = [kind |-> About(job[s]), to |-> job[s].to, is |-> is]
           /\ row'[job[s].link] # None
<1> DEFINE r == [kind |-> About(job[s]), to |-> job[s].to, is |-> is]
<1>1. row' = [row EXCEPT ![job[s].link] = r] /\ r \in LinkRow
  BY LinkRows DEF SaveLink
<1>2. r # None /\ r.kind = About(job[s]) /\ r.to = job[s].to /\ r.is = is
  BY <1>1 DEF NoneAssumption
<1> HIDE DEF r
<1>3. row' \in [Link -> LinkRow \cup {None}] /\ row'[job[s].link] = r
      /\ \A l \in Link \ {job[s].link} : row'[l] = row[l]
  BY <1>1 DEF Inv, TypeOK
<1>4. job[s].link =< made
  BY DEF Inv, KnowsLink, LinksAssumption, Link
<1>5. TablesOK(s)
  BY <1>2, <1>3, <1>4 DEF TablesOK, Inv, TypeOK, Link, LinksAssumption
<1>6. RowsHaveUsers'
  BY <1>2, <1>3 DEF RowsHaveUsers, Inv, Issuing
<1> QED BY <1>2, <1>3, <1>5, <1>6 DEF r

\* Rows that go away.
LEMMA GoneTables ==
    ASSUME LinksAssumption, Inv, NEW s \in Slots, UNCHANGED <<users, made>>,
           row' \in [Link -> LinkRow \cup {None}],
           \A l \in Link : row'[l] = None \/ row'[l] = row[l]
    PROVE  TablesOK(s) /\ RowsHaveUsers'
BY DEF TablesOK, RowsHaveUsers, Inv, TypeOK, LinksAssumption

LEMMA WriteThenAnswer ==
    ASSUME LinksAssumption, Inv, NEW s \in Slots, TablesOK(s), RowsHaveUsers', made' = made,
           Answer(s), Note, UNCHANGED kinds
    PROVE  Inv'
<1>1. made' + Cardinality(Pending') =< MaxLinks
  BY AnswerOK, PendingFinite DEF Inv, TypeOK, LinksAssumption
<1> QED BY <1>1, AnswerOK, StepKeeps

LEMMA WriteThenGoOn ==
    ASSUME LinksAssumption, Inv, NEW s \in Slots, TablesOK(s), RowsHaveUsers', made' = made,
           NEW w, GoesOn(s, w), job' = [job EXCEPT ![s] = w], Note, UNCHANGED kinds,
           w.user = None, Sure(w) => users'[w.to] # None,
           HoldsLink(w) => HoldsLink(job[s]) /\ UNCHANGED row
    PROVE  Inv'
<1>1. Cardinality(Pending') =< Cardinality(Pending)
  BY FewerPending DEF GoesOn
<1>2. made' + Cardinality(Pending') =< MaxLinks
  BY <1>1, PendingFinite DEF Inv, TypeOK, LinksAssumption
<1>3. s \notin stale => (HoldsLink(w) => row'[w.link] # None /\ row'[w.link].is # "used")
  BY DEF Inv, FreshOK, GoesOn
<1>4. NewOK(s, w)
  BY <1>3, GoesOnOK
<1> QED BY <1>2, <1>4, StepKeeps

LEMMA WriteThenGoto ==
    ASSUME LinksAssumption, Inv, NEW s \in Slots, TablesOK(s), RowsHaveUsers', made' = made,
           NEW at \in Ats, Goto(s, at), Note, UNCHANGED kinds,
           JobOK(After(s, at)), ~IsPending(After(s, at)) \/ IsPending(job[s]),
           After(s, at).user = None, Sure(After(s, at)) => users'[job[s].to] # None,
           HoldsLink(After(s, at)) => HoldsLink(job[s]) /\ UNCHANGED row
    PROVE  Inv'
<1> DEFINE w == After(s, at)
<1>1. job' = [job EXCEPT ![s] = w] /\ w.op = job[s].op /\ w.to = job[s].to /\ w.link = job[s].link
  BY AfterIs
<1>2. w \in Job
  BY DEF After, Inv, TypeOK, Job, Ats
<1>3. /\ JobOK(w) /\ (IsPending(w) => IsPending(job[s])) /\ w.user = None
      /\ Sure(w) => users'[job[s].to] # None
      /\ HoldsLink(w) => HoldsLink(job[s]) /\ UNCHANGED row
  OBVIOUS
<1> HIDE DEF w
<1>4. GoesOn(s, w)
  BY <1>1, <1>2, <1>3 DEF GoesOn, About
<1> QED BY <1>1, <1>3, <1>4, WriteThenGoOn

LEMMA UserWritesKeep ==
    ASSUME LinksAssumption, NoneAssumption, Inv, NEW s \in Slots, Note, UNCHANGED kinds,
           UpdateUser(s) \/ MarkEmailVerified(s) \/ CreateUser(s) \/ SoftRemove(s)
    PROVE  Inv'
<1> DEFINE j == job[s]
<1>0. j \in Job /\ JobOK(j) /\ KnowsUser(j) /\ KnowsLink(j) /\ j.to \in Emails
  BY DEF UpdateUser, MarkEmailVerified, CreateUser, SoftRemove, At, Inv, TypeOK, Job, JobOK, StopsAt
<1>1. CASE UpdateUser(s)
  <2>1. At(s, {"newpass", "edit", "sso"}, "save") /\ SaveUser(s, j.user) /\ UNCHANGED <<row, made>>
    BY <1>1 DEF UpdateUser
  <2>2. j.user \in User /\ j.user # None
    BY <1>0, <2>1 DEF JobOK, HasUser, Job, At
  <2>3. TablesOK(s) /\ RowsHaveUsers'
    BY <2>1, <2>2, UsersTables
  <2>4. CASE j.op = "newpass"
    <3> DEFINE w == [j EXCEPT !.at = "mark", !.user = None]
    <3>1. job' = [job EXCEPT ![s] = w]
      BY <1>1, <2>4 DEF UpdateUser
    <3>2. w \in Job /\ w.op = j.op /\ w.to = j.to /\ w.link = j.link /\ w.at = "mark" /\ w.user = None
      BY <1>0 DEF Job
    <3> HIDE DEF w
    <3>3. JobOK(w) /\ ~IsPending(w) /\ HoldsLink(j)
      BY <1>0, <2>1, <2>4, <3>2
         DEF JobOK, StopsAt, HasLink, HasUser, HoldsLink, IsPending, At, Issuing, Following
    <3>4. users'[w.to] # None
      BY <1>0, <2>1, <2>2, <3>2 DEF SaveUser, Inv, TypeOK
    <3>5. GoesOn(s, w)
      BY <3>2, <3>3 DEF GoesOn, About
    <3> QED BY <2>1, <2>3, <3>1, <3>2, <3>3, <3>4, <3>5, WriteThenGoOn
  <2>5. CASE j.op # "newpass"
    BY <1>1, <2>1, <2>3, <2>5, WriteThenAnswer DEF UpdateUser
  <2> QED BY <2>4, <2>5
<1>2. CASE MarkEmailVerified(s)
  <2> DEFINE u == [users[j.to] EXCEPT !.verified = TRUE]
  <2>1. j.op = "confirm" /\ j.at = "save" /\ SaveUser(s, u) /\ Goto(s, "mark") /\ UNCHANGED <<row, made>>
    BY <1>2 DEF MarkEmailVerified, At
  <2>2. users[j.to] \in User
    BY <1>0, <2>1 DEF KnowsUser, Sure, Inv, TypeOK
  <2>3. u \in User /\ u # None
    BY <2>2 DEF User, NoneAssumption
  <2> HIDE DEF u
  <2>4. TablesOK(s) /\ RowsHaveUsers' /\ users'[j.to] # None
    BY <1>0, <2>1, <2>3, UsersTables DEF SaveUser, Inv, TypeOK
  <2>5. JobOK(After(s, "mark")) /\ ~IsPending(After(s, "mark")) /\ After(s, "mark").user = None /\ HoldsLink(j)
    BY <1>0, <2>1, AfterIs DEF JobOK, StopsAt, HasLink, HasUser, HoldsLink, IsPending, Issuing, Following
  <2> QED BY <2>1, <2>4, <2>5, WriteThenGoto DEF Ats
<1>3. CASE CreateUser(s)
  <2>1. j.op \in {"accept", "sso"} /\ j.at = "create" /\ UNCHANGED <<row, made>>
    BY <1>3 DEF CreateUser, At
  <2>2. CASE users[j.to] # None
    BY <1>3, <2>1, <2>2, AnswerKeeps DEF CreateUser
  <2>3. CASE users[j.to] = None
    <3> DEFINE u == [live |-> TRUE, verified |-> TRUE]
    <3>1. SaveUser(s, u) /\ (j.op = "accept" => Goto(s, "mark")) /\ (j.op # "accept" => Answer(s))
      BY <1>3, <2>3 DEF CreateUser
    <3>2. u \in User /\ u # None
      BY DEF User, NoneAssumption
    <3> HIDE DEF u
    <3>3. TablesOK(s) /\ RowsHaveUsers' /\ users'[j.to] # None
      BY <1>0, <2>1, <3>1, <3>2, UsersTables DEF SaveUser, Inv, TypeOK
    <3>4. CASE j.op = "accept"
      <4>1. /\ JobOK(After(s, "mark")) /\ ~IsPending(After(s, "mark"))
            /\ After(s, "mark").user = None /\ HoldsLink(j)
        BY <1>0, <2>1, <3>1, <3>4, AfterIs
           DEF JobOK, StopsAt, HasLink, HasUser, HoldsLink, IsPending, Issuing, Following
      <4> QED BY <2>1, <3>1, <3>3, <3>4, <4>1, WriteThenGoto DEF Ats
    <3>5. CASE j.op # "accept"
      BY <2>1, <3>1, <3>3, <3>5, WriteThenAnswer
    <3> QED BY <3>4, <3>5
  <2> QED BY <2>2, <2>3
<1>4. CASE SoftRemove(s)
  <2> DEFINE u == [users[j.to] EXCEPT !.live = FALSE]
  <2>1. j.op = "remove" /\ j.at = "save" /\ SaveUser(s, u) /\ Answer(s) /\ UNCHANGED <<row, made>>
    BY <1>4 DEF SoftRemove, At
  <2>2. users[j.to] \in User
    BY <1>0, <2>1 DEF KnowsUser, Sure, JobOK, HasUser, Inv, TypeOK
  <2>3. u \in User
    BY <2>2 DEF User
  <2> HIDE DEF u
  <2> QED BY <2>1, <2>3, UsersTables, WriteThenAnswer
<1> QED BY <1>1, <1>2, <1>3, <1>4

LEMMA DropKeeps ==
    ASSUME LinksAssumption, Inv, NEW s \in Slots, Note, UNCHANGED kinds,
           DropUnused(s) \/ DeleteInvite(s)
    PROVE  Inv'
<1>0. job[s] \in Job /\ JobOK(job[s]) /\ KnowsUser(job[s])
  BY DEF Inv, TypeOK
<1>1. row' \in [Link -> LinkRow \cup {None}] /\ (\A l \in Link : row'[l] = None \/ row'[l] = row[l])
      /\ UNCHANGED <<users, made>>
  BY DEF DropUnused, DeleteInvite, Inv, TypeOK
<1>2. TablesOK(s) /\ RowsHaveUsers'
  BY <1>1, GoneTables
<1>3. CASE DropUnused(s)
  <2>1. At(s, Issuing, "drop") /\ Goto(s, "insert")
    BY <1>3 DEF DropUnused
  <2>2. /\ JobOK(After(s, "insert")) /\ IsPending(job[s]) /\ After(s, "insert").user = None
        /\ ~HoldsLink(After(s, "insert"))
        /\ Sure(After(s, "insert")) => users[job[s].to] # None
    BY <1>0, <2>1, AfterIs
       DEF At, JobOK, StopsAt, HasLink, HasUser, HoldsLink, IsPending, KnowsUser, Sure, Issuing, Following
  <2> QED BY <1>1, <1>2, <2>1, <2>2, WriteThenGoto DEF Ats
<1>4. CASE DeleteInvite(s)
  BY <1>1, <1>2, <1>4, WriteThenAnswer DEF DeleteInvite
<1> QED BY <1>3, <1>4

LEMMA InsertKeeps ==
    ASSUME LinksAssumption, NoneAssumption, Inv, NEW s \in Slots, Note, UNCHANGED kinds, InsertLink(s)
    PROVE  Inv'
<1> DEFINE j == job[s]
           r == [kind |-> j.op, to |-> j.to, is |-> "good"]
           w == [j EXCEPT !.at = "mail", !.link = made']
<1>0. j \in Job /\ JobOK(j) /\ KnowsUser(j) /\ j.op \in Issuing /\ j.at = "insert" /\ j.to \in Emails
      /\ j.user = None /\ made \in Nat /\ MaxLinks \in Nat
  BY DEF InsertLink, At, Inv, TypeOK, Job, JobOK, StopsAt, HasUser, Issuing, LinksAssumption
<1>1. made' = made + 1 /\ job' = [job EXCEPT ![s] = w] /\ row' = [row EXCEPT ![made'] = r] /\ UNCHANGED users
  BY DEF InsertLink
<1>2. r \in LinkRow /\ r.kind = j.op /\ r.to = j.to
  BY <1>0, LinkRows
<1>3. w.op = j.op /\ w.to = j.to /\ w.link = made' /\ w.at = "mail" /\ w.user = None
  BY <1>0 DEF Job
<1>4. IsPending(j) /\ ~IsPending(w)
  BY <1>0, <1>3 DEF IsPending
<1>5. made' + Cardinality(Pending') =< MaxLinks /\ made' =< MaxLinks
  <2>1. Cardinality(Pending') = Cardinality(Pending) - 1 /\ Cardinality(Pending) > 0
    BY <1>1, <1>4, OneLessPending
  <2> QED BY <1>0, <1>1, <2>1, PendingFinite DEF Inv
<1>6. made' \in Link /\ made' # None
  BY <1>0, <1>1, <1>5 DEF Link, LinksAssumption
<1>7. w \in Job
  BY <1>0, <1>6 DEF Job
<1> HIDE DEF w, r
<1>8. row' \in [Link -> LinkRow \cup {None}] /\ row'[made'] = r
      /\ \A l \in Link \ {made'} : row'[l] = row[l]
  BY <1>1, <1>2, <1>6 DEF Inv, TypeOK
<1>9. TablesOK(s)
  BY <1>0, <1>1, <1>5, <1>8 DEF TablesOK, Inv, TypeOK, Link
<1>10. RowsHaveUsers'
  <2>1. j.op \in {"reset", "verify"} => users[j.to] # None
    BY <1>0 DEF KnowsUser, Sure
  <2> QED BY <1>1, <1>2, <1>8, <2>1 DEF RowsHaveUsers, Inv
<1>11. JobOK(w) /\ ~Sure(w) /\ ~HoldsLink(w) /\ About(w) = j.op
  BY <1>0, <1>3, <1>6, <1>7
     DEF JobOK, StopsAt, HasLink, HasUser, Sure, HoldsLink, About, Job, Issuing, Following
<1>12. \A t \in Slots : job[t].link # made'
  <2> SUFFICES ASSUME NEW t \in Slots, job[t].link = made' PROVE FALSE
    OBVIOUS
  <2>1. KnowsLink(job[t])
    BY DEF Inv
  <2> QED BY <1>0, <1>1, <1>6, <2>1 DEF KnowsLink
<1>13. NewOK(s, w)
  BY <1>0, <1>1, <1>2, <1>3, <1>7, <1>8, <1>11, <1>12 DEF NewOK
<1> QED BY <1>1, <1>5, <1>9, <1>10, <1>13, StepKeeps

LEMMA LinkWritesKeep ==
    ASSUME LinksAssumption, NoneAssumption, Inv, NEW s \in Slots, Note, UNCHANGED kinds,
           Mark(s) \/ Prolong(s)
    PROVE  Inv'
<1> DEFINE j == job[s]
<1>0. j \in Job /\ JobOK(j) /\ KnowsUser(j)
  BY DEF Inv, TypeOK
<1>1. CASE Mark(s)
  <2>1. j.op \in Following /\ j.at = "mark" /\ SaveLink(s, KindOf(j.op), "used") /\ Goto(s, "ok")
        /\ UNCHANGED <<users, made>>
    BY <1>1 DEF Mark, At, Worked, Goto
  <2>2. About(j) = KindOf(j.op) /\ About(j) \in Issuing /\ j.link \in Link /\ j.to \in Emails
        /\ users[j.to] # None
    BY <1>0, <2>1 DEF About, KindOf, JobOK, HasLink, KnowsUser, Sure, Job, Issuing, Following
  <2>3. TablesOK(s) /\ RowsHaveUsers'
    BY <2>1, <2>2, LinkTables
  <2>4. /\ JobOK(After(s, "ok")) /\ ~IsPending(After(s, "ok")) /\ After(s, "ok").user = None
        /\ ~HoldsLink(After(s, "ok"))
    BY <1>0, <2>1, AfterIs DEF JobOK, StopsAt, HasLink, HasUser, HoldsLink, IsPending, Issuing, Following
  <2> QED BY <2>1, <2>2, <2>3, <2>4, WriteThenGoto DEF Ats
<1>2. CASE Prolong(s)
  <2>1. j.op = "resend" /\ j.at = "save" /\ SaveLink(s, "invite", "good") /\ Goto(s, "mail")
        /\ UNCHANGED <<users, made>>
    BY <1>2 DEF Prolong, At
  <2>2. About(j) = "invite" /\ About(j) \in Issuing /\ j.link \in Link /\ j.to \in Emails
    BY <1>0, <2>1 DEF About, KindOf, JobOK, HasLink, Job, Issuing, Following
  <2>3. TablesOK(s) /\ RowsHaveUsers'
    BY <2>1, <2>2, LinkTables
  <2>4. /\ JobOK(After(s, "mail")) /\ ~IsPending(After(s, "mail")) /\ After(s, "mail").user = None
        /\ ~HoldsLink(After(s, "mail")) /\ ~Sure(After(s, "mail"))
    BY <1>0, <2>1, AfterIs
       DEF JobOK, StopsAt, HasLink, HasUser, HoldsLink, IsPending, Sure, Issuing, Following
  <2> QED BY <2>1, <2>3, <2>4, WriteThenGoto DEF Ats
<1> QED BY <1>1, <1>2

LEMMA ExpireKeeps ==
    ASSUME LinksAssumption, NoneAssumption, Inv, NEW l \in Link, Expire(l), Note, UNCHANGED kinds
    PROVE  Inv'
<1> DEFINE r == [row[l] EXCEPT !.is = "expired"]
<1>1. row[l] \in LinkRow /\ row[l] # None
  BY DEF Expire, Good, Inv, TypeOK
<1>2. r \in LinkRow /\ r.kind = row[l].kind /\ r.to = row[l].to
  BY <1>1, LinkRows
<1>3. row' = [row EXCEPT ![l] = r] /\ UNCHANGED <<users, made, job>>
  BY DEF Expire
<1> HIDE DEF r
<1>4. row' \in [Link -> LinkRow \cup {None}] /\ row'[l] = r /\ \A k \in Link \ {l} : row'[k] = row[k]
  BY <1>2, <1>3 DEF Inv, TypeOK
<1>5. l =< made
  BY <1>1 DEF Inv, TypeOK, Link, LinksAssumption
<1>6. ASSUME NEW t \in Slots
      PROVE  JobOK(job'[t]) /\ KnowsUser(job[t])' /\ KnowsLink(job[t])' /\ FreshOK(t)'
  <2>1. JobOK(job[t]) /\ KnowsUser(job[t]) /\ KnowsLink(job[t]) /\ FreshOK(t) /\ job[t].link \in Link \cup {None}
    BY DEF Inv, TypeOK, Job
  <2>2. FreshOK(t)'
    BY <1>3, <2>1 DEF FreshOK, Note
  <2> QED BY <1>1, <1>2, <1>3, <1>4, <2>1, <2>2 DEF KnowsUser, KnowsLink, About, KindOf
<1>7. RowsHaveUsers' /\ Agree'
  BY <1>1, <1>2, <1>3, <1>4 DEF RowsHaveUsers, Agree, Inv, About, KindOf
<1>8. stale' \subseteq {t \in Slots : Busy(t)}'
  <2>1. \A t \in Slots : job'[t].user # None \/ HoldsLink(job'[t]) => job'[t].at \notin {"none", "ok"}
    BY <1>6 DEF JobOK, HasUser, HoldsLink
  <2> QED BY <2>1 DEF Note, Busy
<1>9. TypeOK'
  BY <1>3, <1>4, <1>5, <1>8 DEF TypeOK, Inv, LinksAssumption, Link
<1>10. Pending' = Pending
  BY <1>3 DEF Pending
<1> QED BY <1>3, <1>6, <1>7, <1>9, <1>10 DEF Inv

LEMMA ServerKeeps ==
    ASSUME LinksAssumption, NoneAssumption, Inv, NEW s \in Slots, Server(s), Note, UNCHANGED kinds
    PROVE  Inv'
BY LooksKeep, ProvisionKeeps, LoadKeeps, UserWritesKeep, DropKeeps, InsertKeeps, LinkWritesKeep DEF Server

LEMMA NextKeeps ==
    ASSUME LinksAssumption, NoneAssumption, Inv, Next
    PROVE  Inv'
<1>1. ASSUME NEW s \in Slots, Server(s) \/ Client(s) \/ Break(s), Note, UNCHANGED kinds
      PROVE  Inv'
  BY <1>1, ServerKeeps, ClientKeeps, AnswerKeeps DEF Break
<1> QED BY <1>1, ExpireKeeps DEF Next

LEMMA InitInv ==
    ASSUME LinksAssumption, NoneAssumption, Init
    PROVE  Inv
<1>1. \A s \in Slots : job[s] = Idle
  BY DEF Init
<1>2. TypeOK
  <2>1. [live : {TRUE}, verified : BOOLEAN] \subseteq User
    BY DEF User
  <2>2. users \in [Emails -> User \cup {None}]
    BY <2>1 DEF Init
  <2>3. job \in [Slots -> Job] /\ \A s \in Slots : job[s].at # "mark"
    BY <1>1, IdleOK DEF Init
  <2> QED BY <2>2, <2>3 DEF Init, TypeOK, LinksAssumption
<1>3. Pending = {}
  BY <1>1, IdleOK DEF Pending
<1>4. made + Cardinality(Pending) =< MaxLinks
  BY <1>3, FS_EmptySet DEF Init, LinksAssumption
<1>5. \A s \in Slots : JobOK(job[s]) /\ KnowsUser(job[s]) /\ KnowsLink(job[s]) /\ FreshOK(s)
  BY <1>1, IdleOK DEF KnowsUser, KnowsLink, FreshOK
<1>6. RowsHaveUsers /\ Agree
  BY <1>1, IdleOK DEF Init, RowsHaveUsers, Agree
<1> QED BY <1>2, <1>4, <1>5, <1>6 DEF Inv

\* The invariant: the types, what each request knows of the rows it is about, and
\* that a copy which is not stale is the row.
THEOREM LinksInvariant == Spec => []Inv
<1>1. Inv /\ UNCHANGED vars => Inv'
  BY DEF Inv, vars, TypeOK, Busy, JobOK, KnowsUser, KnowsLink, FreshOK, RowsHaveUsers, Agree, Pending,
         About, KindOf
<1>2. Init => Inv
  BY InitInv, LinksAssumption, NoneAssumption
<1>3. Inv /\ [Next]_vars => Inv'
  BY <1>1, NextKeeps, LinksAssumption, NoneAssumption
<1> QED BY <1>2, <1>3, PTL DEF Spec

-----------------------------------------------------------------------------
(* What is proved of it *)

\* The tables and the requests keep their types; a link is marked as used only
\* when the account it is for is there (resetPassword, verifyEmail, acceptInvite).
THEOREM LinkTypes == Spec => []TypeOK
<1>1. Inv => TypeOK
  BY DEF Inv
<1> QED BY <1>1, LinksInvariant, PTL

LEMMA OthersUndoNothing ==
    ASSUME LinksAssumption, NoneAssumption, Inv, NEW s \in Slots,
           \/ Client(s) \/ Break(s) \/ (Server(s) /\ ~UpdateUser(s) /\ ~Prolong(s))
    PROVE  ~Undone
<1> DEFINE j == job[s]
<1>0. j \in Job /\ JobOK(j) /\ KnowsUser(j) /\ made \in 0 .. MaxLinks
  BY DEF Inv, TypeOK
<1>1. UNCHANGED <<users, row>> => ~Undone
  BY DEF Undone
<1>2. CASE DropUnused(s) \/ DeleteInvite(s)
  <2>1. UNCHANGED users /\ \A l \in Link : row'[l] = None \/ row'[l] = row[l]
    BY <1>2 DEF DropUnused, DeleteInvite, Inv, TypeOK
  <2> QED BY <1>0, <2>1 DEF Undone, Link, LinksAssumption
<1>3. CASE InsertLink(s)
  <2>1. UNCHANGED users /\ \A l \in 1 .. made : row'[l] = row[l]
    BY <1>0, <1>3 DEF InsertLink, Inv, TypeOK, Link, LinksAssumption
  <2> QED BY <2>1 DEF Undone
<1>4. CASE Mark(s)
  <2>1. UNCHANGED users /\ \A l \in Link : row'[l] = row[l] \/ row'[l].is = "used"
    BY <1>4 DEF Mark, SaveLink, Inv, TypeOK
  <2> QED BY <1>0, <2>1 DEF Undone, Link, LinksAssumption
<1>5. CASE MarkEmailVerified(s) \/ SoftRemove(s)
  <2>1. UNCHANGED row /\ j.to \in Emails /\ users[j.to] # None
    BY <1>0, <1>5
       DEF MarkEmailVerified, SoftRemove, At, JobOK, StopsAt, HasUser, KnowsUser, Sure, Job
  <2>2. users[j.to] \in User
    BY <2>1 DEF Inv, TypeOK
  <2>3. \A e \in Emails : users[e] # None =>
          (users[e].verified => users'[e].verified) /\ (users'[e].live => users[e].live)
    BY <1>5, <2>1, <2>2 DEF MarkEmailVerified, SoftRemove, SaveUser, Inv, TypeOK, User
  <2> QED BY <2>1, <2>3 DEF Undone
<1>6. CASE CreateUser(s)
  <2>1. UNCHANGED row /\ \A e \in Emails : users[e] # None => users'[e] = users[e]
    BY <1>6 DEF CreateUser, SaveUser, Inv, TypeOK
  <2> QED BY <2>1 DEF Undone
<1>7. CASE Client(s) \/ Break(s)
  BY <1>1, <1>7
     DEF Client, Break, Leave, ForgotPage, ResendVerification, InviteModal, EditUser, RemoveUser, SsoLogin,
         ResetPage, VerifyPage, AcceptPage, ResendInvite, RevokeInvite, Open
<1>8. CASE \/ ForgotPassword(s) \/ FindForVerification(s) \/ CreateInvite(s) \/ SendMail(s)
           \/ ResetPassword(s) \/ VerifyEmail(s) \/ AcceptInvite(s)
           \/ LoadUser(s) \/ Resend(s) \/ Revoke(s) \/ ProvisionUser(s)
  BY <1>1, <1>8
     DEF ForgotPassword, FindForVerification, CreateInvite, SendMail, ResetPassword, VerifyEmail,
         AcceptInvite, Follow, LoadUser, Resend, Revoke, ProvisionUser
<1> QED BY <1>2, <1>3, <1>4, <1>5, <1>6, <1>7, <1>8 DEF Server

LEMMA SavesUndoNothing ==
    ASSUME LinksAssumption, NoneAssumption, Inv, NEW s \in Slots, s \notin stale,
           UpdateUser(s) \/ Prolong(s)
    PROVE  ~Undone
<1> DEFINE j == job[s]
<1>0. j \in Job /\ JobOK(j) /\ FreshOK(s) /\ made \in 0 .. MaxLinks
  BY DEF Inv, TypeOK
<1>1. CASE UpdateUser(s)
  <2>1. j.user = users[j.to] /\ UNCHANGED row /\ SaveUser(s, j.user)
    BY <1>0, <1>1 DEF UpdateUser, At, JobOK, HasUser, FreshOK
  <2>2. \A e \in Emails : users'[e] = users[e]
    BY <2>1 DEF SaveUser, Inv, TypeOK
  <2> QED BY <2>1, <2>2 DEF Undone
<1>2. CASE Prolong(s)
  <2>1. row[j.link] # None /\ row[j.link].is # "used" /\ UNCHANGED users
    BY <1>0, <1>2 DEF Prolong, At, HoldsLink, FreshOK
  <2>2. \A l \in Link : l # j.link => row'[l] = row[l]
    BY <1>2 DEF Prolong, SaveLink, Inv, TypeOK
  <2> QED BY <1>0, <2>1, <2>2 DEF Undone, Link, LinksAssumption
<1> QED BY <1>1, <1>2

\* What was done to an account or a link (verified, removed, used, revoked) is
\* undone only by a request whose copy of the row is from before, for any number
\* of overlapping requests.
THEOREM UndoingIsStale == Spec => UndoneOnlyByStale
<1>1. ASSUME Inv, Next, Undone
      PROVE  \E s \in stale : job'[s] # job[s]
  <2> USE LinksAssumption, NoneAssumption
  <2>1. ASSUME NEW l \in Link, Expire(l)
        PROVE  FALSE
    <3>1. row[l] \in LinkRow /\ row[l] # None /\ row[l].is = "good"
      BY <1>1, <2>1 DEF Expire, Good, Inv, TypeOK
    <3>2. UNCHANGED users /\ (\A k \in Link \ {l} : row'[k] = row[k]) /\ made \in 0 .. MaxLinks
      BY <1>1, <2>1 DEF Expire, Inv, TypeOK
    <3> QED BY <1>1, <3>1, <3>2 DEF Undone, Link
  <2>2. PICK s \in Slots : Server(s) \/ Client(s) \/ Break(s)
    BY <1>1, <2>1 DEF Next
  <2>3. UpdateUser(s) \/ Prolong(s)
    BY <1>1, <2>2, OthersUndoNothing
  <2>4. s \in stale
    BY <1>1, <2>3, SavesUndoNothing
  <2>5. job[s].at = "save" /\ job[s] \in Job
    BY <1>1, <2>3 DEF UpdateUser, Prolong, At, Inv, TypeOK
  <2>6. job'[s].at # "save"
    BY <1>1, <2>3, <2>5, IdleOK DEF UpdateUser, Prolong, Answer, Goto, Inv, TypeOK, Job
  <2> QED BY <2>4, <2>5, <2>6
<1>2. Inv /\ [Next]_vars => [Undone => \E s \in stale : job'[s] # job[s]]_vars
  BY <1>1
<1> QED BY <1>2, LinksInvariant, PTL DEF Spec, UndoneOnlyByStale

-----------------------------------------------------------------------------
(* What the links promise: how many work at a time, and that every step is  *)
(* one of GuardedLink's.                                                    *)

-----------------------------------------------------------------------------
(* How many links work *)

Unused(k, e) == {l \in Link : row[l] # None /\ row[l].kind = k /\ row[l].to = e /\ row[l].is # "used"}

\* Requests about to insert a link, and about to save an invitation again.
Inserters(k, e) == {s \in Slots : job[s].op = k /\ job[s].at = "insert" /\ job[s].to = e}

Renewers(k, e) ==
    {s \in Slots : k = "invite" /\ job[s].op = "resend" /\ job[s].at = "save" /\ job[s].to = e}

\* The links that are there or about to be there again.
Kept(k, e) == Unused(k, e) \cup {job[s].link : s \in Renewers(k, e)}

\* Whoever inserts a link has dropped the others: each request that began before
\* accounts for at most one of those that are kept or still to be inserted.
LiveInv ==
    \A k \in Issuing, e \in Emails :
        Cardinality(Kept(k, e)) + Cardinality(Inserters(k, e)) =< Cardinality(Slots)

Bounded(k, e) == Cardinality(Kept(k, e)) + Cardinality(Inserters(k, e)) =< Cardinality(Slots)

LEMMA KeptFinite ==
    ASSUME LinksAssumption, Inv, NEW k, NEW e
    PROVE  /\ Kept(k, e) \subseteq Link /\ IsFiniteSet(Kept(k, e)) /\ Cardinality(Kept(k, e)) \in Nat
           /\ IsFiniteSet(Inserters(k, e)) /\ Cardinality(Inserters(k, e)) \in Nat
           /\ Cardinality(Slots) \in Nat
<1>1. \A s \in Renewers(k, e) : job[s].link \in Link
  BY DEF Renewers, Inv, TypeOK, JobOK, HasLink, Job
<1>2. Kept(k, e) \subseteq Link
  BY <1>1 DEF Kept, Unused
<1>3. IsFiniteSet(Link)
  BY FS_Interval DEF Link, LinksAssumption
<1>4. Inserters(k, e) \subseteq Slots
  BY DEF Inserters
<1> QED BY <1>2, <1>3, <1>4, FS_Subset, FS_CardinalityType DEF LinksAssumption

\* Whatever adds to neither set keeps the bound.
LEMMA ShrinkOK ==
    ASSUME LinksAssumption, Inv, Inv', NEW k, NEW e, Bounded(k, e),
           Kept(k, e)' \subseteq Kept(k, e), Inserters(k, e)' \subseteq Inserters(k, e)
    PROVE  Bounded(k, e)'
<1>1. /\ Cardinality(Kept(k, e)') =< Cardinality(Kept(k, e))
      /\ Cardinality(Inserters(k, e)') =< Cardinality(Inserters(k, e))
      /\ Cardinality(Kept(k, e)') \in Nat /\ Cardinality(Inserters(k, e)') \in Nat
  BY KeptFinite, FS_Subset, FS_CardinalityType
<1> QED BY <1>1, KeptFinite DEF Bounded

\* A step that leaves the rows, and after which its request neither inserts nor
\* renews.
LEMMA SameRowsOK ==
    ASSUME LinksAssumption, Inv, Inv', NEW s \in Slots, NEW w, job' = [job EXCEPT ![s] = w],
           w.at # "insert", w.op = "resend" => w.at # "save",
           \A l \in Link : row'[l] # None /\ row'[l].is # "used" =>
              row[l] # None /\ row[l].is # "used" /\ row'[l].kind = row[l].kind /\ row'[l].to = row[l].to,
           NEW k, NEW e, Bounded(k, e)
    PROVE  Bounded(k, e)'
<1>1. Unused(k, e)' \subseteq Unused(k, e)
  BY DEF Unused
<1>2. Renewers(k, e)' \subseteq Renewers(k, e) /\ Inserters(k, e)' \subseteq Inserters(k, e)
      /\ \A t \in Renewers(k, e)' : job'[t].link = job[t].link
  BY DEF Renewers, Inserters, Inv, TypeOK
<1>3. Kept(k, e)' \subseteq Kept(k, e)
  BY <1>1, <1>2 DEF Kept
<1> QED BY <1>2, <1>3, ShrinkOK

\* After its delete nothing is kept but what is about to be renewed, by others
\* than those that insert.
LEMMA DropOK ==
    ASSUME LinksAssumption, Inv, Inv', NEW s \in Slots, DropUnused(s), NEW k, NEW e, Bounded(k, e)
    PROVE  Bounded(k, e)'
<1> DEFINE j == job[s]
           w == After(s, "insert")
<1>1. /\ j.op \in Issuing /\ j.at = "drop"
      /\ row' = [l \in Link |-> IF Superseded(s, l) THEN None ELSE row[l]]
      /\ job' = [job EXCEPT ![s] = w] /\ w.op = j.op /\ w.to = j.to /\ w.at = "insert"
  BY AfterIs DEF DropUnused, At
<1> HIDE DEF w
<1>2. job'[s] = w /\ \A t \in Slots \ {s} : job'[t] = job[t]
  BY <1>1 DEF Inv, TypeOK
<1>3. Renewers(k, e)' = Renewers(k, e) /\ s \notin Renewers(k, e)
      /\ \A t \in Renewers(k, e) : job'[t].link = job[t].link
  BY <1>1, <1>2 DEF Renewers, Issuing
<1>4. CASE k = j.op /\ e = j.to
  <2>1. Unused(k, e)' = {}
    BY <1>1, <1>4 DEF Unused, Superseded
  <2> DEFINE link == [t \in Renewers(k, e) |-> job[t].link]
  <2>2. Kept(k, e)' = {job[t].link : t \in Renewers(k, e)}
    BY <1>3, <2>1 DEF Kept
  <2>3. link \in Surjection(Renewers(k, e), Kept(k, e)')
    BY <2>2 DEF Surjection
  <2>4. Renewers(k, e) \in SUBSET Slots /\ IsFiniteSet(Renewers(k, e))
    BY FS_Subset DEF Renewers, LinksAssumption
  <2>5. Cardinality(Kept(k, e)') =< Cardinality(Renewers(k, e))
    BY <2>3, <2>4, FS_Surjection
  <2>6. Renewers(k, e) \cap Inserters(k, e)' = {}
    BY <1>3 DEF Renewers, Inserters, Issuing
  <2>7. Renewers(k, e) \cup Inserters(k, e)' \in SUBSET Slots /\ IsFiniteSet(Inserters(k, e)')
    <3>1. Inserters(k, e)' \in SUBSET Slots
      BY DEF Inserters
    <3> QED BY <2>4, <3>1, FS_Subset DEF LinksAssumption
  <2>8. Cardinality(Renewers(k, e)) + Cardinality(Inserters(k, e)')
           = Cardinality(Renewers(k, e) \cup Inserters(k, e)')
    <3>1. Cardinality(Renewers(k, e)) \in Nat /\ Cardinality(Inserters(k, e)') \in Nat
      BY <2>4, <2>7, FS_CardinalityType
    <3> QED BY <2>4, <2>6, <2>7, <3>1, FS_Union, FS_EmptySet
  <2>9. Cardinality(Renewers(k, e) \cup Inserters(k, e)') =< Cardinality(Slots)
    BY <2>7, FS_Subset DEF LinksAssumption
  <2>10. Cardinality(Kept(k, e)') \in Nat /\ Cardinality(Renewers(k, e)) \in Nat
         /\ Cardinality(Inserters(k, e)') \in Nat /\ Cardinality(Slots) \in Nat
    BY <2>3, <2>4, <2>7, FS_Surjection, FS_CardinalityType DEF LinksAssumption
  <2> QED BY <2>5, <2>8, <2>9, <2>10 DEF Bounded
<1>5. CASE ~(k = j.op /\ e = j.to)
  <2>1. Unused(k, e)' \subseteq Unused(k, e)
    BY <1>1 DEF Unused
  <2>2. Inserters(k, e)' \subseteq Inserters(k, e)
    BY <1>1, <1>2, <1>5 DEF Inserters
  <2> QED BY <1>3, <2>1, <2>2, ShrinkOK DEF Kept
<1> QED BY <1>4, <1>5

\* The link inserted takes the place of its inserter.
LEMMA InsertOK ==
    ASSUME LinksAssumption, NoneAssumption, Inv, Inv', NEW s \in Slots, InsertLink(s),
           NEW k, NEW e, Bounded(k, e)
    PROVE  Bounded(k, e)'
<1> DEFINE j == job[s]
           w == [j EXCEPT !.at = "mail", !.link = made']
           r == [kind |-> j.op, to |-> j.to, is |-> "good"]
<1>0. w.at = "mail" /\ w.op = j.op
  <2>1. j \in Job
    BY DEF Inv, TypeOK
  <2> QED BY <2>1 DEF Job
<1>1. /\ j.op \in Issuing /\ j.at = "insert" /\ row' = [row EXCEPT ![made'] = r]
      /\ job' = [job EXCEPT ![s] = w] /\ w.at = "mail" /\ w.op = j.op
  BY <1>0 DEF InsertLink, At
<1>2. r.kind = j.op /\ r.to = j.to
  OBVIOUS
<1> HIDE DEF w, r
<1>3. job'[s] = w /\ \A t \in Slots \ {s} : job'[t] = job[t]
  BY <1>1 DEF Inv, TypeOK
<1>4. \A l \in Link : l # made' => row'[l] = row[l]
  BY <1>1 DEF Inv, TypeOK
<1>5. Renewers(k, e)' = Renewers(k, e) /\ \A t \in Renewers(k, e) : job'[t].link = job[t].link
  BY <1>1, <1>3 DEF Renewers, Issuing
<1>6. CASE k = j.op /\ e = j.to
  <2>1. Unused(k, e)' \subseteq Unused(k, e) \cup {made'}
    BY <1>4 DEF Unused
  <2>2. Kept(k, e)' \subseteq Kept(k, e) \cup {made'}
    BY <1>5, <2>1 DEF Kept
  <2>3. Inserters(k, e)' = Inserters(k, e) \ {s} /\ s \in Inserters(k, e)
    BY <1>1, <1>3, <1>6 DEF Inserters
  <2>4. /\ IsFiniteSet(Kept(k, e) \cup {made'})
        /\ Cardinality(Kept(k, e) \cup {made'}) =< Cardinality(Kept(k, e)) + 1
    BY KeptFinite, OneMore
  <2>5. /\ Cardinality(Kept(k, e)') =< Cardinality(Kept(k, e) \cup {made'})
        /\ Cardinality(Kept(k, e)') \in Nat /\ Cardinality(Kept(k, e) \cup {made'}) \in Nat
    BY <2>2, <2>4, FS_Subset, FS_CardinalityType
  <2>6. Cardinality(Inserters(k, e)') = Cardinality(Inserters(k, e)) - 1
    BY <2>3, KeptFinite, FS_RemoveElement
  <2> QED BY <2>4, <2>5, <2>6, KeptFinite DEF Bounded
<1>7. CASE ~(k = j.op /\ e = j.to)
  <2>1. Unused(k, e)' \subseteq Unused(k, e)
    <3>1. made' \in Link => row'[made'] = r
      BY <1>1 DEF Inv, TypeOK
    <3> QED BY <1>2, <1>4, <1>7, <3>1 DEF Unused
  <2>2. Inserters(k, e)' \subseteq Inserters(k, e)
    BY <1>1, <1>3 DEF Inserters
  <2> QED BY <1>5, <2>1, <2>2, ShrinkOK DEF Kept
<1> QED BY <1>6, <1>7

\* The link about to be renewed is one of those that are there.
LEMMA ResendOK ==
    ASSUME LinksAssumption, Inv, Inv', NEW s \in Slots, Resend(s), Goto(s, "save"),
           row[job[s].link] # None, row[job[s].link].is # "used",
           NEW k, NEW e, Bounded(k, e)
    PROVE  Bounded(k, e)'
<1> DEFINE j == job[s]
           w == After(s, "save")
<1>1. /\ j.op = "resend" /\ j.at = "find" /\ UNCHANGED row /\ job' = [job EXCEPT ![s] = w]
      /\ w.op = j.op /\ w.to = j.to /\ w.link = j.link /\ w.at = "save"
  BY AfterIs DEF Resend, At
<1> HIDE DEF w
<1>2. job'[s] = w /\ \A t \in Slots \ {s} : job'[t] = job[t]
  BY <1>1 DEF Inv, TypeOK
<1>3. j.link \in Link /\ j.link # None /\ KnowsLink(j)
  BY <1>1 DEF Inv, TypeOK, JobOK, HasLink, Job
<1>4. j.link \in Unused("invite", j.to)
  BY <1>1, <1>3 DEF Unused, KnowsLink, About, KindOf, Issuing
<1>5. Inserters(k, e)' \subseteq Inserters(k, e) /\ Unused(k, e)' = Unused(k, e)
  BY <1>1, <1>2 DEF Inserters, Unused
<1>6. \A t \in Renewers(k, e)' : t = s \/ (t \in Renewers(k, e) /\ job'[t].link = job[t].link)
  BY <1>2 DEF Renewers
<1>7. s \in Renewers(k, e)' => k = "invite" /\ e = j.to /\ job'[s].link = j.link
  BY <1>1, <1>2 DEF Renewers
<1>8. Kept(k, e)' \subseteq Kept(k, e)
  BY <1>4, <1>5, <1>6, <1>7 DEF Kept
<1> QED BY <1>5, <1>8, ShrinkOK

LEMMA ProlongOK ==
    ASSUME LinksAssumption, Inv, Inv', NEW s \in Slots, Prolong(s), NEW k, NEW e, Bounded(k, e)
    PROVE  Bounded(k, e)'
<1> DEFINE j == job[s]
           w == After(s, "mail")
           r == [kind |-> "invite", to |-> j.to, is |-> "good"]
<1>1. /\ j.op = "resend" /\ j.at = "save" /\ row' = [row EXCEPT ![j.link] = r]
      /\ job' = [job EXCEPT ![s] = w] /\ w.op = j.op /\ w.at = "mail"
  BY AfterIs DEF Prolong, At, SaveLink
<1>2. r.kind = "invite" /\ r.to = j.to
  OBVIOUS
<1> HIDE DEF w, r
<1>3. job'[s] = w /\ \A t \in Slots \ {s} : job'[t] = job[t]
  BY <1>1 DEF Inv, TypeOK
<1>4. Inserters(k, e)' \subseteq Inserters(k, e)
      /\ \A t \in Renewers(k, e)' : t \in Renewers(k, e) /\ job'[t].link = job[t].link
  BY <1>1, <1>3 DEF Inserters, Renewers
<1>5. \A l \in Unused(k, e)' : l \in Unused(k, e) \/ (l = j.link /\ k = "invite" /\ e = j.to)
  BY <1>1, <1>2 DEF Unused, Inv, TypeOK
<1>6. k = "invite" /\ e = j.to => s \in Renewers(k, e)
  BY <1>1 DEF Renewers
<1>7. Kept(k, e)' \subseteq Kept(k, e)
  BY <1>4, <1>5, <1>6 DEF Kept
<1> QED BY <1>4, <1>7, ShrinkOK

\* No link becomes good, and none changes its address.
RowsGo ==
    \A l \in Link : row'[l] # None /\ row'[l].is # "used" =>
       row[l] # None /\ row[l].is # "used" /\ row'[l].kind = row[l].kind /\ row'[l].to = row[l].to

LEMMA AnswerBound ==
    ASSUME LinksAssumption, Inv, Inv', NEW s \in Slots, Answer(s), RowsGo, NEW k, NEW e, Bounded(k, e)
    PROVE  Bounded(k, e)'
BY IdleOK, SameRowsOK DEF Answer, RowsGo

LEMMA GotoBound ==
    ASSUME LinksAssumption, Inv, Inv', NEW s \in Slots, NEW at, Goto(s, at), RowsGo,
           at # "insert", job[s].op = "resend" => at # "save", NEW k, NEW e, Bounded(k, e)
    PROVE  Bounded(k, e)'
<1>1. job' = [job EXCEPT ![s] = After(s, at)] /\ After(s, at).op = job[s].op /\ After(s, at).at = at
  BY AfterIs
<1> QED BY <1>1, SameRowsOK DEF RowsGo

LEMMA ClientBound ==
    ASSUME LinksAssumption, Inv, Inv', NEW s \in Slots, Client(s) \/ Break(s), NEW k, NEW e, Bounded(k, e)
    PROVE  Bounded(k, e)'
<1>1. ASSUME NEW op, NEW f, NEW l, NEW at \in {"find", "load"}, Open(s, op, f, l, at)
      PROVE  Bounded(k, e)'
  <2> DEFINE w == [Idle EXCEPT !.op = op, !.to = f, !.link = l, !.at = at]
  <2>1. w.at = at /\ job' = [job EXCEPT ![s] = w]
    BY <1>1 DEF Idle, Open
  <2> HIDE DEF w
  <2>2. UNCHANGED row
    BY <1>1 DEF Open
  <2> QED BY <2>1, <2>2, SameRowsOK
<1>2. Leave(s) \/ Break(s) => Bounded(k, e)'
  BY AnswerBound DEF Leave, Break, RowsGo
<1> QED
  BY <1>1, <1>2
     DEF Client, ForgotPage, ResendVerification, InviteModal, EditUser, RemoveUser, SsoLogin,
         ResetPage, VerifyPage, AcceptPage, ResendInvite, RevokeInvite

LEMMA ServerBound ==
    ASSUME LinksAssumption, NoneAssumption, Inv, Inv', NEW s \in Slots, Server(s),
           NEW k, NEW e, Bounded(k, e)
    PROVE  Bounded(k, e)'
<1> DEFINE j == job[s]
<1>0. j \in Job /\ JobOK(j) /\ (UNCHANGED row => RowsGo)
  BY DEF Inv, TypeOK, RowsGo
<1>1. CASE DropUnused(s) \/ InsertLink(s) \/ Prolong(s)
  BY <1>1, DropOK, InsertOK, ProlongOK
<1>2. CASE Resend(s)
  BY <1>0, <1>2, ResendOK, AnswerBound DEF Resend
<1>3. CASE ForgotPassword(s) \/ FindForVerification(s) \/ CreateInvite(s) \/ SendMail(s)
  BY <1>0, <1>3, AnswerBound, GotoBound DEF ForgotPassword, FindForVerification, CreateInvite, SendMail
<1>4. CASE ResetPassword(s) \/ VerifyEmail(s) \/ AcceptInvite(s)
  BY <1>0, <1>4, AnswerBound, GotoBound DEF ResetPassword, VerifyEmail, AcceptInvite, Follow, At
<1>5. CASE Revoke(s) \/ ProvisionUser(s)
  BY <1>0, <1>5, AnswerBound, GotoBound DEF Revoke, ProvisionUser, At
<1>6. CASE MarkEmailVerified(s) \/ SoftRemove(s) \/ CreateUser(s)
  BY <1>0, <1>6, AnswerBound, GotoBound DEF MarkEmailVerified, SoftRemove, CreateUser
<1>7. CASE LoadUser(s)
  <2> DEFINE w == [j EXCEPT !.at = "save", !.user = users[j.to]]
  <2>1. w.op = j.op /\ j.op # "resend" /\ w.at = "save" /\ UNCHANGED row
    BY <1>0, <1>7 DEF LoadUser, Job, JobOK, StopsAt, Issuing
  <2>2. Answer(s) \/ job' = [job EXCEPT ![s] = w]
    BY <1>7 DEF LoadUser
  <2> HIDE DEF w
  <2> QED BY <1>0, <2>1, <2>2, AnswerBound, SameRowsOK DEF RowsGo
<1>8. CASE UpdateUser(s)
  <2> DEFINE w == [j EXCEPT !.at = "mark", !.user = None]
  <2>1. w.at = "mark" /\ UNCHANGED row
    BY <1>0, <1>8 DEF UpdateUser, Job
  <2>2. Answer(s) \/ job' = [job EXCEPT ![s] = w]
    BY <1>8 DEF UpdateUser
  <2> HIDE DEF w
  <2> QED BY <1>0, <2>1, <2>2, AnswerBound, SameRowsOK DEF RowsGo
<1>9. CASE Mark(s)
  <2>1. RowsGo
    BY <1>9 DEF Mark, SaveLink, RowsGo, Inv, TypeOK
  <2>2. Goto(s, "ok")
    BY <1>9 DEF Mark, Worked, Goto
  <2> QED BY <2>1, <2>2, GotoBound
<1>10. CASE DeleteInvite(s)
  <2>1. RowsGo
    BY <1>10 DEF DeleteInvite, RowsGo, Inv, TypeOK
  <2> QED BY <1>10, <2>1, AnswerBound DEF DeleteInvite
<1> QED BY <1>1, <1>2, <1>3, <1>4, <1>5, <1>6, <1>7, <1>8, <1>9, <1>10 DEF Server

LEMMA ExpireBound ==
    ASSUME LinksAssumption, NoneAssumption, Inv, Inv', NEW l \in Link, Expire(l), NEW k, NEW e, Bounded(k, e)
    PROVE  Bounded(k, e)'
<1>1. row[l] \in LinkRow /\ row[l] # None /\ row[l].is = "good" /\ UNCHANGED job
  BY DEF Expire, Good, Inv, TypeOK
<1>2. row[l].is # "used"
  BY <1>1
<1>3. RowsGo
  <2>1. row'[l].kind = row[l].kind /\ row'[l].to = row[l].to
    BY <1>1, LinkRows DEF Expire, Inv, TypeOK
  <2>2. \A m \in Link \ {l} : row'[m] = row[m]
    BY DEF Expire, Inv, TypeOK
  <2> QED BY <1>1, <1>2, <2>1, <2>2 DEF RowsGo
<1>4. Kept(k, e)' \subseteq Kept(k, e) /\ Inserters(k, e)' \subseteq Inserters(k, e)
  BY <1>1, <1>3 DEF Kept, Unused, Renewers, Inserters, RowsGo
<1> QED BY <1>4, ShrinkOK

LEMMA NextBound ==
    ASSUME LinksAssumption, NoneAssumption, Inv, Inv', Next, NEW k, NEW e, Bounded(k, e)
    PROVE  Bounded(k, e)'
BY ServerBound, ClientBound, ExpireBound DEF Next

\* What requests for one address leave behind: at every moment the unused links,
\* those about to be renewed and those about to be inserted are no more than the
\* requests there can be at a time.
THEOREM KeptAreFew == Spec => [](Inv /\ LiveInv)
<1>1. Init => Inv /\ LiveInv
  <2> SUFFICES ASSUME Init PROVE Inv /\ LiveInv
    OBVIOUS
  <2>1. Inv
    BY InitInv, LinksAssumption, NoneAssumption
  <2>2. ASSUME NEW k \in Issuing, NEW e \in Emails
        PROVE  Kept(k, e) = {} /\ Inserters(k, e) = {}
    BY IdleOK DEF Init, Kept, Unused, Renewers, Inserters
  <2>3. Cardinality({}) = 0 /\ Cardinality(Slots) \in Nat
    BY FS_EmptySet, FS_CardinalityType, LinksAssumption DEF LinksAssumption
  <2>4. ASSUME NEW k \in Issuing, NEW e \in Emails
        PROVE  Cardinality(Kept(k, e)) = 0 /\ Cardinality(Inserters(k, e)) = 0
    BY <2>2, <2>3
  <2>5. \A n \in Nat : 0 + 0 =< n
    OBVIOUS
  <2> QED BY <2>1, <2>3, <2>4, <2>5 DEF LiveInv
<1>2. Inv /\ LiveInv /\ [Next]_vars => Inv' /\ LiveInv'
  <2>1. ASSUME Inv, LiveInv, Next
        PROVE  Inv' /\ LiveInv'
    <3>1. Inv'
      BY <2>1, NextKeeps, LinksAssumption, NoneAssumption
    <3>2. ASSUME NEW k \in Issuing, NEW e \in Emails
          PROVE  Bounded(k, e)'
      <4>1. Bounded(k, e)
        BY <2>1 DEF LiveInv, Bounded
      <4> QED BY <2>1, <3>1, <4>1, NextBound, LinksAssumption, NoneAssumption
    <3> QED BY <3>1, <3>2 DEF LiveInv, Bounded
  <2>2. ASSUME Inv, LiveInv, UNCHANGED vars
        PROVE  Inv' /\ LiveInv'
    <3>1. Inv'
      BY <2>2 DEF Inv, vars, TypeOK, Busy, JobOK, KnowsUser, KnowsLink, FreshOK, RowsHaveUsers, Agree,
             Pending, About, KindOf
    <3>2. ASSUME NEW k, NEW e
          PROVE  Kept(k, e)' = Kept(k, e) /\ Inserters(k, e)' = Inserters(k, e)
      BY <2>2 DEF vars, Kept, Unused, Renewers, Inserters
    <3> QED BY <2>2, <3>1, <3>2 DEF LiveInv
  <2> QED BY <2>1, <2>2
<1> QED BY <1>1, <1>2, PTL DEF Spec

\* However forgotPassword, sendVerificationEmail, createInvite and resendInvite
\* overlap, an address has no more links of a kind that work than there are
\* requests at a time.
THEOREM LinksAreFew == Spec => []LiveLinks
<1>1. ASSUME Inv, LiveInv
      PROVE  LiveLinks
  <2> SUFFICES ASSUME NEW k \in Issuing, NEW e \in Emails
               PROVE  Cardinality({l \in Link : Good(l) /\ row[l].kind = k /\ row[l].to = e})
                        =< Cardinality(Slots)
    BY DEF LiveLinks
  <2> DEFINE G == {l \in Link : Good(l) /\ row[l].kind = k /\ row[l].to = e}
  <2>1. G \subseteq Kept(k, e)
    BY DEF Good, Kept, Unused
  <2>2. Cardinality(G) =< Cardinality(Kept(k, e)) /\ Cardinality(G) \in Nat
    BY <1>1, <2>1, KeptFinite, FS_Subset, FS_CardinalityType, LinksAssumption
  <2>3. Cardinality(Kept(k, e)) + Cardinality(Inserters(k, e)) =< Cardinality(Slots)
    BY <1>1 DEF LiveInv
  <2> QED BY <1>1, <2>2, <2>3, KeptFinite, LinksAssumption
<1> QED BY <1>1, KeptAreFew, PTL

-----------------------------------------------------------------------------
(* Every step is one of GuardedLink's *)

GoodLinks == {l \in Link : Good(l)}
Won == {s \in Slots : At(s, Following, "ok")}

Holds(j, ops) == j.op \in ops /\ HoldsLink(j)

LEMMA HeldSame ==
    ASSUME Inv, NEW s \in Slots, NEW w, job' = [job EXCEPT ![s] = w], NEW ops,
           Holds(w, ops) <=> Holds(job[s], ops), Holds(w, ops) => w.link = job[s].link
    PROVE  Held(ops)' = Held(ops)
<1>1. job'[s] = w /\ \A t \in Slots \ {s} : job'[t] = job[t]
  BY DEF Inv, TypeOK
<1> QED BY <1>1 DEF Held, Holds, HoldsLink

Gain(held, l, s) == [held EXCEPT ![l] = @ \cup {s}]

LEMMA HeldGained ==
    ASSUME Inv, NEW s \in Slots, NEW w, job' = [job EXCEPT ![s] = w], NEW ops,
           Holds(w, ops), ~Holds(job[s], ops), NEW l \in Link, w.link = l
    PROVE  Held(ops)' = Gain(Held(ops), l, s)
<1>1. job'[s] = w /\ \A t \in Slots \ {s} : job'[t] = job[t]
  BY DEF Inv, TypeOK
<1>2. \A m \in Link : Held(ops)'[m] = IF m = l THEN Held(ops)[m] \cup {s} ELSE Held(ops)[m]
  BY <1>1 DEF Held, Holds, HoldsLink
<1> QED BY <1>2, ZenonT(60) DEF Held, Gain

LEMMA HeldLost ==
    ASSUME Inv, NEW s \in Slots, NEW w, job' = [job EXCEPT ![s] = w], NEW ops, ~Holds(w, ops)
    PROVE  Held(ops)' = Promise!Without(Held(ops), s)
<1>1. job'[s] = w /\ \A t \in Slots \ {s} : job'[t] = job[t]
  BY DEF Inv, TypeOK
<1>2. \A m \in Link : Held(ops)'[m] = Held(ops)[m] \ {s}
  BY <1>1 DEF Held, Holds, HoldsLink
<1> QED BY <1>2 DEF Held, Promise!Without

LEMMA HeldOf ==
    ASSUME Inv, NEW s \in Slots, NEW ops
    PROVE  /\ Holds(job[s], ops) => Promise!Of(Held(ops), s) = {job[s].link}
           /\ ~Holds(job[s], ops) => Promise!Of(Held(ops), s) = {}
<1>1. JobOK(job[s]) /\ job[s].link \in Link \cup {None}
  BY DEF Inv, TypeOK, Job
<1>2. Holds(job[s], ops) => job[s].link \in Link
  BY <1>1 DEF Holds, HoldsLink, JobOK, HasLink
<1> QED BY <1>2 DEF Promise!Of, Held, Holds, HoldsLink

\* Who is told "it worked".
LEMMA WonIs ==
    ASSUME Inv, NEW s \in Slots, NEW w, job' = [job EXCEPT ![s] = w]
    PROVE  /\ w.op \in Following /\ w.at = "ok" => Won' = Won \cup {s}
           /\ ~(w.op \in Following /\ w.at = "ok") => Won' = Won \ {s}
<1>1. job'[s] = w /\ \A t \in Slots \ {s} : job'[t] = job[t]
  BY DEF Inv, TypeOK
<1> QED BY <1>1 DEF Won, At

\* A step after which its request holds what it held.
LEMMA QuietStep ==
    ASSUME Inv, NEW s \in Slots, NEW w, job' = [job EXCEPT ![s] = w],
           \A ops \in {Following, {"resend"}} : Holds(w, ops) <=> Holds(job[s], ops),
           HoldsLink(w) => w.link = job[s].link,
           job[s].at # "ok", w.at # "ok", made' = made, GoodLinks' \subseteq GoodLinks
    PROVE  Promise!Next
<1>1. Held(Following)' = Held(Following) /\ Held({"resend"})' = Held({"resend"})
  BY HeldSame DEF Holds
<1>2. Won' = Won
  <2>1. s \notin Won
    BY DEF Won, At
  <2> QED BY <2>1, WonIs
<1>3. Promise!Withdraw
  BY <1>1, <1>2 DEF Promise!Withdraw, GoodLinks, Won
<1> QED BY <1>3 DEF Promise!Next

\* A request that ends, with the rows as they are.
LEMMA AnswerStep ==
    ASSUME LinksAssumption, Inv, NEW s \in Slots, Answer(s), UNCHANGED <<row, made>>
    PROVE  Promise!Next
<1> DEFINE j == job[s]
<1>1. job' = [job EXCEPT ![s] = Idle] /\ GoodLinks' = GoodLinks /\ (\A ops : ~Holds(Idle, ops))
      /\ Idle.at # "ok"
  BY IdleOK DEF Answer, GoodLinks, Good, Holds
<1>2. CASE Holds(j, Following) \/ Holds(j, {"resend"})
  <2>1. s \notin Won
    BY <1>2 DEF Won, At, Holds, HoldsLink, Following
  <2>2. Won' = Won
    BY <1>1, <2>1, WonIs
  <2>3. /\ Held(Following)' = Promise!Without(Held(Following), s)
        /\ Held({"resend"})' = Promise!Without(Held({"resend"}), s)
    BY <1>1, HeldLost
  <2>4. Promise!Of(Held(Following), s) \cup Promise!Of(Held({"resend"}), s) # {}
    BY <1>2, HeldOf
  <2>5. Promise!Fail(s)
    BY <1>1, <2>2, <2>3, <2>4 DEF Promise!Fail, GoodLinks, Won
  <2> QED BY <2>5 DEF Promise!Next, Promise!Settle
<1>3. CASE ~Holds(j, Following) /\ ~Holds(j, {"resend"})
  <2>1. Held(Following)' = Held(Following) /\ Held({"resend"})' = Held({"resend"})
    BY <1>1, <1>3, HeldSame
  <2>2. Won' = Won \ {s}
    BY <1>1, WonIs
  <2>3. Promise!Leave(s)
    BY <1>1, <2>1, <2>2 DEF Promise!Leave, GoodLinks, Won
  <2> QED BY <2>3 DEF Promise!Next
<1> QED BY <1>2, <1>3

\* A request that goes on as it was, for instance from one query to the next.
LEMMA GotoStep ==
    ASSUME Inv, NEW s \in Slots, NEW at, Goto(s, at), at # "ok", job[s].at # "ok",
           HoldsLink(After(s, at)) <=> HoldsLink(job[s]), made' = made, GoodLinks' \subseteq GoodLinks
    PROVE  Promise!Next
<1>1. /\ job' = [job EXCEPT ![s] = After(s, at)] /\ After(s, at).op = job[s].op
      /\ After(s, at).link = job[s].link /\ After(s, at).at = at
  BY AfterIs
<1> QED BY <1>1, QuietStep DEF Holds

\* Found good: let in.
LEMMA FollowStep ==
    ASSUME LinksAssumption, Inv, NEW s \in Slots, NEW op \in Following,
           NEW next \in {"load", "save", "create"}, Follow(s, op, next)
    PROVE  Promise!Next
<1> DEFINE j == job[s]
<1>1. UNCHANGED <<row, made, users>> /\ j.op = op /\ j.at = "find"
      /\ (Answer(s) \/ (Good(j.link) /\ Goto(s, next)))
  BY DEF Follow, At
<1>2. ASSUME Good(j.link), Goto(s, next)
      PROVE  Promise!Next
  <2> DEFINE w == After(s, next)
  <2>1. job' = [job EXCEPT ![s] = w] /\ w.op = op /\ w.at = next /\ w.link = j.link
    BY <1>1, <1>2, AfterIs
  <2> HIDE DEF w
  <2>2. j.link \in Link
    BY <1>1 DEF Inv, TypeOK, Job, JobOK, HasLink
  <2>3. Holds(w, Following) /\ ~Holds(j, Following) /\ ~Holds(w, {"resend"}) /\ ~Holds(j, {"resend"})
    BY <1>1, <2>1 DEF Holds, HoldsLink, Following
  <2>4. Held(Following)' = Gain(Held(Following), j.link, s)
        /\ Held({"resend"})' = Held({"resend"})
    <3>1. Held(Following)' = Gain(Held(Following), j.link, s)
      BY <2>1, <2>2, <2>3, HeldGained
    <3>2. Held({"resend"})' = Held({"resend"})
      BY <2>1, <2>3, HeldSame
    <3> QED BY <3>1, <3>2
  <2>5. Won' = Won
    <3>1. s \notin Won
      BY <1>1 DEF Won, At
    <3> QED BY <2>1, <3>1, WonIs, ZenonT(60)
  <2>6. Promise!Admit(j.link, s)
    BY <1>1, <1>2, <2>2, <2>4, <2>5 DEF Promise!Admit, Gain, Good, Won
  <2> QED BY <2>2, <2>6 DEF Promise!Next
<1> QED BY <1>1, <1>2, AnswerStep

LEMMA ResendStep ==
    ASSUME LinksAssumption, Inv, NEW s \in Slots, Resend(s)
    PROVE  Promise!Next
<1> DEFINE j == job[s]
<1>1. UNCHANGED <<row, made, users>> /\ j.op = "resend" /\ j.at = "find" /\ (Answer(s) \/ Goto(s, "save"))
  BY DEF Resend, At
<1>2. ASSUME Goto(s, "save")
      PROVE  Promise!Next
  <2> DEFINE w == After(s, "save")
  <2>1. job' = [job EXCEPT ![s] = w] /\ w.op = "resend" /\ w.at = "save" /\ w.link = j.link
    BY <1>1, <1>2, AfterIs
  <2> HIDE DEF w
  <2>2. j.link \in Link /\ j.link # None /\ j.link =< made
    BY <1>1 DEF Inv, TypeOK, Job, JobOK, HasLink, KnowsLink
  <2>3. Holds(w, {"resend"}) /\ ~Holds(j, {"resend"}) /\ ~Holds(w, Following) /\ ~Holds(j, Following)
    BY <1>1, <2>1 DEF Holds, HoldsLink, Following
  <2>4. Held({"resend"})' = Gain(Held({"resend"}), j.link, s)
        /\ Held(Following)' = Held(Following)
    <3>1. Held({"resend"})' = Gain(Held({"resend"}), j.link, s)
      BY <2>1, <2>2, <2>3, HeldGained
    <3>2. Held(Following)' = Held(Following)
      BY <2>1, <2>3, HeldSame
    <3> QED BY <3>1, <3>2
  <2>5. Won' = Won
    <3>1. s \notin Won
      BY <1>1 DEF Won, At
    <3> QED BY <2>1, <3>1, WonIs, ZenonT(60)
  <2>6. j.link \in 1 .. made
    BY <2>2 DEF Link, Inv, TypeOK, LinksAssumption
  <2>7. Promise!StartRenewal(j.link, s)
    BY <1>1, <2>4, <2>5, <2>6 DEF Promise!StartRenewal, Gain, Good, Won
  <2> QED BY <2>2, <2>7 DEF Promise!Next
<1> QED BY <1>1, <1>2, AnswerStep

\* The link is saved as it was read, and works again.
LEMMA ProlongStep ==
    ASSUME LinksAssumption, NoneAssumption, Inv, NEW s \in Slots, Prolong(s)
    PROVE  Promise!Next
<1> DEFINE j == job[s]
           w == After(s, "mail")
           r == [kind |-> "invite", to |-> j.to, is |-> "good"]
<1>1. /\ j.op = "resend" /\ j.at = "save" /\ row' = [row EXCEPT ![j.link] = r] /\ made' = made
      /\ job' = [job EXCEPT ![s] = w] /\ w.op = "resend" /\ w.at = "mail"
  BY AfterIs DEF Prolong, At, SaveLink
<1>2. j.link \in Link /\ j.to \in Emails
  BY <1>1 DEF Inv, TypeOK, Job, JobOK, HasLink
<1>3. r.is = "good" /\ r # None
  BY <1>2, LinkRows DEF NoneAssumption, Issuing
<1> HIDE DEF w, r
<1>4. GoodLinks' = GoodLinks \cup {j.link}
  BY <1>1, <1>2, <1>3 DEF GoodLinks, Good, Inv, TypeOK
<1>5. Holds(j, {"resend"}) /\ ~Holds(w, {"resend"}) /\ ~Holds(j, Following) /\ ~Holds(w, Following)
  BY <1>1 DEF Holds, HoldsLink, Following
<1>6. Held({"resend"})' = Promise!Without(Held({"resend"}), s) /\ Held(Following)' = Held(Following)
  BY <1>1, <1>5, HeldLost, HeldSame
<1>7. Promise!Of(Held({"resend"}), s) = {j.link}
  BY <1>5, HeldOf
<1>8. Won' = Won
  <2>1. s \notin Won
    BY <1>1 DEF Won, At
  <2> QED BY <1>1, <2>1, WonIs
<1>9. Promise!Renew(s)
  BY <1>1, <1>4, <1>6, <1>7, <1>8 DEF Promise!Renew, GoodLinks, Won
<1> QED BY <1>9 DEF Promise!Next, Promise!Settle

\* It worked: the link does not any more.
LEMMA MarkStep ==
    ASSUME LinksAssumption, Inv, NEW s \in Slots, Mark(s)
    PROVE  Promise!Next
<1> DEFINE j == job[s]
           w == After(s, "ok")
           r == [kind |-> KindOf(j.op), to |-> j.to, is |-> "used"]
<1>1. /\ j.op \in Following /\ j.at = "mark" /\ row' = [row EXCEPT ![j.link] = r] /\ made' = made
      /\ job' = [job EXCEPT ![s] = w] /\ w.op = j.op /\ w.at = "ok"
  BY AfterIs DEF Mark, Worked, Goto, At, SaveLink
<1>2. r.is = "used"
  OBVIOUS
<1> HIDE DEF w, r
<1>3. GoodLinks' = GoodLinks \ {j.link}
  BY <1>1, <1>2 DEF GoodLinks, Good, Inv, TypeOK
<1>4. Holds(j, Following) /\ ~Holds(w, Following) /\ ~Holds(j, {"resend"}) /\ ~Holds(w, {"resend"})
  BY <1>1 DEF Holds, HoldsLink, Following
<1>5. Held(Following)' = Promise!Without(Held(Following), s) /\ Held({"resend"})' = Held({"resend"})
  BY <1>1, <1>4, HeldLost, HeldSame
<1>6. Promise!Of(Held(Following), s) = {j.link}
  BY <1>4, HeldOf
<1>7. Won' = Won \cup {s}
  BY <1>1, WonIs
<1>8. Promise!Succeed(s)
  BY <1>1, <1>3, <1>5, <1>6, <1>7 DEF Promise!Succeed, GoodLinks, Won
<1> QED BY <1>8 DEF Promise!Next, Promise!Settle

LEMMA InsertStep ==
    ASSUME LinksAssumption, NoneAssumption, Inv, TypeOK', NEW s \in Slots, InsertLink(s)
    PROVE  Promise!Next
<1> DEFINE j == job[s]
           w == [j EXCEPT !.at = "mail", !.link = made']
           r == [kind |-> j.op, to |-> j.to, is |-> "good"]
<1>1. /\ j.op \in Issuing /\ j.at = "insert" /\ row' = [row EXCEPT ![made'] = r] /\ made' = made + 1
      /\ job' = [job EXCEPT ![s] = w]
  BY DEF InsertLink, At
<1>2. j \in Job /\ j.to \in Emails
  BY <1>1 DEF Inv, TypeOK, Job, JobOK, Issuing
<1>3. w.op = j.op /\ w.at = "mail" /\ r.is = "good" /\ r # None
  <2>1. w.op = j.op /\ w.at = "mail"
    BY <1>2 DEF Job
  <2>2. r \in LinkRow /\ r.is = "good"
    BY <1>1, <1>2, LinkRows
  <2> QED BY <2>1, <2>2 DEF NoneAssumption
<1> HIDE DEF w, r
<1>4. made' \in Link /\ made \in Nat /\ made' \notin 1 .. made /\ 1 .. made' = 1 .. made \cup {made'}
  BY <1>1 DEF Inv, TypeOK, Link, LinksAssumption
<1>5. GoodLinks' = GoodLinks \cup {made'}
  BY <1>1, <1>3, <1>4 DEF GoodLinks, Good, Inv, TypeOK
<1>6. ~HoldsLink(j) /\ ~HoldsLink(w)
  BY <1>1, <1>3 DEF HoldsLink
<1>7. Held(Following)' = Held(Following) /\ Held({"resend"})' = Held({"resend"})
  BY <1>1, <1>6, HeldSame DEF Holds
<1>8. Won' = Won
  <2>1. s \notin Won
    BY <1>1 DEF Won, At
  <2> QED BY <1>1, <1>3, <2>1, WonIs
<1>9. Promise!Grant(made')
  BY <1>4, <1>5, <1>7, <1>8 DEF Promise!Grant, GoodLinks, Won
<1> QED BY <1>4, <1>9 DEF Promise!Next

\* The account is loaded, saved, created: the link is held on to.
LEMMA UserSteps ==
    ASSUME LinksAssumption, NoneAssumption, Inv, NEW s \in Slots,
           LoadUser(s) \/ UpdateUser(s) \/ MarkEmailVerified(s) \/ CreateUser(s) \/ SoftRemove(s)
    PROVE  Promise!Next
<1> DEFINE j == job[s]
<1>0. j \in Job /\ JobOK(j) /\ UNCHANGED <<row, made>> /\ GoodLinks' = GoodLinks
  BY DEF Inv, TypeOK, LoadUser, UpdateUser, MarkEmailVerified, CreateUser, SoftRemove, GoodLinks, Good
<1>1. CASE LoadUser(s)
  <2> DEFINE w == [j EXCEPT !.at = "save", !.user = users[j.to]]
  <2>1. j.at = "load" /\ (Answer(s) \/ job' = [job EXCEPT ![s] = w])
    BY <1>1 DEF LoadUser
  <2>2. w.op = j.op /\ w.at = "save" /\ w.link = j.link
    BY <1>0 DEF Job
  <2> HIDE DEF w
  <2>3. j.op \in {"newpass", "edit", "remove", "sso"}
    BY <1>0, <2>1 DEF JobOK, StopsAt, Issuing
  <2>4. \A ops \in {Following, {"resend"}} : Holds(w, ops) <=> Holds(j, ops)
    BY <2>1, <2>2, <2>3 DEF Holds, HoldsLink, Following
  <2> QED BY <1>0, <2>1, <2>2, <2>4, AnswerStep, QuietStep
<1>2. CASE UpdateUser(s)
  <2> DEFINE w == [j EXCEPT !.at = "mark", !.user = None]
  <2>1. j.at = "save" /\ (Answer(s) \/ (j.op = "newpass" /\ job' = [job EXCEPT ![s] = w]))
    BY <1>2 DEF UpdateUser, At
  <2>2. w.op = j.op /\ w.at = "mark" /\ w.link = j.link
    BY <1>0 DEF Job
  <2> HIDE DEF w
  <2>3. j.op = "newpass" => \A ops \in {Following, {"resend"}} : Holds(w, ops) <=> Holds(j, ops)
    BY <2>1, <2>2 DEF Holds, HoldsLink, Following
  <2> QED BY <1>0, <2>1, <2>2, <2>3, AnswerStep, QuietStep
<1>3. CASE MarkEmailVerified(s)
  <2>1. j.op = "confirm" /\ j.at = "save" /\ Goto(s, "mark")
    BY <1>3 DEF MarkEmailVerified, At
  <2>2. HoldsLink(After(s, "mark")) <=> HoldsLink(j)
    BY <2>1, AfterIs DEF HoldsLink, Following
  <2> QED BY <1>0, <2>1, <2>2, GotoStep
<1>4. CASE CreateUser(s)
  <2>1. j.at = "create" /\ (Answer(s) \/ (j.op = "accept" /\ Goto(s, "mark")))
    BY <1>4 DEF CreateUser, At
  <2>2. j.op = "accept" /\ Goto(s, "mark") => (HoldsLink(After(s, "mark")) <=> HoldsLink(j))
    BY <2>1, AfterIs DEF HoldsLink, Following
  <2> QED BY <1>0, <2>1, <2>2, AnswerStep, GotoStep
<1>5. CASE SoftRemove(s)
  BY <1>0, <1>5, AnswerStep DEF SoftRemove
<1> QED BY <1>1, <1>2, <1>3, <1>4, <1>5

\* A link that makes way or is revoked; the looks that concern no link.
LEMMA OtherSteps ==
    ASSUME LinksAssumption, NoneAssumption, Inv, NEW s \in Slots,
           \/ ForgotPassword(s) \/ FindForVerification(s) \/ CreateInvite(s) \/ DropUnused(s)
           \/ SendMail(s) \/ Revoke(s) \/ DeleteInvite(s) \/ ProvisionUser(s)
    PROVE  Promise!Next
<1> DEFINE j == job[s]
<1>0. j \in Job /\ JobOK(j) /\ made' = made /\ (UNCHANGED row => GoodLinks' = GoodLinks)
  BY DEF Inv, TypeOK, ForgotPassword, FindForVerification, CreateInvite, DropUnused, SendMail, Revoke,
         DeleteInvite, ProvisionUser, GoodLinks, Good
<1>1. ASSUME NEW at \in {"drop", "insert", "save", "load", "create"}, Goto(s, at),
             j.op \in Issuing \cup {"revoke", "sso"}, j.at \in {"find", "drop"}, GoodLinks' \subseteq GoodLinks
      PROVE  Promise!Next
  <2>1. ~HoldsLink(After(s, at)) /\ ~HoldsLink(j)
    BY <1>1, AfterIs DEF HoldsLink, Issuing, Following
  <2> QED BY <1>0, <1>1, <2>1, GotoStep
<1>2. CASE ForgotPassword(s) \/ FindForVerification(s) \/ CreateInvite(s) \/ Revoke(s) \/ ProvisionUser(s)
  <2>1. /\ UNCHANGED <<row, made>> /\ j.op \in Issuing \cup {"revoke", "sso"} /\ j.at = "find"
        /\ Answer(s) \/ \E at \in {"drop", "save", "load", "create"} : Goto(s, at)
    BY <1>2 DEF ForgotPassword, FindForVerification, CreateInvite, Revoke, ProvisionUser, At, Issuing
  <2> QED BY <1>0, <1>1, <2>1, AnswerStep
<1>3. CASE DropUnused(s)
  <2>1. GoodLinks' \subseteq GoodLinks
    BY <1>3 DEF DropUnused, GoodLinks, Good
  <2>2. j.op \in Issuing /\ j.at = "drop" /\ Goto(s, "insert")
    BY <1>3 DEF DropUnused, At
  <2> QED BY <1>1, <2>1, <2>2
<1>4. CASE SendMail(s)
  BY <1>4, AnswerStep DEF SendMail
<1>5. CASE DeleteInvite(s)
  <2>1. j.op = "revoke" /\ j.at = "save" /\ job' = [job EXCEPT ![s] = Idle]
    BY <1>5 DEF DeleteInvite, At, Answer
  <2>2. GoodLinks' \subseteq GoodLinks
    BY <1>5 DEF DeleteInvite, GoodLinks, Good, Inv, TypeOK
  <2>3. ~HoldsLink(j) /\ ~HoldsLink(Idle)
    BY <2>1, IdleOK DEF HoldsLink, Following
  <2> QED BY <1>0, <2>1, <2>2, <2>3, IdleOK, QuietStep DEF Holds
<1> QED BY <1>2, <1>3, <1>4, <1>5

LEMMA ServerStep ==
    ASSUME LinksAssumption, NoneAssumption, Inv, TypeOK', NEW s \in Slots, Server(s)
    PROVE  Promise!Next
BY FollowStep, ResendStep, ProlongStep, MarkStep, InsertStep, UserSteps, OtherSteps
   DEF Server, ResetPassword, VerifyEmail, AcceptInvite, Following

LEMMA ClientStep ==
    ASSUME LinksAssumption, Inv, NEW s \in Slots, Client(s) \/ Break(s)
    PROVE  Promise!Next
<1>1. ASSUME NEW op, NEW e, NEW l, NEW at \in {"find", "load"}, Open(s, op, e, l, at),
             at = "load" => op \in {"edit", "remove"}
      PROVE  Promise!Next
  <2> DEFINE w == [Idle EXCEPT !.op = op, !.to = e, !.link = l, !.at = at]
  <2>1. w.op = op /\ w.at = at /\ job' = [job EXCEPT ![s] = w] /\ job[s] = Idle /\ UNCHANGED <<row, made>>
    BY <1>1 DEF Idle, Open
  <2> HIDE DEF w
  <2>2. ~HoldsLink(w) /\ ~HoldsLink(Idle) /\ Idle.at # "ok" /\ w.at # "ok"
    BY <1>1, <2>1, IdleOK DEF HoldsLink, Following
  <2>3. GoodLinks' = GoodLinks
    BY <2>1 DEF GoodLinks, Good
  <2> QED BY <2>1, <2>2, <2>3, QuietStep DEF Holds
<1>2. Leave(s) \/ Break(s) => Promise!Next
  BY AnswerStep DEF Leave, Break
<1> QED
  BY <1>1, <1>2
     DEF Client, ForgotPage, ResendVerification, InviteModal, EditUser, RemoveUser, SsoLogin,
         ResetPage, VerifyPage, AcceptPage, ResendInvite, RevokeInvite

LEMMA ExpireStep ==
    ASSUME NoneAssumption, Inv, NEW l \in Link, Expire(l)
    PROVE  Promise!Next
<1>1. UNCHANGED <<made, job>> /\ row' = [row EXCEPT ![l].is = "expired"]
  BY DEF Expire
<1>2. GoodLinks' \subseteq GoodLinks
  BY <1>1 DEF GoodLinks, Good, Expire, Inv, TypeOK
<1>3. Held(Following)' = Held(Following) /\ Held({"resend"})' = Held({"resend"}) /\ Won' = Won
  BY <1>1 DEF Held, HoldsLink, Won, At
<1>4. Promise!Withdraw
  BY <1>1, <1>2, <1>3 DEF Promise!Withdraw, GoodLinks, Won
<1> QED BY <1>4 DEF Promise!Next

\* However requests overlap, break and repeat, the links keep the safety half of
\* GuardedLink's promise: a request of resetPassword, verifyEmail or acceptInvite
\* gets through only if it found its link good, and a link that worked is good
\* again only if resendInvite was prolonging it at that moment.
THEOREM LinksKeepPromise == Spec => Promise!Safety
<1>1. ASSUME Inv, Inv', Next
      PROVE  Promise!Next
  <2>1. TypeOK'
    BY <1>1 DEF Inv
  <2> QED BY <1>1, <2>1, ServerStep, ClientStep, ExpireStep, LinksAssumption, NoneAssumption DEF Next
<1>2. ASSUME UNCHANGED vars
      PROVE  UNCHANGED Promise!link
  BY <1>2 DEF vars, Promise!link, Held, HoldsLink, At, Good
<1>3. Init => Promise!Init
  <2> SUFFICES ASSUME Init PROVE Promise!Init
    OBVIOUS
  <2>1. \A s \in Slots : job[s] = Idle
    BY DEF Init
  <2>2. /\ Held(Following) = [l \in Link |-> {}] /\ Held({"resend"}) = [l \in Link |-> {}]
        /\ {s \in Slots : At(s, Following, "ok")} = {}
    BY <2>1, IdleOK DEF Held, At
  <2>3. {l \in Link : Good(l)} = {} /\ 1 .. made = {}
    BY DEF Init, Good
  <2> QED BY <2>2, <2>3 DEF Promise!Init
<1>4. Inv /\ Inv' /\ [Next]_vars => [Promise!Next]_(Promise!link)
  BY <1>1, <1>2
<1> QED BY <1>3, <1>4, LinksInvariant, PTL DEF Spec, Promise!Safety
=============================================================================
