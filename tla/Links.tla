------------------------------- MODULE Links -------------------------------
(***************************************************************************)
(* Accounts and the one-time links that are mailed for them: invitations   *)
(* (invitations.service.ts), password reset and address verification       *)
(* (auth.service.ts), next to the other writers of the user row            *)
(* (users.service.ts, sso.service.ts).  The pages that ask are in the same *)
(* record as their request; a request is cut at its awaits.                *)
(*                                                                         *)
(* An account and its address are one: `users` is keyed by address, where  *)
(* the table has a unique index that removed (soft-deleted) rows keep      *)
(* occupied.  Links are numbered as they are made.                         *)
(***************************************************************************)
EXTENDS Integers, FiniteSets

CONSTANTS
    Emails,
    Slots,       \* pages, each with at most one request
    MaxLinks,    \* bound: links made
    MaxKinds,    \* bound: kinds of link made in one behaviour
    None

ASSUME LinksAssumption ==
    /\ MaxLinks \in Nat /\ MaxKinds \in 0 .. 3 /\ None \notin Emails \cup (1 .. MaxLinks)
    /\ IsFiniteSet(Slots)

VARIABLES
    users,     \* table users
    row,       \* tables invitations, password_reset_tokens, email_verification_tokens
    made,      \* how many links there have been
    kinds,     \* the kinds of link made (a bound)
    job,       \* the pages and their requests
    stale      \* requests whose copy of a row another one has changed since

vars == <<users, row, made, kinds, job, stale>>

-----------------------------------------------------------------------------
(* Data *)

User == [live : BOOLEAN, verified : BOOLEAN]

Link == 1 .. MaxLinks

Invitation == [kind : {"invite"}, to : Emails, is : {"good", "used", "expired"}]
ResetToken == [kind : {"reset"}, to : Emails, is : {"good", "used", "expired"}]
VerificationToken == [kind : {"verify"}, to : Emails, is : {"good", "used", "expired"}]

LinkRow == Invitation \cup ResetToken \cup VerificationToken

\* Nothing is not a row.
ASSUME NoneAssumption == (\A u \in User : u # None) /\ (\A l \in LinkRow : l # None)

Issuing == {"invite", "reset", "verify"}         \* requests that mail a link
Following == {"accept", "newpass", "confirm"}    \* requests that bring one back

\* A page's request: the await it is stopped at, the link it is about and its
\* copy of the user row.  After an error a page may ask again, as a new one does;
\* only "it worked" is kept until the page is left.
Job == [op : Issuing \cup Following \cup {"none", "resend", "revoke", "edit", "remove", "sso"},
        at : {"none", "find", "drop", "insert", "mail", "load", "save", "create", "mark", "ok"},
        to : Emails \cup {None},
        link : Link \cup {None},
        user : User \cup {None}]

Idle == [op |-> "none", at |-> "none", to |-> None, link |-> None, user |-> None]

Init ==
    /\ users \in [Emails -> {None} \cup [live : {TRUE}, verified : BOOLEAN]]
    /\ row = [l \in Link |-> None]
    /\ made = 0
    /\ kinds \in {k \in SUBSET Issuing : Cardinality(k) = MaxKinds}
    /\ job = [s \in Slots |-> Idle]
    /\ stale = {}

Live(e) == users[e] # None /\ users[e].live
Good(l) == row[l] # None /\ row[l].is = "good"
At(s, ops, at) == job[s].op \in ops /\ job[s].at = at

\* The request is under way.
Busy(s) == job[s].at \notin {"none", "ok"}

\* It has read the row of its link and will save it.
HoldsLink(j) ==
    \/ j.op \in Following /\ j.at \in {"load", "save", "create", "mark"}
    \/ j.op = "resend" /\ j.at = "save"

Goto(s, at) == job' = [job EXCEPT ![s].at = at]
Answer(s) == job' = [job EXCEPT ![s] = Idle]
Worked(s) == job' = [job EXCEPT ![s].at = "ok"]

\* Saving an entity writes every column of the copy that differs from the row,
\* and inserts the row when it is gone.
SaveLink(s, kind, is) ==
    row' = [row EXCEPT ![job[s].link] = [kind |-> kind, to |-> job[s].to, is |-> is]]

SaveUser(s, user) == users' = [users EXCEPT ![job[s].to] = user]

-----------------------------------------------------------------------------
(* Mailing a link *)

Open(s, op, e, l, at) ==
    /\ job[s] = Idle
    /\ job' = [job EXCEPT ![s] = [Idle EXCEPT !.op = op, !.to = e, !.link = l, !.at = at]]
    /\ UNCHANGED <<users, row, made>>

\* The bounds: the links that requests under way will make are counted in.
Room(kind) ==
    /\ kind \in kinds
    /\ made + Cardinality({s \in Slots : \E at \in {"find", "drop", "insert"} : At(s, Issuing, at)})
          < MaxLinks

ForgotPage(s, e) == Room("reset") /\ Open(s, "reset", e, None, "find")

\* The verification gate and the error state of the verification page.
ResendVerification(s, e) == Room("verify") /\ Open(s, "verify", e, None, "find")

InviteModal(s, e) == Room("invite") /\ Open(s, "invite", e, None, "find")

ForgotPassword(s) ==
    /\ At(s, {"reset"}, "find")
    /\ IF Live(job[s].to) THEN Goto(s, "drop") ELSE Answer(s)
    /\ UNCHANGED <<users, row, made>>

FindForVerification(s) ==
    /\ At(s, {"verify"}, "find")
    /\ IF Live(job[s].to) /\ ~users[job[s].to].verified THEN Goto(s, "drop") ELSE Answer(s)
    /\ UNCHANGED <<users, row, made>>

CreateInvite(s) ==
    /\ At(s, {"invite"}, "find")
    /\ IF Live(job[s].to) THEN Answer(s) ELSE Goto(s, "drop")
    /\ UNCHANGED <<users, row, made>>

Superseded(s, l) ==
    row[l] # None /\ row[l].kind = job[s].op /\ row[l].to = job[s].to /\ row[l].is # "used"

\* Two slips to test with: the old links stay; a request waits for the other one.
DropNothing(s) ==
    /\ At(s, Issuing, "drop")
    /\ Goto(s, "insert")
    /\ UNCHANGED <<users, row, made>>

DropAlone(s) ==
    /\ At(s, Issuing, "drop")
    /\ \A t \in Slots \ {s} : ~At(t, Issuing, "drop")
    /\ row' = [l \in Link |-> IF Superseded(s, l) THEN None ELSE row[l]]
    /\ Goto(s, "insert")
    /\ UNCHANGED <<users, made>>

\* The links that were not used make way.
DropUnused(s) ==
    /\ At(s, Issuing, "drop")
    /\ row' = [l \in Link |-> IF Superseded(s, l) THEN None ELSE row[l]]
    /\ Goto(s, "insert")
    /\ UNCHANGED <<users, made>>

InsertLink(s) ==
    /\ At(s, Issuing, "insert")
    /\ made' = made + 1
    /\ row' = [row EXCEPT ![made'] = [kind |-> job[s].op, to |-> job[s].to, is |-> "good"]]
    /\ job' = [job EXCEPT ![s].at = "mail", ![s].link = made']
    /\ UNCHANGED <<users>>

\* The mailer's failures are logged and swallowed.  The mail may arrive before
\* the mailer answers, and even if it does not; one that is lost is a link nobody
\* follows.
SendMail(s) ==
    /\ job[s].at = "mail"
    /\ Answer(s)
    /\ UNCHANGED <<users, row, made>>

-----------------------------------------------------------------------------
(* Following a link *)

ResetPage(s, l, e) == Open(s, "newpass", e, l, "find")

\* The page asks at once, and only once.
VerifyPage(s, l, e) == Open(s, "confirm", e, l, "find")

\* The page has looked the invitation up when it showed its form; it may be gone
\* when the form is sent.
AcceptPage(s, l, e) == Open(s, "accept", e, l, "find")

Follow(s, op, next) ==
    /\ At(s, {op}, "find")
    /\ IF Good(job[s].link) THEN Goto(s, next) ELSE Answer(s)
    /\ UNCHANGED <<users, row, made>>

\* A slip to test with: the invitation is marked before there is an account.
AcceptMarksFirst(s) == Follow(s, "accept", "mark")

ResetPassword(s) == Follow(s, "newpass", "load")
VerifyEmail(s) == Follow(s, "confirm", "save")
AcceptInvite(s) == Follow(s, "accept", "create")

\* usersService.update and the role methods: the row, unless it is removed.
LoadUser(s) ==
    /\ job[s].at = "load"
    /\ IF Live(job[s].to) THEN job' = [job EXCEPT ![s].at = "save", ![s].user = users[job[s].to]]
                          ELSE Answer(s)
    /\ UNCHANGED <<users, row, made>>

\* The save of that copy: also its deletedAt and its emailVerifiedAt.
UpdateUser(s) ==
    /\ At(s, {"newpass", "edit", "sso"}, "save")
    /\ SaveUser(s, job[s].user)
    /\ IF job[s].op = "newpass" THEN job' = [job EXCEPT ![s].at = "mark", ![s].user = None]
                                ELSE Answer(s)
    /\ UNCHANGED <<row, made>>

MarkEmailVerified(s) ==
    /\ At(s, {"confirm"}, "save")
    /\ SaveUser(s, [users[job[s].to] EXCEPT !.verified = TRUE])
    /\ Goto(s, "mark")
    /\ UNCHANGED <<row, made>>

\* usersService.create with autoVerify; the address may be taken by a removed row.
CreateUser(s) ==
    /\ At(s, {"accept", "sso"}, "create")
    /\ IF users[job[s].to] # None
       THEN Answer(s) /\ UNCHANGED users
       ELSE /\ SaveUser(s, [live |-> TRUE, verified |-> TRUE])
            /\ IF job[s].op = "accept" THEN Goto(s, "mark") ELSE Answer(s)
    /\ UNCHANGED <<row, made>>

KindOf(op) == CASE op = "newpass" -> "reset" [] op = "confirm" -> "verify" [] OTHER -> "invite"

\* A slip to test with: the link is not marked.
MarkForgotten(s) ==
    /\ At(s, Following, "mark")
    /\ Worked(s)
    /\ UNCHANGED <<users, row, made>>

\* usedAt, acceptedAt.
Mark(s) ==
    /\ At(s, Following, "mark")
    /\ SaveLink(s, KindOf(job[s].op), "used")
    /\ Worked(s)
    /\ UNCHANGED <<users, made>>

-----------------------------------------------------------------------------
(* The invitation table, the user table, the SSO login *)

ResendInvite(s, l, e) ==
    /\ row[l] # None /\ row[l].kind = "invite"
    /\ Open(s, "resend", e, l, "find")

RevokeInvite(s, l, e) ==
    /\ row[l] # None /\ row[l].kind = "invite"
    /\ Open(s, "revoke", e, l, "find")

\* A slip to test with: acceptedAt is not looked at.
ResendAccepted(s) ==
    /\ At(s, {"resend"}, "find")
    /\ IF row[job[s].link] = None THEN Answer(s) ELSE Goto(s, "save")
    /\ UNCHANGED <<users, row, made>>

Resend(s) ==
    /\ At(s, {"resend"}, "find")
    /\ LET l == job[s].link
       IN IF row[l] = None \/ row[l].is = "used" THEN Answer(s) ELSE Goto(s, "save")
    /\ UNCHANGED <<users, row, made>>

Prolong(s) ==
    /\ At(s, {"resend"}, "save")
    /\ SaveLink(s, "invite", "good")
    /\ Goto(s, "mail")
    /\ UNCHANGED <<users, made>>

Revoke(s) ==
    /\ At(s, {"revoke"}, "find")
    /\ IF row[job[s].link] = None THEN Answer(s) ELSE Goto(s, "save")
    /\ UNCHANGED <<users, row, made>>

DeleteInvite(s) ==
    /\ At(s, {"revoke"}, "save")
    /\ row' = [row EXCEPT ![job[s].link] = None]
    /\ Answer(s)
    /\ UNCHANGED <<users, made>>

\* The profile page, the user modals and the role endpoints.
EditUser(s, e) == Live(e) /\ Open(s, "edit", e, None, "load")

RemoveUser(s, e) == Live(e) /\ Open(s, "remove", e, None, "load")

SoftRemove(s) ==
    /\ At(s, {"remove"}, "save")
    /\ SaveUser(s, [users[job[s].to] EXCEPT !.live = FALSE])
    /\ Answer(s)
    /\ UNCHANGED <<row, made>>

SsoLogin(s, e) == Open(s, "sso", e, None, "find")

\* An account there is may get another name and phone number.
ProvisionUser(s) ==
    /\ At(s, {"sso"}, "find")
    /\ IF Live(job[s].to) THEN Goto(s, "load") \/ Answer(s) ELSE Goto(s, "create")
    /\ UNCHANGED <<users, row, made>>

-----------------------------------------------------------------------------
(* The rest of the world *)

Expire(l) ==
    /\ Good(l)
    /\ row' = [row EXCEPT ![l].is = "expired"]
    /\ UNCHANGED <<users, made, job>>

\* A query fails, the server restarts, the answer is lost: what was written stays.
Break(s) ==
    /\ Busy(s)
    /\ Answer(s)
    /\ UNCHANGED <<users, row, made>>

Leave(s) ==
    /\ job[s].at = "ok"
    /\ Answer(s)
    /\ UNCHANGED <<users, row, made>>

\* History: the copies that a write of somebody else has made out of date.
Note ==
    stale' = {s \in Slots :
                /\ job'[s].user # None \/ HoldsLink(job'[s])
                /\ \/ s \in stale
                   \/ /\ job'[s] = job[s]
                      /\ \/ job[s].user # None /\ users'[job[s].to] # users[job[s].to]
                         \/ HoldsLink(job[s]) /\ row'[job[s].link] # row[job[s].link]}

Server(s) ==
    \/ ForgotPassword(s) \/ FindForVerification(s) \/ CreateInvite(s)
    \/ DropUnused(s) \/ InsertLink(s) \/ SendMail(s)
    \/ ResetPassword(s) \/ VerifyEmail(s) \/ AcceptInvite(s)
    \/ LoadUser(s) \/ UpdateUser(s) \/ MarkEmailVerified(s) \/ CreateUser(s) \/ Mark(s)
    \/ Resend(s) \/ Prolong(s) \/ Revoke(s) \/ DeleteInvite(s)
    \/ SoftRemove(s) \/ ProvisionUser(s)

\* A link whose row is gone is refused at once: only the others are opened.
Client(s) ==
    \/ \E e \in Emails :
         \/ ForgotPage(s, e) \/ ResendVerification(s, e) \/ InviteModal(s, e)
         \/ EditUser(s, e) \/ RemoveUser(s, e) \/ SsoLogin(s, e)
    \/ \E l \in Link :
         /\ row[l] # None
         /\ \/ row[l].kind = "reset" /\ ResetPage(s, l, row[l].to)
            \/ row[l].kind = "verify" /\ VerifyPage(s, l, row[l].to)
            \/ row[l].kind = "invite" /\ \/ AcceptPage(s, l, row[l].to)
                                         \/ ResendInvite(s, l, row[l].to)
                                         \/ RevokeInvite(s, l, row[l].to)
    \/ Leave(s)

Next ==
    /\ \/ \E s \in Slots : Server(s) \/ Client(s) \/ Break(s)
       \/ \E l \in Link : Expire(l)
    /\ Note /\ UNCHANGED kinds

\* Every query, mail and hash comes back.
Fairness == \A s \in Slots : WF_vars(Server(s) /\ Note /\ UNCHANGED kinds)

Spec == Init /\ [][Next]_vars /\ Fairness

-----------------------------------------------------------------------------
(* Properties *)

\* The variables keep their types; links that were not made have no row, and
\* resetPassword, verifyEmail and acceptInvite mark a link only when the account
\* it is for is there.
TypeOK ==
    /\ users \in [Emails -> User \cup {None}]
    /\ row \in [Link -> LinkRow \cup {None}]
    /\ made \in 0 .. MaxLinks /\ kinds \subseteq Issuing
    /\ job \in [Slots -> Job]
    /\ stale \subseteq {s \in Slots : Busy(s)}
    /\ \A l \in Link : l > made => row[l] = None
    /\ \A s \in Slots : job[s].at = "mark" => users[job[s].to] # None

\* forgotPassword, sendVerificationEmail and createInvite delete the unused
\* links first and insert one later, so that requests that overlap leave several
\* that work; but never more than there are requests at a time.
LiveLinks ==
    \A kind \in Issuing, e \in Emails :
        Cardinality({l \in Link : Good(l) /\ row[l].kind = kind /\ row[l].to = e})
            =< Cardinality(Slots)

Undone ==
    \/ \E e \in Emails :
         /\ users[e] # None
         /\ \/ users[e].verified /\ ~users'[e].verified
            \/ ~users[e].live /\ users'[e].live
    \/ \E l \in 1 .. made :
         /\ row[l] = None \/ row[l].is = "used"
         /\ row'[l] # None /\ row'[l].is # "used"

\* What was done to an account or to a link (verified, removed, used, revoked) is
\* undone only by a request that had read the row before it was done, and saved
\* its copy afterwards.
UndoneOnlyByStale ==
    [][Undone => \E s \in stale : job'[s] # job[s]]_vars

\* Per link, the requests that hold a copy of its row.
Held(ops) ==
    [l \in Link |-> {s \in Slots : job[s].link = l /\ job[s].op \in ops /\ HoldsLink(job[s])}]

\* The links keep the promise of GuardedLink: in particular a request is let in
\* by a link that works only, and a link that worked works again only if
\* somebody was prolonging it at that moment.
Promise == INSTANCE GuardedLink WITH
    Links <- Link, Requests <- Slots,
    born <- 1 .. made,
    good <- {l \in Link : Good(l)},
    inside <- Held(Following),
    renewing <- Held({"resend"}),
    won <- {s \in Slots : At(s, Following, "ok")}

ImplementsGuardedLink == Promise!Spec

\* Per link, the resets it has taken effect for: the password is saved.
Reset(l) == {s \in Slots : job[s].link = l /\ (At(s, {"newpass"}, "mark") \/ At(s, {"newpass"}, "ok"))}

\* "One-time password reset": a link resets the password for one request at most,
\* also when two bring it at the same time (resetPassword).
ResetForOne == \A l \in Link : Cardinality(Reset(l)) =< 1

\* A page that waits gets its answer.
EveryRequestEnds == \A s \in Slots : Busy(s) ~> ~Busy(s)
=============================================================================
