------------------------------ MODULE Session ------------------------------
(***************************************************************************)
(* A browser's session: the cookies its tabs share, the API client of each *)
(* tab (lib/api.ts) with its refresh and its queue of waiting calls, and   *)
(* the backend that hands out, checks, blacklists and revokes tokens       *)
(* (auth/, sso/), together with the identity provider (IdP).               *)
(*                                                                         *)
(* A token is what is signed into it.  Which copies of an access token are *)
(* the same string is told by tok: "jar" is the one the cookie holds, or   *)
(* held last; a slot's name stands for an older one.  The blacklist is a   *)
(* flag on every copy.                                                     *)
(* A backend handler is cut at its awaits; what a tab does in one turn of  *)
(* its event loop is one action.                                           *)
(***************************************************************************)
EXTENDS Integers, FiniteSets

CONSTANTS
    Tabs,
    Slots,        \* calls in flight
    Sids,         \* sessions at the IdP
    None,
    MaxFaults     \* bound: lost replies, refused requests, expired cookies

\* What a token says of its session; origin is what the code does not keep: the
\* IdP session it comes from.
Family == [sid : Sids \cup {None}, origin : Sids \cup {None}]

ASSUME SessionAssumption ==
    /\ None \notin Tabs \cup Sids \cup Slots \cup Family
    /\ IsFiniteSet(Slots) /\ "jar" \notin Slots

VARIABLES
    jar,        \* the browser's cookies
    revoked,    \* table revoked_sso_sessions
    idp,        \* sessions alive at the IdP
    notices,    \* back-channel logouts on their way
    tab,        \* the tabs
    call,       \* the calls in flight
    faults

backend == <<revoked, idp, notices>>
vars == <<jar, backend, tab, call, faults>>

-----------------------------------------------------------------------------
(* Data *)

Own == [sid |-> None, origin |-> None]

Jar == [access : Family \cup {None},
        expired : BOOLEAN,            \* the access token is 60 minutes old
        black : BOOLEAN,              \* it is in blacklisted_tokens
        refresh : Family \cup {None},
        csrf : BOOLEAN, id : Sids \cup {None},     \* csrf_token, sso_id_token
        pkce : Tabs \cup {None},      \* sso_verifier, sso_state: whose attempt
        silent : BOOLEAN]             \* sso_silent

NoCookies == [access |-> None, expired |-> FALSE, black |-> FALSE, refresh |-> None, csrf |-> FALSE, id |-> None,
              pkce |-> None, silent |-> FALSE]

Tab == [mode : {"up",          \* the page runs
                "leaving",     \* sent to /login, not gone yet
                "ending",      \* sent to /sso/logout, not gone yet
                "idp", "code", "exchanged"},    \* the SSO login
        auth : BOOLEAN,        \* auth.store: isAuthenticated
        refreshing : BOOLEAN,  \* api.ts: isRefreshing
        loading : BOOLEAN,     \* auth.store: isLoading
        silent : BOOLEAN,      \* the SSO attempt is a silent one
        sid : Sids \cup {None}]

AtServer == {"black",      \* before isTokenBlacklisted
             "revoked",    \* before isSessionRevoked
             "run",        \* let through: before getProfile and the handler
             "validate"}   \* login: before validateUser

Replied == {"ok", "denied", "error"}    \* 2xx, 401, any other failure

AtRefresh == {"refRevoked", "refLoad", "refOk", "refFailed"}

Free == [kind |-> "none", at |-> "free", tab |-> None, family |-> None,
         tok |-> None, black |-> FALSE, retry |-> FALSE, dead |-> FALSE]

Call == [kind : {"none", "api", "login", "google", "logout", "renew"},
         at : {"free", "queued"} \cup AtServer \cup Replied \cup AtRefresh,
         tab : Tabs \cup {None},    \* None: the page that sent it is gone
         family : Family \cup {None},    \* of the token sent or, then, signed
         tok : Slots \cup {"jar", None}, \* which access token was sent
         black : BOOLEAN,            \* it is in blacklisted_tokens
         retry : BOOLEAN,            \* _retry
         dead : BOOLEAN]             \* its token was invalid when it was sent

SetToken(cookies, family) ==
    [cookies EXCEPT !.access = family, !.expired = FALSE, !.black = FALSE]

RemoveToken(cookies) == SetToken(cookies, None)

\* The cookie gets another token: the copies of the last one are old.
Aged(calls) ==
    LET old == CHOOSE n \in Slots : \A s \in Slots : calls[s].tok # n
    IN [s \in Slots |-> IF calls[s].tok = "jar" THEN [calls[s] EXCEPT !.tok = old]
                        ELSE calls[s]]

Init ==
    /\ jar = NoCookies
    /\ revoked = {} /\ idp = {} /\ notices = {}
    /\ tab = [t \in Tabs |-> [mode |-> "up", auth |-> FALSE, refreshing |-> FALSE,
                              loading |-> FALSE, silent |-> FALSE, sid |-> None]]
    /\ call = [s \in Slots |-> Free]
    /\ faults = 0

-----------------------------------------------------------------------------
(* The page: lib/api.ts, lib/services/auth.service.ts, auth.store.ts *)

\* A slip to test TypeOK with: a request without a token is let in.
SentUnchecked(c, cookies) ==
    [c EXCEPT !.at = "black", !.family = cookies.access, !.tok = "jar"]

\* A request is sent with the cookies and, as Authorization header, the access
\* token of the jar.  The CSRF check and passport's look at the token need no
\* query.
Sent(c, cookies) ==
    IF c.kind = "logout" /\ ~cookies.csrf THEN [c EXCEPT !.at = "error", !.family = None]
    ELSE IF cookies.access = None \/ cookies.expired
         THEN [c EXCEPT !.at = "denied", !.family = None]
    ELSE [c EXCEPT !.at = "black", !.family = cookies.access,
                   !.tok = "jar", !.black = cookies.black,
                   !.dead = cookies.black \/ cookies.access.origin \in revoked]

\* POST /auth/refresh: the CSRF check and the cookie.
RefreshSent(c) ==
    LET family == IF jar.csrf THEN jar.refresh ELSE None
    IN [c EXCEPT !.family = family,
                 !.at = IF family = None THEN "refFailed"
                        ELSE IF family.sid # None THEN "refRevoked" ELSE "refLoad"]

Up(t) == tab[t].mode = "up"
Here(s) == call[s].tab # None
NewCall(kind, t) == [Free EXCEPT !.kind = kind, !.tab = t]

\* The document is unloaded: what it waited for is lost; a logout the server has
\* begun goes on.
Unloaded(t) ==
    [s \in Slots |->
        IF call[s].tab # t THEN call[s]
        ELSE IF call[s].kind = "logout" /\ call[s].at \in AtServer
             THEN [call[s] EXCEPT !.tab = None, !.retry = FALSE] ELSE Free]

\* A document is loaded: auth.store reads the cookies.
Loaded(cookies) == [mode |-> "up", auth |-> cookies.access # None, refreshing |-> FALSE,
                    loading |-> FALSE, silent |-> FALSE, sid |-> None]

Send(s, t) ==
    /\ call[s] = Free /\ Up(t) /\ tab[t].auth
    /\ call' = [call EXCEPT ![s] = Sent(NewCall("api", t), jar)]
    /\ UNCHANGED <<jar, backend, tab, faults>>

Logins == {"login", "google"}

LoginCall(s, t, kind) ==
    /\ call[s] = Free /\ Up(t) /\ ~tab[t].auth
    /\ call' = [call EXCEPT ![s] = [NewCall(kind, t) EXCEPT !.at = "validate"]]
    /\ tab' = [tab EXCEPT ![t].loading = TRUE]
    /\ UNCHANGED <<jar, backend, faults>>

\* The form is disabled while a login is under way ...
Login(s, t) == ~tab[t].loading /\ LoginCall(s, t, "login")

\* ... the Google button is not.
GoogleLogin(s, t) == LoginCall(s, t, "google")

\* logout of a session the application began; auth.store does not wait for it.
Logout(s, t) ==
    /\ call[s] = Free /\ Up(t) /\ tab[t].auth
    /\ jar.access # None => jar.access.sid = None
    /\ call' = [call EXCEPT ![s] = Sent(NewCall("logout", t), jar)]
    /\ tab' = [tab EXCEPT ![t].auth = jar.access # None]
    /\ UNCHANGED <<jar, backend, faults>>

\* logout of a session the IdP began
SsoLogout(t) ==
    /\ Up(t) /\ tab[t].auth
    /\ jar.access # None /\ jar.access.sid # None
    /\ jar' = RemoveToken(jar)
    /\ tab' = [tab EXCEPT ![t].mode = "ending", ![t].auth = FALSE]
    /\ UNCHANGED <<backend, call, faults>>

\* refreshAccessToken: the page refreshes by itself once the e-mail address has
\* been verified.
Renew(s, t) ==
    /\ call[s] = Free /\ Up(t) /\ tab[t].auth
    /\ call' = [call EXCEPT ![s] = RefreshSent(NewCall("renew", t))]
    /\ UNCHANGED <<jar, backend, tab, faults>>

\* The login page tries the IdP once (silent), or the visitor clicks SSO.
AsksSso(t, silent) == Up(t) /\ ~tab[t].auth /\ (silent => ~jar.silent)

BeginSso(t, silent) ==
    /\ AsksSso(t, silent)
    /\ jar' = [jar EXCEPT !.pkce = t, !.silent = @ \/ silent]
    /\ tab' = [tab EXCEPT ![t] = [Loaded(NoCookies) EXCEPT !.mode = "idp", !.silent = silent]]
    /\ call' = Unloaded(t)
    /\ UNCHANGED <<backend, faults>>

\* beginAuth throws, as the backend has no SSO: an error page, with sso_silent.
SsoUnavailable(t, silent) ==
    /\ AsksSso(t, silent)
    /\ jar' = [jar EXCEPT !.silent = @ \/ silent]
    /\ tab' = [tab EXCEPT ![t] = Loaded(jar)]
    /\ call' = Unloaded(t)
    /\ UNCHANGED <<backend, faults>>

\* The document is loaded anew: /login after it was sent there, or the visitor.
Reload(t) ==
    /\ tab[t].mode # "ending"
    /\ tab' = [tab EXCEPT ![t] = Loaded(jar)]
    /\ call' = Unloaded(t)
    /\ UNCHANGED <<jar, backend, faults>>

Leave(t) == tab[t].mode = "leaving" /\ Reload(t)

-----------------------------------------------------------------------------
(* Replies: the response interceptor and its callers *)

Ended(S) == [s \in Slots |-> IF s \in S THEN Free ELSE call[s]]

Gone(t) == [tab EXCEPT ![t].mode = IF @ = "ending" THEN @ ELSE "leaving"]

\* A good reply with its cookies.
OnOk(s) ==
    LET c == call[s]  t == c.tab IN
    /\ Here(s) /\ c.at = "ok"
    /\ call' = IF c.kind \in Logins THEN Aged(Ended({s})) ELSE Ended({s})
    /\ CASE c.kind = "api" -> UNCHANGED <<jar, tab>>
         [] c.kind \in Logins ->
              /\ jar' = SetToken([jar EXCEPT !.refresh = Own, !.csrf = TRUE], Own)
              /\ tab' = [tab EXCEPT ![t].auth = TRUE, ![t].loading = FALSE]
         [] c.kind = "logout" ->
              /\ jar' = RemoveToken([jar EXCEPT !.refresh = None, !.csrf = FALSE])
              /\ tab' = Gone(t)
    /\ UNCHANGED <<backend, faults>>

\* The call is rejected: logout clears the local state all the same.
Rejected(c) ==
    /\ jar' = IF c.kind = "logout" THEN RemoveToken(jar) ELSE jar
    /\ tab' = CASE c.kind = "logout" -> Gone(c.tab)
              [] c.kind \in Logins -> [tab EXCEPT ![c.tab].loading = FALSE]
              [] OTHER -> tab

OnError(s) ==
    LET c == call[s] IN
    /\ Here(s)
    /\ c.at = "error" \/ (c.at = "denied" /\ (c.retry \/ c.kind \in Logins))
    /\ call' = Ended({s})
    /\ Rejected(c)
    /\ UNCHANGED <<backend, faults>>

First401(s) ==
    Here(s) /\ call[s].at = "denied" /\ ~call[s].retry /\ call[s].kind \notin Logins

\* A 401 while the tab refreshes: the call waits.
Enqueue(s) ==
    /\ First401(s) /\ tab[call[s].tab].refreshing
    /\ call' = [call EXCEPT ![s].at = "queued"]
    /\ UNCHANGED <<jar, backend, tab, faults>>

\* A slip to test ImplementsSingleFlight with: isRefreshing is not looked at.
BeginRefreshAlways(s) ==
    /\ First401(s)
    /\ call' = [call EXCEPT ![s] = RefreshSent([@ EXCEPT !.retry = TRUE])]
    /\ tab' = [tab EXCEPT ![call[s].tab].refreshing = TRUE]
    /\ UNCHANGED <<jar, backend, faults>>

\* A 401: the call refreshes.
BeginRefresh(s) ==
    /\ First401(s) /\ ~tab[call[s].tab].refreshing
    /\ call' = [call EXCEPT ![s] = RefreshSent([@ EXCEPT !.retry = TRUE])]
    /\ tab' = [tab EXCEPT ![call[s].tab].refreshing = TRUE]
    /\ UNCHANGED <<jar, backend, faults>>

Queue(t) == {s \in Slots : call[s].tab = t /\ call[s].at = "queued"}

\* A slip to test EveryCallEnds with: the queue is not processed.
OnRefreshedAlone(s) ==
    LET c == call[s]
        cookies == SetToken([jar EXCEPT !.refresh = c.family], c.family) IN
    /\ c.at = "refOk" /\ c.kind # "renew"
    /\ jar' = cookies
    /\ call' = [Aged(call) EXCEPT ![s] = Sent(c, cookies)]
    /\ tab' = [tab EXCEPT ![c.tab].refreshing = FALSE]
    /\ UNCHANGED <<backend, faults>>

\* The new tokens are there: the call and all that wait are sent again.
OnRefreshed(s) ==
    LET c == call[s]  t == c.tab
        cookies == SetToken([jar EXCEPT !.refresh = c.family], c.family) IN
    /\ c.at = "refOk" /\ c.kind # "renew"
    /\ jar' = cookies
    /\ call' = [q \in Slots |-> IF q \in Queue(t) \cup {s} THEN Sent(call[q], cookies)
                                ELSE Aged(call)[q]]
    /\ tab' = [tab EXCEPT ![t].refreshing = FALSE]
    /\ UNCHANGED <<backend, faults>>

\* The refresh failed: all of them fail, the session is over.
OnRefreshFailed(s) ==
    LET c == call[s]  t == c.tab IN
    /\ c.at = "refFailed" /\ c.kind # "renew"
    /\ jar' = RemoveToken(jar)
    /\ call' = Ended(Queue(t) \cup {s})
    /\ tab' = [Gone(t) EXCEPT ![t].refreshing = FALSE]
    /\ UNCHANGED <<backend, faults>>

\* refreshAccessToken's own answer, then syncAuth.
OnRenewed(s) ==
    LET c == call[s] IN
    /\ c.kind = "renew"
    /\ \/ /\ c.at = "refOk"
          /\ jar' = SetToken([jar EXCEPT !.refresh = c.family], c.family)
          /\ tab' = [tab EXCEPT ![c.tab].auth = TRUE]
          /\ call' = Aged(Ended({s}))
       \/ /\ c.at = "refFailed"
          /\ call' = Ended({s})
          /\ UNCHANGED <<jar, tab>>
    /\ UNCHANGED <<backend, faults>>

\* The reply to a page that is gone.
Dropped(s) ==
    /\ ~Here(s) /\ call[s].at \in Replied
    /\ call' = Ended({s})
    /\ UNCHANGED <<jar, backend, tab, faults>>

-----------------------------------------------------------------------------
(* The backend: jwt.strategy.ts, auth.controller.ts, auth.service.ts *)

Goto(s, at) == call' = [call EXCEPT ![s].at = at]

\* What the server has answered it forgets.
Reply(s, at) == call' = [call EXCEPT ![s] = [@ EXCEPT
                    !.at = at, !.family = None, !.tok = None, !.black = FALSE, !.dead = FALSE]]

\* isTokenBlacklisted
CheckBlacklist(s) ==
    LET c == call[s] IN
    /\ c.at = "black"
    /\ IF c.black THEN Reply(s, "denied")
       ELSE Goto(s, IF c.family.sid # None THEN "revoked" ELSE "run")
    /\ UNCHANGED <<jar, backend, tab, faults>>

\* isSessionRevoked
CheckSession(s) ==
    /\ call[s].at = "revoked"
    /\ IF call[s].family.sid \in revoked THEN Reply(s, "denied") ELSE Goto(s, "run")
    /\ UNCHANGED <<jar, backend, tab, faults>>

\* The handler of any other request than a logout: it answers, or it or a guard
\* refuses.
Run(s) ==
    /\ call[s].at = "run" /\ call[s].kind # "logout"
    /\ \E at \in {"ok", "error"} : Reply(s, at)
    /\ UNCHANGED <<jar, backend, tab, faults>>

\* logout: blacklistToken inserts the token into a unique column.
Blacklist(s) ==
    LET c == call[s] IN
    /\ c.at = "run" /\ c.kind = "logout"
    /\ call' = [q \in Slots |->
                  IF q = s THEN [c EXCEPT !.at = IF c.black THEN "error" ELSE "ok",
                                 !.family = None, !.tok = None, !.black = FALSE,
                                 !.dead = FALSE]
                  ELSE [call[q] EXCEPT !.black = @ \/ call[q].tok = c.tok]]
    /\ jar' = [jar EXCEPT !.black = @ \/ (c.tok = "jar" /\ jar.access # None)]
    /\ UNCHANGED <<backend, tab, faults>>

\* login, googleLogin: the credentials are good.
Validate(s) ==
    /\ call[s].at = "validate"
    /\ Goto(s, "ok")
    /\ UNCHANGED <<jar, backend, tab, faults>>

\* login, googleLogin: they are not, or Turnstile or Google says no.
Refuse(s) ==
    /\ call[s].at = "validate"
    /\ \E at \in {"denied", "error"} : Reply(s, at)
    /\ UNCHANGED <<jar, backend, tab, faults>>

\* refresh: isSessionRevoked
RefreshSession(s) ==
    /\ call[s].at = "refRevoked"
    /\ Goto(s, IF call[s].family.sid \in revoked THEN "refFailed" ELSE "refLoad")
    /\ UNCHANGED <<jar, backend, tab, faults>>

\* A slip to test DeadIsRefused with: the new tokens carry no sid.
RefreshSignNoSid(s) ==
    /\ call[s].at = "refLoad"
    /\ call' = [call EXCEPT ![s].at = "refOk",
                            ![s].family = [sid |-> None, origin |-> @.origin]]
    /\ UNCHANGED <<jar, backend, tab, faults>>

\* refresh: the user is loaded and tokens are signed for the same session.
RefreshSign(s) ==
    /\ call[s].at = "refLoad"
    /\ call' = [call EXCEPT ![s].at = "refOk",
                            ![s].family = [sid |-> @.sid, origin |-> @.origin]]
    /\ UNCHANGED <<jar, backend, tab, faults>>

-----------------------------------------------------------------------------
(* sso.controller.ts and the IdP *)

\* The IdP sends the browser back with a code: the visitor has a session there
\* or begins one.
IdpAnswers(t, sid) ==
    /\ tab[t].mode = "idp"
    /\ IF idp # {} THEN sid \in idp
       ELSE ~tab[t].silent /\ sid \notin revoked \cup notices
    /\ idp' = idp \cup {sid}
    /\ tab' = [tab EXCEPT ![t].mode = "code", ![t].sid = sid]
    /\ UNCHANGED <<jar, revoked, notices, call, faults>>

\* A slip to test SilentRests with: a refused attempt is forgotten.
IdpRefusesForgets(t) ==
    /\ tab[t].mode = "idp" /\ tab[t].silent /\ idp = {}
    /\ jar' = [jar EXCEPT !.pkce = None, !.silent = FALSE]
    /\ tab' = [tab EXCEPT ![t] = Loaded(jar)]
    /\ UNCHANGED <<backend, call, faults>>

\* login_required: back to the login form; sso_silent stays.
IdpRefuses(t) ==
    /\ tab[t].mode = "idp" /\ tab[t].silent /\ idp = {}
    /\ jar' = [jar EXCEPT !.pkce = None]
    /\ tab' = [tab EXCEPT ![t] = Loaded(jar)]
    /\ UNCHANGED <<backend, call, faults>>

\* callback: the cookies must be those of this attempt and the IdP answer, or else
\* there is an error page and the cookies stay.
Exchange(t) ==
    /\ tab[t].mode = "code"
    /\ \/ jar.pkce = t /\ tab' = [tab EXCEPT ![t].mode = "exchanged"]
       \/ tab' = [tab EXCEPT ![t] = Loaded(jar)]
    /\ UNCHANGED <<jar, backend, call, faults>>

\* callback: provisionUser throws (a query fails, a removed account holds the
\* address).  The error page comes with the cookies already cleared.
CallbackFails(t) ==
    /\ tab[t].mode = "exchanged"
    /\ jar' = [jar EXCEPT !.pkce = None, !.silent = FALSE]
    /\ tab' = [tab EXCEPT ![t] = Loaded(jar)]
    /\ UNCHANGED <<backend, call, faults>>

\* callback: provisionUser, login, the cookies of the reply.
Callback(t) ==
    LET sid == tab[t].sid
        family == [sid |-> sid, origin |-> sid]
        cookies == SetToken([jar EXCEPT !.refresh = family, !.csrf = TRUE, !.id = sid,
                                        !.pkce = None, !.silent = FALSE], family) IN
    /\ tab[t].mode = "exchanged"
    /\ jar' = cookies
    /\ tab' = [tab EXCEPT ![t] = Loaded(cookies)]
    /\ call' = Aged(call)
    /\ UNCHANGED <<backend, faults>>

\* ssoLogout, and the IdP's end-session page it leads to.
EndSession(t) ==
    /\ tab[t].mode = "ending"
    /\ jar' = RemoveToken([jar EXCEPT !.refresh = None, !.csrf = FALSE, !.id = None])
    /\ idp' = idp \ {jar.id}
    /\ notices' = notices \cup ({jar.id} \cap idp)
    /\ tab' = [tab EXCEPT ![t] = Loaded(NoCookies)]
    /\ call' = Unloaded(t)
    /\ UNCHANGED <<revoked, faults>>

\* The session ends at the IdP: another application's logout.
IdpLogout(sid) ==
    /\ sid \in idp
    /\ idp' = idp \ {sid} /\ notices' = notices \cup {sid}
    /\ UNCHANGED <<jar, revoked, tab, call, faults>>

\* backchannelLogout
Backchannel(sid) ==
    /\ sid \in notices
    /\ notices' = notices \ {sid} /\ revoked' = revoked \cup {sid}
    /\ UNCHANGED <<jar, idp, tab, call, faults>>

-----------------------------------------------------------------------------
(* Time and faults *)

\* 60 minutes.
Expire ==
    /\ jar.access # None /\ ~jar.expired
    /\ jar' = [jar EXCEPT !.expired = TRUE]
    /\ UNCHANGED <<backend, tab, call, faults>>

Fault == faults < MaxFaults /\ faults' = faults + 1

\* Cookies end: sso_silent and PKCE after ten minutes; seven days after a login
\* csrf_token and sso_id_token; after seven idle days all of them.
CookiesEnd ==
    /\ Fault
    /\ \/ jar' = [jar EXCEPT !.silent = FALSE, !.pkce = None]
       \/ jar' = [jar EXCEPT !.csrf = FALSE, !.id = None, !.silent = FALSE, !.pkce = None]
       \/ jar' = NoCookies
    /\ jar' # jar
    /\ UNCHANGED <<backend, tab, call>>

\* No answer within 30 s, or a broken connection (of a refresh: only the latter).
\* A logout the server has begun goes on without its page.
GiveUp(s) ==
    LET c == call[s] IN
    /\ Fault /\ Here(s)
    /\ \/ /\ c.at \in AtServer
          /\ call' = IF c.kind = "logout" THEN [call EXCEPT ![s].tab = None] ELSE Ended({s})
          /\ Rejected(c)
       \/ /\ c.at \in AtRefresh
          /\ call' = [call EXCEPT ![s].at = "refFailed", ![s].family = None]
          /\ UNCHANGED <<jar, tab>>
    /\ UNCHANGED backend

PageNext(t) ==
    \/ \E s \in Slots : Send(s, t) \/ Login(s, t) \/ GoogleLogin(s, t)
                       \/ Logout(s, t) \/ Renew(s, t)
    \/ SsoLogout(t) \/ Reload(t)
    \/ \E silent \in BOOLEAN : BeginSso(t, silent) \/ SsoUnavailable(t, silent)

SsoNext(t) ==
    \/ \E sid \in Sids : IdpAnswers(t, sid)
    \/ IdpRefuses(t) \/ Exchange(t) \/ Callback(t) \/ CallbackFails(t) \/ EndSession(t)

ReplyNext(s) ==
    \/ OnOk(s) \/ OnError(s) \/ Enqueue(s) \/ BeginRefresh(s)
    \/ OnRefreshed(s) \/ OnRefreshFailed(s) \/ OnRenewed(s) \/ Dropped(s)

ServerNext(s) ==
    \/ CheckBlacklist(s) \/ CheckSession(s) \/ Run(s) \/ Blacklist(s) \/ Validate(s) \/ Refuse(s)
    \/ RefreshSession(s) \/ RefreshSign(s)

Next ==
    \/ \E t \in Tabs : PageNext(t) \/ SsoNext(t)
    \/ \E s \in Slots : ReplyNext(s) \/ ServerNext(s) \/ GiveUp(s)
    \/ \E sid \in Sids : IdpLogout(sid) \/ Backchannel(sid)
    \/ Expire \/ CookiesEnd

\* Handlers end, connections answer or break (nothing else ends a refresh), and a
\* page that was sent away goes; visitors, the IdP and time need not do anything.
Fairness ==
    /\ \A s \in Slots : WF_vars(ReplyNext(s)) /\ WF_vars(ServerNext(s))
    /\ \A t \in Tabs : WF_vars(Leave(t)) /\ WF_vars(EndSession(t))

Spec == Init /\ [][Next]_vars /\ Fairness

-----------------------------------------------------------------------------
(* Properties *)

\* Types, and: whoever is past passport's check, or at a refresh, has a token.
TypeOK ==
    /\ jar \in Jar
    /\ revoked \subseteq Sids /\ idp \subseteq Sids /\ notices \subseteq Sids
    /\ tab \in [Tabs -> Tab]
    /\ call \in [Slots -> Call]
    /\ \A s \in Slots :
        call[s].at \in {"black", "revoked", "run", "refRevoked", "refLoad", "refOk"}
            => call[s].family # None

\* A request sent after its token was blacklisted, or after the IdP session its
\* token comes from was revoked, is not let through: not with the tokens of a
\* login that was under way, nor with those of a refresh that had passed its
\* check before the revocation (jwt.strategy.ts, AuthService.refresh).
DeadIsRefused == \A s \in Slots : call[s].at = "run" => ~call[s].dead

Leader(t) == {s \in Slots : /\ call[s].tab = t /\ call[s].kind # "renew"
                            /\ call[s].at \in AtRefresh}

Flight == INSTANCE SingleFlight
          WITH Pages <- Tabs, Calls <- Slots,
               leader <- [t \in Tabs |-> Leader(t)],
               waiting <- [t \in Tabs |-> Queue(t)]

\* isRefreshing and failedQueue are a single flight: one call of a page
\* refreshes at a time, the others wait, and all are released when it ends,
\* which it does.
ImplementsSingleFlight == Flight!Spec

\* Every call is answered or rejected: none stays in failedQueue, none goes
\* round refresh and retry for ever, even when each new token is refused.
EveryCallEnds == \A s \in Slots : (call[s].at # "free") ~> (call[s].at = "free")

\* Pages with a code of the IdP that the backend has yet to make a login of.
Vouched == {t \in Tabs : tab[t].mode \in {"code", "exchanged"}}

\* "A missing IdP session shows the login form instead of looping": while the IdP
\* has no session, and no page comes back from it with a code, sso_silent outlives
\* refusals, logouts, failed refreshes and reloads until its time is over, and no
\* page goes to the IdP by itself.
SilentRests ==
    [][jar.silent /\ idp = {} /\ idp' = {} /\ Vouched = {} /\ ~CookiesEnd
        => /\ jar'.silent /\ Vouched' = {}
           /\ \A t \in Tabs : tab'[t].mode = "idp" /\ tab'[t].silent => tab[t].mode = "idp"]_vars
=============================================================================
