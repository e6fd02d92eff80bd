--------------------------- MODULE SessionProofs ---------------------------
(***************************************************************************)
(* Proofs about a browser's session, for any number of tabs, calls and     *)
(* identity provider's sessions: the types, that a token which was         *)
(* blacklisted or revoked before a request is not let through, that        *)
(* refreshes are a single flight, as far as safety goes, and that a silent *)
(* login does not go to and fro.                                           *)
(***************************************************************************)
EXTENDS Session, FiniteSetTheorems, TLAPS

-----------------------------------------------------------------------------
(* The inductive invariant *)

\* A token that comes from a session at the IdP says so.
Honest(family) == family # None => family.sid = family.origin

\* A request that is dead has a check before it that refuses it.
Caught(c) ==
    /\ c.at = "black" /\ c.dead => c.black \/ c.family.sid \in revoked
    /\ c.at = "revoked" /\ c.dead => c.family.sid \in revoked
    /\ c.at = "run" => ~c.dead

HasToken(c) ==
    c.at \in {"black", "revoked", "run", "refRevoked", "refLoad", "refOk"} => c.family # None

\* Nobody's call is free, and a page's own refresh is nothing but a refresh.
KindOK(c) ==
    /\ c.kind = "none" => c.at = "free"
    /\ c.kind = "renew" => c.at \in {"free", "refRevoked", "refLoad", "refOk", "refFailed"}

CallOK(c) == c \in Call /\ HasToken(c) /\ Honest(c.family) /\ Caught(c) /\ KindOK(c)

JarOK(cookies) == cookies \in Jar /\ Honest(cookies.access) /\ Honest(cookies.refresh)

CallsOK(calls) == calls \in [Slots -> Call] /\ \A s \in Slots : CallOK(calls[s])

Inv ==
    /\ JarOK(jar)
    /\ revoked \subseteq Sids /\ idp \subseteq Sids /\ notices \subseteq Sids
    /\ tab \in [Tabs -> Tab]
    /\ CallsOK(call)

-----------------------------------------------------------------------------
(* What the steps are made of *)

LEMMA SetTokenOK ==
    ASSUME NEW cookies, JarOK(cookies), NEW family \in Family, Honest(family)
    PROVE  JarOK(SetToken(cookies, family)) /\ SetToken(cookies, family).access = family
BY DEF JarOK, Jar, SetToken, Honest

LEMMA RemoveTokenOK ==
    ASSUME NEW cookies, JarOK(cookies)
    PROVE  JarOK(RemoveToken(cookies))
BY DEF JarOK, Jar, RemoveToken, SetToken, Honest

LEMMA OwnOK == Own \in Family /\ Honest(Own)
BY DEF Own, Family, Honest

LEMMA LoadedOK == ASSUME NEW cookies PROVE Loaded(cookies) \in Tab
BY DEF Loaded, Tab

LEMMA NewCallOK ==
    ASSUME NEW t \in Tabs, NEW kind \in {"api", "login", "google", "logout", "renew"}
    PROVE  /\ NewCall(kind, t) \in Call
           /\ NewCall(kind, t).family = None /\ NewCall(kind, t).at = "free"
           /\ NewCall(kind, t).kind = kind
BY DEF NewCall, Free, Call

LEMMA FreeOK == CallOK(Free)
BY DEF CallOK, Free, Call, Replied, HasToken, Honest, Caught, KindOK

\* What is sent with the cookies, whatever has become of the call before.
LEMMA SentOK ==
    ASSUME NEW c \in Call, c.kind \notin {"none", "renew"}, NEW cookies, JarOK(cookies)
    PROVE  CallOK(Sent(c, cookies)) /\ Sent(c, cookies).tab = c.tab
<1>1. c.kind = "logout" /\ ~cookies.csrf => CallOK([c EXCEPT !.at = "error", !.family = None])
  BY DEF CallOK, Call, HasToken, Honest, Caught, KindOK, Replied, AtServer, AtRefresh
<1>2. CallOK([c EXCEPT !.at = "denied", !.family = None])
  BY ZenonT(60) DEF CallOK, Call, HasToken, Honest, Caught, KindOK, Replied, AtServer, AtRefresh
<1>3. ASSUME cookies.access # None
      PROVE  CallOK([c EXCEPT !.at = "black", !.family = cookies.access,
                              !.tok = "jar", !.black = cookies.black,
                              !.dead = cookies.black \/ cookies.access.origin \in revoked])
  <2> DEFINE d == [c EXCEPT !.at = "black", !.family = cookies.access,
                            !.tok = "jar", !.black = cookies.black,
                            !.dead = cookies.black \/ cookies.access.origin \in revoked]
  <2>1. cookies.access \in Family /\ cookies.black \in BOOLEAN /\ cookies.access.sid = cookies.access.origin
    BY <1>3 DEF JarOK, Jar, Honest
  <2>2. d \in Call
    BY <2>1 DEF Call, AtServer
  <2>3. d.at = "black" /\ d.family = cookies.access /\ d.black = cookies.black
        /\ d.dead = (cookies.black \/ cookies.access.origin \in revoked)
    BY DEF Call
  <2> QED BY <1>3, <2>1, <2>2, <2>3 DEF CallOK, HasToken, Honest, Caught, KindOK
<1> QED BY <1>1, <1>2, <1>3 DEF Sent, Call

LEMMA RefreshSentOK ==
    ASSUME NEW c \in Call, c.kind # "none", JarOK(jar)
    PROVE  CallOK(RefreshSent(c)) /\ RefreshSent(c).tab = c.tab
<1> DEFINE family == IF jar.csrf THEN jar.refresh ELSE None
           at == IF family = None THEN "refFailed"
                 ELSE IF family.sid # None THEN "refRevoked" ELSE "refLoad"
           d == [c EXCEPT !.family = family, !.at = at]
<1>1. RefreshSent(c) = d
  BY DEF RefreshSent
<1>2. family \in Family \cup {None} /\ Honest(family)
  BY DEF JarOK, Jar, Honest
<1>3. at \in AtRefresh /\ (at # "refFailed" => family # None)
  BY DEF AtRefresh
<1>4. at \in {"refFailed", "refRevoked", "refLoad"}
  OBVIOUS
<1> HIDE DEF family, at
<1>5. d \in Call /\ d.family = family /\ d.at = at /\ d.kind = c.kind /\ d.tab = c.tab
  BY <1>2, <1>3 DEF Call
<1> HIDE DEF d
<1>6. HasToken(d) /\ Honest(d.family) /\ Caught(d) /\ KindOK(d)
  BY <1>2, <1>3, <1>4, <1>5 DEF HasToken, Caught, KindOK
<1> QED BY <1>1, <1>5, <1>6 DEF CallOK

\* The name for the copies of an old token: one that no call has.
LEMMA OldName ==
    ASSUME SessionAssumption, NEW calls \in [Slots -> Call], NEW j \in Slots, calls[j].tok = "jar"
    PROVE  \E n \in Slots : \A s \in Slots : calls[s].tok # n
<1> DEFINE Named == {s \in Slots : calls[s].tok \in Slots}
           name == [s \in Named |-> calls[s].tok]
<1>1. SUFFICES ASSUME \A n \in Slots : \E s \in Slots : calls[s].tok = n
               PROVE  FALSE
  OBVIOUS
<1>2. Named \in SUBSET (Slots \ {j}) /\ IsFiniteSet(Slots \ {j})
      /\ Cardinality(Slots \ {j}) = Cardinality(Slots) - 1
  BY FS_RemoveElement DEF SessionAssumption
<1>3. IsFiniteSet(Named) /\ Cardinality(Named) =< Cardinality(Slots) - 1
  BY <1>2, FS_Subset
<1>4. name \in Surjection(Named, Slots)
  BY <1>1 DEF Surjection
<1>5. Cardinality(Slots) =< Cardinality(Named)
  BY <1>3, <1>4, FS_Surjection
<1>6. Cardinality(Slots) \in Nat /\ Cardinality(Named) \in Nat
  BY <1>3, FS_CardinalityType DEF SessionAssumption
<1> QED BY <1>3, <1>5, <1>6

LEMMA AgedOK ==
    ASSUME SessionAssumption, NEW calls, CallsOK(calls)
    PROVE  /\ CallsOK(Aged(calls))
           /\ \A s \in Slots : /\ Aged(calls)[s].tab = calls[s].tab /\ Aged(calls)[s].at = calls[s].at
                               /\ Aged(calls)[s].kind = calls[s].kind
<1> DEFINE old == CHOOSE n \in Slots : \A s \in Slots : calls[s].tok # n
<1>1. SUFFICES ASSUME NEW s \in Slots
               PROVE  /\ CallOK(Aged(calls)[s])
                      /\ Aged(calls)[s].tab = calls[s].tab /\ Aged(calls)[s].at = calls[s].at
                      /\ Aged(calls)[s].kind = calls[s].kind
  BY DEF Aged, CallOK, CallsOK
<1>2. CASE calls[s].tok # "jar"
  BY <1>2 DEF Aged, CallsOK
<1>3. CASE calls[s].tok = "jar"
  <2>1. old \in Slots
    BY <1>3, OldName DEF CallsOK
  <2>2. Aged(calls)[s] = [calls[s] EXCEPT !.tok = old]
    BY <1>3 DEF Aged
  <2> DEFINE c == calls[s]
             d == [c EXCEPT !.tok = old]
  <2>3. c \in Call /\ HasToken(c) /\ Honest(c.family) /\ Caught(c) /\ KindOK(c)
    BY DEF CallsOK, CallOK
  <2> HIDE DEF c, old
  <2>4. d \in Call /\ d.kind = c.kind /\ d.at = c.at /\ d.tab = c.tab /\ d.family = c.family
        /\ d.black = c.black /\ d.dead = c.dead
    BY <2>1, <2>3 DEF Call
  <2> HIDE DEF d
  <2>5. CallOK(d)
    BY <2>3, <2>4 DEF CallOK, HasToken, Caught, KindOK
  <2> QED BY <2>2, <2>4, <2>5 DEF c, d
<1> QED BY <1>2, <1>3

LEMMA PutOK ==
    ASSUME NEW calls, CallsOK(calls), NEW s \in Slots, NEW c, CallOK(c)
    PROVE  CallsOK([calls EXCEPT ![s] = c])
BY DEF CallsOK, CallOK

LEMMA EndedOK ==
    ASSUME NEW S, CallsOK(call)
    PROVE  CallsOK(Ended(S))
BY FreeOK DEF CallsOK, CallOK, Ended

LEMMA UnloadedOK ==
    ASSUME NEW t \in Tabs, CallsOK(call)
    PROVE  CallsOK(Unloaded(t))
<1>1. ASSUME NEW s \in Slots
      PROVE  CallOK([call[s] EXCEPT !.tab = None, !.retry = FALSE])
  BY DEF CallsOK, CallOK, Call, HasToken, Honest, Caught, KindOK
<1> QED BY <1>1, FreeOK DEF CallsOK, CallOK, Unloaded

\* As long as nothing is revoked the calls stay as good as they are.
LEMMA StillOK ==
    ASSUME CallsOK(call'), UNCHANGED revoked
    PROVE  CallsOK(call)'
BY DEF CallsOK, CallOK, Caught, KindOK

-----------------------------------------------------------------------------
(* The page *)

LEMMA PageKeeps ==
    ASSUME SessionAssumption, Inv, NEW t \in Tabs, PageNext(t)
    PROVE  Inv'
<1>1. ASSUME NEW s \in Slots, Send(s, t)
      PROVE  Inv'
  BY <1>1, SentOK, NewCallOK, PutOK, StillOK DEF Send, Inv, backend
<1>2. ASSUME NEW s \in Slots, NEW kind \in Logins, LoginCall(s, t, kind)
      PROVE  Inv'
  <2>1. CallOK([NewCall(kind, t) EXCEPT !.at = "validate"])
    BY NewCallOK DEF Logins, CallOK, Call, HasToken, Honest, Caught, KindOK, AtServer
  <2>2. tab' \in [Tabs -> Tab]
    BY ZenonT(60), <1>2 DEF LoginCall, Inv, Tab
  <2> QED BY <1>2, <2>1, <2>2, PutOK, StillOK DEF LoginCall, Inv, backend
<1>3. ASSUME NEW s \in Slots, Login(s, t) \/ GoogleLogin(s, t)
      PROVE  Inv'
  BY <1>2, <1>3 DEF Login, GoogleLogin, Logins
<1>4. ASSUME NEW s \in Slots, Logout(s, t)
      PROVE  Inv'
  <2>1. tab' \in [Tabs -> Tab]
    <3> DEFINE known == jar.access # None
    <3>1. known \in BOOLEAN /\ tab' = [tab EXCEPT ![t].auth = known]
      BY <1>4 DEF Logout
    <3> HIDE DEF known
    <3> QED BY <3>1 DEF Inv, Tab
  <2> QED BY <1>4, <2>1, SentOK, NewCallOK, PutOK, StillOK DEF Logout, Inv, backend
<1>5. ASSUME NEW s \in Slots, Renew(s, t)
      PROVE  Inv'
  BY <1>5, RefreshSentOK, NewCallOK, PutOK, StillOK DEF Renew, Inv, backend
<1>6. ASSUME SsoLogout(t)
      PROVE  Inv'
  <2>1. tab' \in [Tabs -> Tab]
    BY <1>6 DEF SsoLogout, Inv, Tab
  <2> QED BY <1>6, <2>1, RemoveTokenOK, StillOK DEF SsoLogout, Inv, backend
<1>7. ASSUME Reload(t)
      PROVE  Inv'
  BY <1>7, LoadedOK, UnloadedOK, StillOK DEF Reload, Inv, backend
<1>8. ASSUME NEW silent \in BOOLEAN, BeginSso(t, silent)
      PROVE  Inv'
  <2>1. JarOK(jar')
    BY <1>8 DEF BeginSso, Inv, JarOK, Jar, Honest
  <2>2. tab' \in [Tabs -> Tab]
    BY <1>8, LoadedOK DEF BeginSso, Inv, Tab
  <2> QED BY <1>8, <2>1, <2>2, UnloadedOK, StillOK DEF BeginSso, Inv, backend
<1>9. ASSUME NEW silent \in BOOLEAN, SsoUnavailable(t, silent)
      PROVE  Inv'
  <2>1. JarOK(jar')
    BY <1>9 DEF SsoUnavailable, Inv, JarOK, Jar, Honest
  <2> QED BY <1>9, <2>1, LoadedOK, UnloadedOK, StillOK DEF SsoUnavailable, Inv, backend
<1> QED BY <1>1, <1>3, <1>4, <1>5, <1>6, <1>7, <1>8, <1>9 DEF PageNext
-----------------------------------------------------------------------------
(* Replies *)

LEMMA GoneOK ==
    ASSUME Inv, NEW t
    PROVE  Gone(t) \in [Tabs -> Tab]
BY ZenonT(60) DEF Gone, Inv, Tab

LEMMA RejectedOK ==
    ASSUME Inv, NEW c, Rejected(c)
    PROVE  JarOK(jar') /\ tab' \in [Tabs -> Tab]
<1>1. CASE c.kind = "logout"
  <2>1. jar' = RemoveToken(jar) /\ tab' = Gone(c.tab)
    BY <1>1 DEF Rejected, Logins
  <2> QED BY <2>1, RemoveTokenOK, GoneOK DEF Inv
<1>2. CASE c.kind \in Logins
  <2>1. [tab EXCEPT ![c.tab].loading = FALSE] \in [Tabs -> Tab]
    BY DEF Inv, Tab
  <2> QED BY <1>2, <2>1 DEF Rejected, Inv, Logins
<1>3. CASE c.kind # "logout" /\ c.kind \notin Logins
  BY <1>3 DEF Rejected, Inv, Logins
<1> QED BY <1>1, <1>2, <1>3

LEMMA ReplyKeeps ==
    ASSUME SessionAssumption, Inv, NEW s \in Slots, ReplyNext(s)
    PROVE  Inv'
<1> DEFINE c == call[s]
<1>0. c \in Call /\ HasToken(c) /\ Honest(c.family) /\ KindOK(c)
  BY DEF Inv, CallsOK, CallOK
<1>1. ASSUME OnOk(s)
      PROVE  Inv'
  <2>1. CallsOK(call')
    BY <1>1, EndedOK, AgedOK DEF OnOk, Inv
  <2>2. CASE c.kind = "api"
    BY <1>1, <2>1, <2>2, StillOK DEF OnOk, Logins, Inv, backend
  <2>3. CASE c.kind \in Logins
    <3>1. JarOK([jar EXCEPT !.refresh = Own, !.csrf = TRUE])
      BY OwnOK DEF Inv, JarOK, Jar, Honest
    <3>2. jar' = SetToken([jar EXCEPT !.refresh = Own, !.csrf = TRUE], Own)
          /\ tab' = [tab EXCEPT ![c.tab].auth = TRUE, ![c.tab].loading = FALSE]
      BY <1>1, <2>3 DEF OnOk, Logins
    <3>3. tab' \in [Tabs -> Tab]
      BY ZenonT(60), <3>2 DEF Inv, Tab
    <3> QED BY <1>1, <2>1, <3>1, <3>2, <3>3, SetTokenOK, OwnOK, StillOK DEF OnOk, Inv, backend
  <2>4. CASE c.kind = "logout"
    <3>1. JarOK([jar EXCEPT !.refresh = None, !.csrf = FALSE])
      BY DEF Inv, JarOK, Jar, Honest
    <3>2. jar' = RemoveToken([jar EXCEPT !.refresh = None, !.csrf = FALSE]) /\ tab' = Gone(c.tab)
      BY <1>1, <2>4 DEF OnOk, Logins
    <3> QED BY <1>1, <2>1, <3>1, <3>2, RemoveTokenOK, GoneOK, StillOK DEF OnOk, Inv, backend
  <2>5. c.kind \notin {"none", "renew"}
    BY <1>0, <1>1 DEF OnOk, KindOK
  <2> QED BY <1>0, <2>2, <2>3, <2>4, <2>5 DEF Call, Logins
<1>2. ASSUME OnError(s)
      PROVE  Inv'
  BY <1>2, EndedOK, RejectedOK, StillOK DEF OnError, Inv, backend
<1>3. ASSUME Enqueue(s)
      PROVE  Inv'
  <2>1. CallOK([c EXCEPT !.at = "queued"])
    BY <1>0, <1>3 DEF Enqueue, First401, CallOK, Call, HasToken, Honest, Caught, KindOK, AtServer
  <2> QED BY <1>3, <2>1, PutOK, StillOK DEF Enqueue, Inv, backend
<1>4. ASSUME BeginRefresh(s)
      PROVE  Inv'
  <2> DEFINE d == [c EXCEPT !.retry = TRUE]
  <2>1. d \in Call /\ d.kind # "none"
    BY <1>0, <1>4 DEF BeginRefresh, First401, Call, KindOK
  <2>3. call' = [call EXCEPT ![s] = RefreshSent(d)] /\ UNCHANGED <<jar, backend>>
    BY <1>4 DEF BeginRefresh
  <2>2. tab' \in [Tabs -> Tab]
    BY ZenonT(60), <1>4 DEF BeginRefresh, Inv, Tab
  <2> HIDE DEF d
  <2> QED BY <2>1, <2>2, <2>3, RefreshSentOK, PutOK, StillOK DEF Inv, backend
<1>5. ASSUME c.at = "refOk"
      PROVE  /\ JarOK([jar EXCEPT !.refresh = c.family])
             /\ JarOK(SetToken([jar EXCEPT !.refresh = c.family], c.family))
  <2>1. c.family \in Family /\ Honest(c.family)
    BY <1>0, <1>5 DEF HasToken, Call
  <2>2. JarOK([jar EXCEPT !.refresh = c.family])
    BY <2>1 DEF Inv, JarOK, Jar, Honest
  <2> QED BY <2>1, <2>2, SetTokenOK
<1>6. ASSUME OnRefreshed(s)
      PROVE  Inv'
  <2> DEFINE cookies == SetToken([jar EXCEPT !.refresh = c.family], c.family)
  <2>1. JarOK(cookies)
    BY <1>5, <1>6 DEF OnRefreshed
  <2>2. ASSUME NEW q \in Slots
        PROVE  /\ q \in Queue(c.tab) \cup {s} => CallOK(Sent(call[q], cookies))
               /\ CallOK(Aged(call)[q])
    <3>1. q \in Queue(c.tab) \cup {s} => call[q].kind \notin {"none", "renew"}
      BY <1>0, <1>6 DEF OnRefreshed, Queue, Inv, CallsOK, CallOK, KindOK
    <3> QED BY <2>1, <3>1, SentOK, AgedOK DEF Inv, CallsOK, CallOK
  <2>3. jar' = cookies
        /\ call' = [q \in Slots |-> IF q \in Queue(c.tab) \cup {s} THEN Sent(call[q], cookies)
                                                           ELSE Aged(call)[q]]
        /\ tab' = [tab EXCEPT ![c.tab].refreshing = FALSE]
    BY <1>6 DEF OnRefreshed
  <2> HIDE DEF cookies
  <2>4. CallsOK(call')
    BY <2>2, <2>3 DEF CallsOK, CallOK
  <2>5. tab' \in [Tabs -> Tab]
    BY ZenonT(60), <2>3 DEF Inv, Tab
  <2> QED BY <1>6, <2>1, <2>3, <2>4, <2>5, StillOK DEF OnRefreshed, Inv, backend
<1>7. ASSUME OnRefreshFailed(s)
      PROVE  Inv'
  <2> DEFINE gone == Gone(c.tab)
  <2>0. gone \in [Tabs -> Tab] /\ tab' = [gone EXCEPT ![c.tab].refreshing = FALSE]
    BY <1>7, GoneOK DEF OnRefreshFailed
  <2> HIDE DEF gone
  <2>1. tab' \in [Tabs -> Tab]
    BY ZenonT(60), <2>0 DEF Tab
  <2> QED BY <1>7, <2>1, EndedOK, RemoveTokenOK, StillOK DEF OnRefreshFailed, Inv, backend
<1>8. ASSUME OnRenewed(s)
      PROVE  Inv'
  <2>1. CASE c.at = "refOk"
    <3>1. /\ jar' = SetToken([jar EXCEPT !.refresh = c.family], c.family)
          /\ tab' = [tab EXCEPT ![c.tab].auth = TRUE] /\ call' = Aged(Ended({s}))
      BY <1>8, <2>1 DEF OnRenewed
    <3>2. tab' \in [Tabs -> Tab]
      BY ZenonT(60), <3>1 DEF Inv, Tab
    <3> QED BY <1>5, <1>8, <2>1, <3>1, <3>2, EndedOK, AgedOK, StillOK DEF OnRenewed, Inv, backend
  <2>2. CASE c.at # "refOk"
    BY <1>8, <2>2, EndedOK, StillOK DEF OnRenewed, Inv, backend
  <2> QED BY <2>1, <2>2
<1>9. ASSUME Dropped(s)
      PROVE  Inv'
  BY <1>9, EndedOK, StillOK DEF Dropped, Inv, backend
<1> QED BY <1>1, <1>2, <1>3, <1>4, <1>6, <1>7, <1>8, <1>9 DEF ReplyNext

-----------------------------------------------------------------------------
(* The backend *)

LEMMA GotoOK ==
    ASSUME Inv, NEW s \in Slots, NEW at \in AtServer \cup AtRefresh \cup Replied, Goto(s, at),
           CallOK([call[s] EXCEPT !.at = at]), UNCHANGED <<jar, backend, tab>>
    PROVE  Inv'
BY PutOK, StillOK DEF Goto, Inv, backend

LEMMA AnsweredOK ==
    ASSUME Inv, NEW s \in Slots, NEW at \in Replied, Reply(s, at), UNCHANGED <<jar, backend, tab>>,
           call[s].at \in {"black", "revoked", "run", "validate"}
    PROVE  Inv'
<1>1. CallOK([call[s] EXCEPT !.at = at, !.family = None, !.tok = None, !.black = FALSE, !.dead = FALSE])
  BY ZenonT(60) DEF Inv, CallsOK, CallOK, Call, HasToken, Honest, Caught, KindOK, Replied
<1> QED BY <1>1, PutOK, StillOK DEF Reply, Inv, backend

LEMMA ServerKeeps ==
    ASSUME SessionAssumption, Inv, NEW s \in Slots, ServerNext(s)
    PROVE  Inv'
<1> DEFINE c == call[s]
<1>0. CallOK(c)
  BY DEF Inv, CallsOK
<1>1. ASSUME CheckBlacklist(s)
      PROVE  Inv'
  <2>1. CASE c.black
    BY <1>1, <2>1, AnsweredOK DEF CheckBlacklist, Replied
  <2>2. CASE ~c.black
    <3>1. c.family.sid = None => ~c.dead
      BY <1>0, <1>1, <2>2, SessionAssumption DEF CheckBlacklist, CallOK, Caught, KindOK, Inv
    <3>2. CallOK([c EXCEPT !.at = IF c.family.sid # None THEN "revoked" ELSE "run"])
      BY <1>0, <1>1, <2>2, <3>1
      DEF CheckBlacklist, CallOK, Call, HasToken, Honest, Caught, KindOK, AtServer
    <3> QED BY <1>1, <2>2, <3>2, GotoOK DEF CheckBlacklist, AtServer
  <2> QED BY <2>1, <2>2
<1>2. ASSUME CheckSession(s)
      PROVE  Inv'
  <2>1. CASE c.family.sid \in revoked
    BY <1>2, <2>1, AnsweredOK DEF CheckSession, Replied
  <2>2. CASE c.family.sid \notin revoked
    <3>1. CallOK([c EXCEPT !.at = "run"])
      BY <1>0, <1>2, <2>2 DEF CheckSession, CallOK, Call, HasToken, Honest, Caught, KindOK, AtServer
    <3> QED BY <1>2, <2>2, <3>1, GotoOK DEF CheckSession, AtServer
  <2> QED BY <2>1, <2>2
<1>3. ASSUME Run(s) \/ Refuse(s)
      PROVE  Inv'
  BY <1>3, AnsweredOK DEF Run, Refuse, Replied
<1>4. ASSUME Blacklist(s)
      PROVE  Inv'
  <2>1. CallOK([c EXCEPT !.at = IF c.black THEN "error" ELSE "ok",
                         !.family = None, !.tok = None, !.black = FALSE, !.dead = FALSE])
    BY <1>0, <1>4 DEF Blacklist, CallOK, Call, HasToken, Honest, Caught, KindOK, Replied
  <2>2. ASSUME NEW q \in Slots, q # s
        PROVE  CallOK(call'[q])
    <3> DEFINE b == call[q].black \/ call[q].tok = c.tok
    <3>1. call'[q] = [call[q] EXCEPT !.black = b] /\ b \in BOOLEAN /\ (call[q].black => b)
      BY <1>4, <2>2 DEF Blacklist
    <3>2. CallOK(call[q])
      BY DEF Inv, CallsOK
    <3> HIDE DEF b
    <3>3. call'[q] \in Call
      BY <3>1, <3>2 DEF CallOK, Call
    <3>4. call[q].black \in BOOLEAN
      BY <3>2 DEF CallOK, Call
    <3> QED BY <3>1, <3>2, <3>3, <3>4 DEF CallOK, Call, HasToken, Honest, Caught, KindOK
  <2>3. call'[s] = [c EXCEPT !.at = IF c.black THEN "error" ELSE "ok",
                             !.family = None, !.tok = None, !.black = FALSE, !.dead = FALSE]
        /\ call' = [q \in Slots |-> call'[q]]
    BY <1>4 DEF Blacklist
  <2>4. CallsOK(call')
    <3>0. CallOK(call'[s])
      BY <2>1, <2>3, Zenon
    <3>1. \A q \in Slots : CallOK(call'[q])
      BY <2>2, <3>0
    <3>2. \A q \in Slots : call'[q] \in Call
      BY <3>1 DEF CallOK
    <3>3. call' \in [Slots -> Call]
      <4>1. call' = [q \in Slots |-> call'[q]]
        BY <2>3
      <4> QED BY Zenon, <3>2, <4>1
    <3> QED BY <3>1, <3>3 DEF CallsOK
  <2>5. JarOK(jar')
    <3> DEFINE b == jar.black \/ (c.tok = "jar" /\ jar.access # None)
    <3>1. jar' = [jar EXCEPT !.black = b] /\ b \in BOOLEAN
      BY <1>4 DEF Blacklist
    <3> HIDE DEF b
    <3> QED BY <3>1 DEF Inv, JarOK, Jar, Honest
  <2> QED BY <1>4, <2>4, <2>5, StillOK DEF Blacklist, Inv, backend
<1>5. ASSUME Validate(s)
      PROVE  Inv'
  <2>1. CallOK([c EXCEPT !.at = "ok"])
    BY <1>0, <1>5 DEF Validate, CallOK, Call, HasToken, Honest, Caught, KindOK, Replied
  <2> QED BY <1>5, <2>1, GotoOK DEF Validate, Replied
<1>6. ASSUME RefreshSession(s)
      PROVE  Inv'
  <2>1. CallOK([c EXCEPT !.at = IF c.family.sid \in revoked THEN "refFailed" ELSE "refLoad"])
    BY <1>0, <1>6 DEF RefreshSession, CallOK, Call, HasToken, Honest, Caught, KindOK, AtRefresh
  <2> QED BY <1>6, <2>1, GotoOK DEF RefreshSession, AtRefresh
<1>7. ASSUME RefreshSign(s)
      PROVE  Inv'
  <2>1. c.family \in Family
    BY <1>0, <1>7 DEF RefreshSign, CallOK, HasToken, Call
  <2>2. [sid |-> c.family.sid, origin |-> c.family.origin] = c.family
    BY <2>1 DEF Family
  <2>3. call' = [call EXCEPT ![s] = [c EXCEPT !.at = "refOk", !.family = c.family]]
    BY <1>7, <2>2 DEF RefreshSign
  <2> DEFINE d == [c EXCEPT !.at = "refOk", !.family = c.family]
  <2>4. d \in Call /\ d.at = "refOk" /\ d.family = c.family /\ d.kind = c.kind
    BY <1>0 DEF CallOK, Call, AtRefresh
  <2>5. CallOK(d)
    BY <1>0, <1>7, <2>1, <2>4, SessionAssumption
    DEF RefreshSign, CallOK, HasToken, Honest, Caught, KindOK, Family
  <2>6. call' = [call EXCEPT ![s] = d]
    BY <2>3
  <2>7. UNCHANGED <<jar, backend, tab>>
    BY <1>7 DEF RefreshSign
  <2> HIDE DEF d
  <2> QED BY <2>5, <2>6, <2>7, PutOK, StillOK DEF Inv, backend
<1> QED BY <1>1, <1>2, <1>3, <1>4, <1>5, <1>6, <1>7 DEF ServerNext

-----------------------------------------------------------------------------
(* The IdP, time and faults *)

\* A call stays as good when a session is revoked.
LEMMA RevokedOK ==
    ASSUME CallsOK(call), UNCHANGED call, revoked \subseteq revoked'
    PROVE  CallsOK(call)'
BY DEF CallsOK, CallOK, Caught

LEMMA SsoKeeps ==
    ASSUME SessionAssumption, Inv, NEW t \in Tabs, SsoNext(t)
    PROVE  Inv'
<1>1. ASSUME NEW sid \in Sids, IdpAnswers(t, sid)
      PROVE  Inv'
  <2>1. tab' \in [Tabs -> Tab]
    BY ZenonT(60), <1>1 DEF IdpAnswers, Inv, Tab
  <2> QED BY <1>1, <2>1, StillOK DEF IdpAnswers, Inv
<1>2. ASSUME IdpRefuses(t)
      PROVE  Inv'
  <2>1. JarOK(jar')
    BY <1>2 DEF IdpRefuses, Inv, JarOK, Jar, Honest
  <2> QED BY <1>2, <2>1, LoadedOK, StillOK DEF IdpRefuses, Inv, backend
<1>3. ASSUME Exchange(t)
      PROVE  Inv'
  <2>1. [tab[t] EXCEPT !.mode = "exchanged"] \in Tab
    BY DEF Inv, Tab
  <2> QED BY <1>3, <2>1, LoadedOK, StillOK DEF Exchange, Inv, backend
<1>4. ASSUME Callback(t)
      PROVE  Inv'
  <2> DEFINE sid == tab[t].sid
             family == [sid |-> sid, origin |-> sid]
             cookies == [jar EXCEPT !.refresh = family, !.csrf = TRUE, !.id = sid,
                                    !.pkce = None, !.silent = FALSE]
  <2>1. sid \in Sids \cup {None}
    BY DEF Inv, Tab
  <2>2. family \in Family /\ Honest(family)
    BY <2>1 DEF Family, Honest
  <2>3. JarOK(cookies)
    BY <2>1, <2>2 DEF Inv, JarOK, Jar, Honest
  <2>4. jar' = SetToken(cookies, family) /\ tab' = [tab EXCEPT ![t] = Loaded(jar')]
        /\ call' = Aged(call) /\ UNCHANGED backend
    BY <1>4 DEF Callback
  <2> HIDE DEF sid, family, cookies
  <2> QED BY <2>2, <2>3, <2>4, SetTokenOK, LoadedOK, AgedOK, StillOK DEF Inv, backend
<1>5. ASSUME EndSession(t)
      PROVE  Inv'
  <2>1. JarOK([jar EXCEPT !.refresh = None, !.csrf = FALSE, !.id = None])
    BY DEF Inv, JarOK, Jar, Honest
  <2>2. JarOK(jar')
    BY <1>5, <2>1, RemoveTokenOK DEF EndSession
  <2> QED BY <1>5, <2>2, LoadedOK, UnloadedOK, StillOK DEF EndSession, Inv
<1>6. ASSUME CallbackFails(t)
      PROVE  Inv'
  <2>1. JarOK(jar')
    BY <1>6 DEF CallbackFails, Inv, JarOK, Jar, Honest
  <2> QED BY <1>6, <2>1, LoadedOK, StillOK DEF CallbackFails, Inv, backend
<1> QED BY <1>1, <1>2, <1>3, <1>4, <1>5, <1>6 DEF SsoNext

LEMMA WorldKeeps ==
    ASSUME Inv, \/ \E sid \in Sids : IdpLogout(sid) \/ Backchannel(sid)
                \/ Expire \/ CookiesEnd
    PROVE  Inv'
<1>1. ASSUME NEW sid \in Sids, IdpLogout(sid)
      PROVE  Inv'
  BY <1>1, StillOK DEF IdpLogout, Inv
<1>2. ASSUME NEW sid \in Sids, Backchannel(sid)
      PROVE  Inv'
  BY <1>2, RevokedOK DEF Backchannel, Inv
<1>3. ASSUME Expire
      PROVE  Inv'
  <2>1. JarOK(jar')
    BY <1>3 DEF Expire, Inv, JarOK, Jar, Honest
  <2> QED BY <1>3, <2>1, StillOK DEF Expire, Inv, backend
<1>4. ASSUME CookiesEnd
      PROVE  Inv'
  <2>1. JarOK(NoCookies)
    BY DEF NoCookies, JarOK, Jar, Honest
  <2>2. JarOK(jar')
    BY <1>4, <2>1 DEF CookiesEnd, Inv, JarOK, Jar, Honest
  <2> QED BY <1>4, <2>2, StillOK DEF CookiesEnd, Inv, backend
<1> QED BY <1>1, <1>2, <1>3, <1>4

LEMMA GiveUpKeeps ==
    ASSUME Inv, NEW s \in Slots, GiveUp(s)
    PROVE  Inv'
<1> DEFINE c == call[s]
<1>0. CallOK(c) /\ UNCHANGED revoked
  BY DEF Inv, CallsOK, GiveUp, backend
<1>1. CASE c.at \in AtServer
  <2>1. Rejected(c) /\ call' = IF c.kind = "logout" THEN [call EXCEPT ![s].tab = None] ELSE Ended({s})
    BY <1>1 DEF GiveUp, AtServer, AtRefresh
  <2>2. CallOK([c EXCEPT !.tab = None])
    BY <1>0 DEF CallOK, Call, HasToken, Honest, Caught, KindOK
  <2>3. CallsOK(call')
    BY <2>1, <2>2, EndedOK, PutOK DEF Inv
  <2> QED BY <1>0, <2>1, <2>3, RejectedOK, StillOK DEF GiveUp, Inv, backend
<1>2. CASE c.at \notin AtServer
  <2>1. c.at \in AtRefresh /\ UNCHANGED <<jar, tab>>
        /\ call' = [call EXCEPT ![s] = [c EXCEPT !.at = "refFailed", !.family = None]]
    BY <1>2 DEF GiveUp
  <2>2. CallOK([c EXCEPT !.at = "refFailed", !.family = None])
    BY <1>0, <2>1 DEF CallOK, Call, HasToken, Honest, Caught, KindOK, AtRefresh
  <2> QED BY <1>0, <2>1, <2>2, PutOK, StillOK DEF GiveUp, Inv, backend
<1> QED BY <1>1, <1>2

-----------------------------------------------------------------------------
(* The specification *)

LEMMA InitInv == Init => Inv
<1> SUFFICES ASSUME Init PROVE Inv
  OBVIOUS
<1>1. JarOK(jar)
  BY DEF Init, NoCookies, JarOK, Jar, Honest
<1>2. tab \in [Tabs -> Tab]
  BY DEF Init, Tab
<1>3. CallsOK(call)
  BY FreeOK DEF Init, CallsOK, CallOK
<1> QED BY <1>1, <1>2, <1>3 DEF Init, Inv

LEMMA NextInv == Inv /\ [Next]_vars => Inv'
<1> SUFFICES ASSUME Inv, [Next]_vars PROVE Inv'
  OBVIOUS
<1>1. CASE UNCHANGED vars
  BY <1>1, StillOK DEF vars, backend, Inv
<1>2. CASE Next
  BY <1>2, SessionAssumption, PageKeeps, SsoKeeps, ReplyKeeps, ServerKeeps, GiveUpKeeps, WorldKeeps
  DEF Next
<1> QED BY <1>1, <1>2

LEMMA AlwaysInv == Spec => []Inv
BY InitInv, NextInv, PTL DEF Spec

\* For any number of tabs, calls and IdP sessions the variables have their
\* types, and whoever is past passport's check, or at a refresh, has a token.
THEOREM SessionTypes == Spec => []TypeOK
<1>1. Inv => TypeOK
  BY DEF Inv, JarOK, CallsOK, CallOK, HasToken, TypeOK
<1> QED BY <1>1, AlwaysInv, PTL

\* For any number of tabs, calls and IdP sessions jwt.strategy.ts lets through
\* no request whose token was blacklisted, or whose IdP session was revoked,
\* before it was sent.
THEOREM RefusesTheDead == Spec => []DeadIsRefused
<1>1. Inv => DeadIsRefused
  BY DEF Inv, CallsOK, CallOK, Caught, DeadIsRefused
<1> QED BY <1>1, AlwaysInv, PTL

-----------------------------------------------------------------------------
(* The single flight.  A call leads its tab when it refreshes for it, waits  *)
(* when it is in failedQueue and is idle otherwise; a step either keeps the  *)
(* part every call plays, makes an idle call lead or wait, or lets all calls *)
(* of a tab go.                                                              *)

leader == [t \in Tabs |-> Leader(t)]
waiting == [t \in Tabs |-> Queue(t)]

Away == {"idp", "code", "exchanged"}

Idle(c) == c.at # "queued" /\ (c.kind = "renew" \/ c.at \notin AtRefresh)

\* isRefreshing says whether a call of the tab refreshes, and calls wait only
\* then ...
OneLeads ==
    \A t \in Tabs : IF tab[t].refreshing THEN \E s \in Slots : Leader(t) = {s}
                    ELSE Leader(t) = {} /\ Queue(t) = {}

\* ... a tab that is at the IdP has no calls ...
NoneAway == \A t \in Tabs : tab[t].mode \in Away => \A s \in Slots : call[s].tab # t

\* ... and a call that lost its page does not refresh.
LostIdle == \A s \in Slots : call[s].tab = None => Idle(call[s])

FlightInv == OneLeads /\ NoneAway /\ LostIdle

\* The part the call plays is the same before and after.
Keeps(c, d) ==
    \/ Idle(c) /\ Idle(d)
    \/ /\ d.tab = c.tab /\ d.kind = c.kind
       /\ c.at \in AtRefresh <=> d.at \in AtRefresh
       /\ c.at = "queued" <=> d.at = "queued"

-----------------------------------------------------------------------------
(* Kinds of steps *)

LEMMA QuietOK ==
    ASSUME FlightInv, NoneAway',
           \A s \in Slots : Keeps(call[s], call'[s]),
           \A t \in Tabs : tab'[t].refreshing = tab[t].refreshing
    PROVE  FlightInv' /\ UNCHANGED <<leader, waiting>>
<1>1. ASSUME NEW t \in Tabs
      PROVE  Leader(t)' = Leader(t) /\ Queue(t)' = Queue(t)
  BY DEF Keeps, Idle, Leader, Queue, AtRefresh
<1>2. LostIdle'
  BY DEF FlightInv, LostIdle, Keeps, Idle
<1> QED BY <1>1, <1>2 DEF FlightInv, OneLeads, leader, waiting

\* All calls of one tab are let go, if there is one that refreshes.
LEMMA LetGoOK ==
    ASSUME FlightInv, NoneAway', NEW t \in Tabs,
           \A s \in Slots : call[s].tab # t => Keeps(call[s], call'[s]) /\ call'[s].tab # t,
           \A s \in Slots : call[s].tab = t => call'[s].tab # t \/ Idle(call'[s]),
           \A s \in Slots : call[s].tab = t /\ call'[s].tab # t => Idle(call'[s]),
           \A p \in Tabs : tab'[p].refreshing = IF p = t THEN FALSE ELSE tab[p].refreshing
    PROVE  FlightInv' /\ (Flight!Release(t) \/ UNCHANGED <<leader, waiting>>)
<1>1. ASSUME NEW p \in Tabs, p # t
      PROVE  Leader(p)' = Leader(p) /\ Queue(p)' = Queue(p)
  BY <1>1 DEF Keeps, Idle, Leader, Queue, AtRefresh
<1>2. Leader(t)' = {} /\ Queue(t)' = {}
  BY DEF Keeps, Idle, Leader, Queue, AtRefresh
<1>3. FlightInv'
  <2>1. OneLeads'
    BY <1>1, <1>2 DEF FlightInv, OneLeads
  <2>2. LostIdle'
    BY DEF FlightInv, LostIdle, Keeps, Idle
  <2> QED BY <2>1, <2>2 DEF FlightInv
<1>4. CASE tab[t].refreshing
  <2>1. Leader(t) # {}
    BY <1>4 DEF FlightInv, OneLeads
  <2> QED BY <1>1, <1>2, <1>3, <2>1 DEF Flight!Release, leader, waiting
<1>5. CASE ~tab[t].refreshing
  <2>1. Leader(t) = {} /\ Queue(t) = {}
    BY <1>5 DEF FlightInv, OneLeads
  <2> QED BY <1>1, <1>2, <1>3, <2>1 DEF leader, waiting
<1> QED BY <1>4, <1>5

LEMMA KeepsItself == \A c : Keeps(c, c)
BY DEF Keeps

LEMMA SentIdle ==
    ASSUME NEW c \in Call, NEW cookies
    PROVE  Idle(Sent(c, cookies)) /\ Sent(c, cookies).tab = c.tab
BY DEF Sent, Idle, Call, AtRefresh

LEMMA NewIdle ==
    ASSUME NEW t, NEW kind
    PROVE  Idle(NewCall(kind, t)) /\ NewCall(kind, t).tab = t /\ Idle(Free)
BY DEF NewCall, Free, Idle, AtRefresh

LEMMA RefreshSentLeads ==
    ASSUME NEW c \in Call
    PROVE  /\ RefreshSent(c).at \in AtRefresh /\ RefreshSent(c).kind = c.kind
           /\ RefreshSent(c).tab = c.tab
BY DEF RefreshSent, Call, AtRefresh

LEMMA TypesOK ==
    ASSUME Inv
    PROVE  call \in [Slots -> Call] /\ tab \in [Tabs -> Tab] /\ \A s \in Slots : KindOK(call[s])
BY DEF Inv, CallsOK, CallOK

LEMMA UnloadedLetsGo ==
    ASSUME SessionAssumption, Inv, FlightInv, NEW t \in Tabs, NEW d \in Tab, ~d.refreshing,
           call' = Unloaded(t), tab' = [tab EXCEPT ![t] = d]
    PROVE  FlightInv' /\ (Flight!Release(t) \/ UNCHANGED <<leader, waiting>>)
<1>1. ASSUME NEW s \in Slots
      PROVE  /\ call[s].tab # t => call'[s] = call[s]
             /\ call[s].tab = t => call'[s].tab = None /\ Idle(call'[s])
  <2>1. call'[s] = IF call[s].tab # t THEN call[s]
                   ELSE IF call[s].kind = "logout" /\ call[s].at \in AtServer
                        THEN [call[s] EXCEPT !.tab = None, !.retry = FALSE] ELSE Free
    BY DEF Unloaded
  <2> QED BY <2>1, TypesOK, NewIdle DEF Free, Call, Idle, AtServer, AtRefresh
<1>2. t # None
  BY DEF SessionAssumption
<1>3. NoneAway'
  BY <1>1, <1>2, TypesOK DEF NoneAway, FlightInv
<1>4. \A p \in Tabs : tab'[p].refreshing = IF p = t THEN FALSE ELSE tab[p].refreshing
  BY TypesOK DEF Tab
<1> QED BY <1>1, <1>2, <1>3, <1>4, KeepsItself, LetGoOK

-----------------------------------------------------------------------------
(* Steps of the page *)

\* The calls all keep their part but one, which was idle and is idle now.
LEMMA OneIdleOK ==
    ASSUME FlightInv, NEW s \in Slots, NEW d, Idle(call[s]), Idle(d),
           call \in [Slots -> Call], call' = [call EXCEPT ![s] = d],
           NoneAway', \A t \in Tabs : tab'[t].refreshing = tab[t].refreshing
    PROVE  FlightInv' /\ UNCHANGED <<leader, waiting>>
<1>1. \A q \in Slots : Keeps(call[q], call'[q])
  BY KeepsItself DEF Keeps
<1> QED BY <1>1, QuietOK

\* A call of a page that runs begins.
LEMMA BeginsOK ==
    ASSUME Inv, FlightInv, NEW t \in Tabs, Up(t), NEW s \in Slots, call[s] = Free,
           NEW d, Idle(d), d.tab = t, call' = [call EXCEPT ![s] = d],
           \A p \in Tabs : tab'[p].mode = tab[p].mode /\ tab'[p].refreshing = tab[p].refreshing
    PROVE  FlightInv' /\ UNCHANGED <<leader, waiting>>
<1>1. NoneAway'
  BY TypesOK DEF NoneAway, Away, Up, FlightInv
<1> QED BY <1>1, TypesOK, NewIdle, OneIdleOK

LEMMA PageFlight ==
    ASSUME SessionAssumption, Inv, FlightInv, NEW t \in Tabs, PageNext(t)
    PROVE  FlightInv' /\ (Flight!Release(t) \/ UNCHANGED <<leader, waiting>>)
<1>0. tab \in [Tabs -> Tab] /\ call \in [Slots -> Call]
  BY TypesOK
<1>1. ASSUME NEW s \in Slots, Send(s, t)
      PROVE  FlightInv' /\ UNCHANGED <<leader, waiting>>
  <2> DEFINE d == Sent(NewCall("api", t), jar)
  <2>1. Idle(d) /\ d.tab = t
    BY SentIdle, NewCallOK, NewIdle
  <2>2. call[s] = Free /\ Up(t) /\ call' = [call EXCEPT ![s] = d] /\ UNCHANGED tab
    BY <1>1 DEF Send
  <2> HIDE DEF d
  <2> QED BY <2>1, <2>2, BeginsOK
<1>2. ASSUME NEW s \in Slots, NEW kind \in Logins, LoginCall(s, t, kind)
      PROVE  FlightInv' /\ UNCHANGED <<leader, waiting>>
  <2> DEFINE d == [NewCall(kind, t) EXCEPT !.at = "validate"]
  <2>1. Idle(d) /\ d.tab = t
    BY DEF NewCall, Free, Idle, AtRefresh
  <2>2. call[s] = Free /\ Up(t) /\ call' = [call EXCEPT ![s] = d]
    BY <1>2 DEF LoginCall
  <2>3. \A p \in Tabs : tab'[p].mode = tab[p].mode /\ tab'[p].refreshing = tab[p].refreshing
    BY <1>0, <1>2 DEF LoginCall, Tab
  <2> HIDE DEF d
  <2> QED BY <2>1, <2>2, <2>3, BeginsOK
<1>3. ASSUME NEW s \in Slots, Login(s, t) \/ GoogleLogin(s, t)
      PROVE  FlightInv' /\ UNCHANGED <<leader, waiting>>
  BY <1>2, <1>3 DEF Login, GoogleLogin, Logins
<1>4. ASSUME NEW s \in Slots, Logout(s, t)
      PROVE  FlightInv' /\ UNCHANGED <<leader, waiting>>
  <2>1. \A p \in Tabs : tab'[p].mode = tab[p].mode /\ tab'[p].refreshing = tab[p].refreshing
    <3> DEFINE known == jar.access # None
    <3>1. tab' = [tab EXCEPT ![t].auth = known]
      BY <1>4 DEF Logout
    <3> HIDE DEF known
    <3> QED BY <1>0, <3>1 DEF Tab
  <2> DEFINE d == Sent(NewCall("logout", t), jar)
  <2>2. Idle(d) /\ d.tab = t
    BY SentIdle, NewCallOK, NewIdle
  <2>3. call[s] = Free /\ Up(t) /\ call' = [call EXCEPT ![s] = d]
    BY <1>4 DEF Logout
  <2> HIDE DEF d
  <2> QED BY <2>1, <2>2, <2>3, BeginsOK
<1>5. ASSUME NEW s \in Slots, Renew(s, t)
      PROVE  FlightInv' /\ UNCHANGED <<leader, waiting>>
  <2> DEFINE d == RefreshSent(NewCall("renew", t))
  <2>1. Idle(d) /\ d.tab = t
    BY NewCallOK, NewIdle, RefreshSentLeads DEF Idle, AtRefresh
  <2>2. call[s] = Free /\ Up(t) /\ call' = [call EXCEPT ![s] = d] /\ UNCHANGED tab
    BY <1>5 DEF Renew
  <2> HIDE DEF d
  <2> QED BY <2>1, <2>2, BeginsOK
<1>6. ASSUME SsoLogout(t)
      PROVE  FlightInv' /\ UNCHANGED <<leader, waiting>>
  <2>1. /\ \A p \in Tabs : tab'[p].refreshing = tab[p].refreshing /\ (p # t => tab'[p] = tab[p])
        /\ tab'[t].mode = "ending"
    BY <1>0, <1>6 DEF SsoLogout, Tab
  <2>2. NoneAway'
    BY <1>6, <2>1 DEF NoneAway, Away, FlightInv, SsoLogout
  <2> QED BY <1>6, <2>1, <2>2, KeepsItself, QuietOK DEF SsoLogout
<1>7. ASSUME Reload(t)
      PROVE  FlightInv' /\ (Flight!Release(t) \/ UNCHANGED <<leader, waiting>>)
  BY <1>7, LoadedOK, UnloadedLetsGo DEF Reload, Loaded
<1>8. ASSUME NEW silent \in BOOLEAN, BeginSso(t, silent)
      PROVE  FlightInv' /\ (Flight!Release(t) \/ UNCHANGED <<leader, waiting>>)
  <2> DEFINE d == [Loaded(NoCookies) EXCEPT !.mode = "idp", !.silent = silent]
  <2>1. d \in Tab /\ ~d.refreshing
    BY LoadedOK DEF Loaded, Tab
  <2>2. tab' = [tab EXCEPT ![t] = d] /\ call' = Unloaded(t)
    BY <1>8 DEF BeginSso
  <2> HIDE DEF d
  <2> QED BY <2>1, <2>2, UnloadedLetsGo
<1>9. ASSUME NEW silent \in BOOLEAN, SsoUnavailable(t, silent)
      PROVE  FlightInv' /\ (Flight!Release(t) \/ UNCHANGED <<leader, waiting>>)
  BY <1>9, LoadedOK, UnloadedLetsGo DEF SsoUnavailable, Loaded
<1> QED BY <1>1, <1>3, <1>4, <1>5, <1>6, <1>7, <1>8, <1>9 DEF PageNext

-----------------------------------------------------------------------------
(* Replies *)

\* One idle call ends; the tokens of others may age.
LEMMA EndsOK ==
    ASSUME SessionAssumption, Inv, FlightInv, NEW s \in Slots, Idle(call[s]),
           call' = Ended({s}) \/ call' = Aged(Ended({s})),
           \A t \in Tabs : /\ tab'[t].refreshing = tab[t].refreshing
                           /\ tab'[t].mode \in Away => tab[t].mode \in Away
    PROVE  FlightInv' /\ UNCHANGED <<leader, waiting>>
<1> DEFINE calls == Ended({s})
<1>1. CallsOK(calls) /\ \A q \in Slots : calls[q] = IF q = s THEN Free ELSE call[q]
  BY EndedOK DEF Inv, Ended
<1>2. ASSUME NEW q \in Slots
      PROVE  /\ call'[q].tab = calls[q].tab /\ call'[q].at = calls[q].at
             /\ call'[q].kind = calls[q].kind
  <2>1. call' = calls \/ call' = Aged(calls)
    OBVIOUS
  <2> HIDE DEF calls
  <2> QED BY <1>1, <2>1, AgedOK
<1>3. ASSUME NEW t \in Tabs, tab'[t].mode \in Away, NEW q \in Slots
      PROVE  call'[q].tab # t
  <2>1. call[q].tab # t /\ t # None
    BY <1>3 DEF FlightInv, NoneAway, SessionAssumption
  <2>2. Free.tab = None
    BY DEF Free
  <2> HIDE DEF calls
  <2>3. calls[q].tab = call[q].tab \/ calls[q].tab = None
    BY <1>1, <2>2
  <2> QED BY <1>2, <2>1, <2>3
<1>4. ASSUME NEW q \in Slots
      PROVE  Keeps(call[q], call'[q])
  <2>1. CASE q = s
    <3>1. Idle(Free) /\ Idle(calls[q])
      BY <1>1, <2>1, NewIdle
    <3> HIDE DEF calls
    <3> QED BY <1>2, <2>1, <3>1 DEF Keeps, Idle
  <2>2. CASE q # s
    <3>1. calls[q] = call[q]
      BY <1>1, <2>2
    <3> HIDE DEF calls
    <3> QED BY <1>2, <3>1 DEF Keeps
  <2> QED BY <2>1, <2>2
<1> QED BY <1>3, <1>4, QuietOK DEF NoneAway

LEMMA GoneTabs ==
    ASSUME Inv, NEW t
    PROVE  \A p \in Tabs : /\ Gone(t)[p].refreshing = tab[p].refreshing
                           /\ Gone(t)[p].mode \in Away => tab[p].mode \in Away
BY DEF Gone, Inv, Tab, Away

LEMMA RejectedTabs ==
    ASSUME Inv, NEW c, Rejected(c)
    PROVE  \A p \in Tabs : /\ tab'[p].refreshing = tab[p].refreshing
                           /\ tab'[p].mode \in Away => tab[p].mode \in Away
<1>1. CASE c.kind = "logout"
  BY <1>1, GoneTabs DEF Rejected, Logins
<1>2. CASE c.kind \in Logins
  <2>1. tab' = [tab EXCEPT ![c.tab].loading = FALSE]
    BY <1>2 DEF Rejected, Logins
  <2> QED BY <2>1 DEF Inv, Tab
<1>3. CASE c.kind # "logout" /\ c.kind \notin Logins
  BY <1>3 DEF Rejected, Logins
<1> QED BY <1>1, <1>2, <1>3

\* What a reply does to the flight of its tab.
FlightStep(s) ==
    \/ UNCHANGED <<leader, waiting>>
    \/ \E t \in Tabs : Flight!Release(t) \/ Flight!Lead(t, s) \/ Flight!Join(t, s)

LEMMA EnqueueFlight ==
    ASSUME SessionAssumption, Inv, FlightInv, NEW s \in Slots, Enqueue(s)
    PROVE  FlightInv' /\ \E t \in Tabs : Flight!Join(t, s)
<1>0. PICK t \in Tabs : t = call[s].tab /\ t # None
  BY TypesOK DEF Enqueue, First401, Here, Call
<1>1. /\ call[s].at = "denied" /\ tab[t].refreshing
      /\ UNCHANGED tab /\ call' = [call EXCEPT ![s].at = "queued"]
  BY <1>0, TypesOK DEF Enqueue, First401, Here, Call
<1>2. ASSUME NEW q \in Slots
      PROVE  /\ call'[q].tab = call[q].tab /\ call'[q].kind = call[q].kind
             /\ call'[q].at = IF q = s THEN "queued" ELSE call[q].at
  BY <1>1, TypesOK DEF Call
<1>3. ASSUME NEW p \in Tabs
      PROVE  /\ Leader(p)' = Leader(p)
             /\ Queue(p)' = IF p = t THEN Queue(p) \cup {s} ELSE Queue(p)
  BY <1>0, <1>1, <1>2 DEF Leader, Queue, AtRefresh
<1>4. FlightInv'
  BY <1>0, <1>1, <1>2, <1>3 DEF FlightInv, OneLeads, NoneAway, LostIdle, Idle
<1>5. Leader(t) # {} /\ s \notin Leader(t)
  BY <1>1 DEF FlightInv, OneLeads, Leader, AtRefresh
<1>6. Flight!Join(t, s)
  BY <1>1, <1>3, <1>5 DEF Flight!Join
<1> QED BY <1>1, <1>4, <1>6

LEMMA BeginRefreshFlight ==
    ASSUME SessionAssumption, Inv, FlightInv, NEW s \in Slots, BeginRefresh(s)
    PROVE  FlightInv' /\ \E t \in Tabs : Flight!Lead(t, s)
<1>0. PICK t \in Tabs : t = call[s].tab /\ t # None
  BY TypesOK DEF BeginRefresh, First401, Here, Call
<1> DEFINE c == [call[s] EXCEPT !.retry = TRUE]
           d == RefreshSent(c)
<1>1. /\ t # None /\ call[s].at = "denied" /\ ~tab[t].refreshing
      /\ tab' = [tab EXCEPT ![t].refreshing = TRUE] /\ call' = [call EXCEPT ![s] = d]
  BY <1>0, TypesOK DEF BeginRefresh, First401, Here, Call
<1>2. c \in Call /\ c.tab = t /\ c.kind # "renew"
  BY ZenonT(60), <1>0, <1>1, TypesOK DEF KindOK, Call
<1>3. d.at \in AtRefresh /\ d.kind # "renew" /\ d.tab = t
  <2> HIDE DEF c
  <2> QED BY <1>2, RefreshSentLeads
<1> HIDE DEF c, d
<1>4. \A q \in Slots : call'[q] = IF q = s THEN d ELSE call[q]
  BY <1>1, TypesOK
<1>5. Leader(t) = {} /\ Queue(t) = {} /\ (tab[t].mode \in Away => \A q \in Slots : call[q].tab # t)
  BY <1>1 DEF FlightInv, OneLeads, NoneAway
<1>6. Leader(t)' = {s} /\ Queue(t)' = {}
  BY <1>3, <1>4, <1>5 DEF Leader, Queue, AtRefresh
<1>7. ASSUME NEW p \in Tabs, p # t
      PROVE  Leader(p)' = Leader(p) /\ Queue(p)' = Queue(p)
  BY <1>0, <1>3, <1>4, <1>7 DEF Leader, Queue
<1>8. \A p \in Tabs : tab'[p].mode = tab[p].mode
                      /\ tab'[p].refreshing = IF p = t THEN TRUE ELSE tab[p].refreshing
  BY <1>1, TypesOK DEF Tab
<1>9. FlightInv'
  <2>1. ASSUME NEW p \in Tabs, tab'[p].mode \in Away, NEW q \in Slots
        PROVE  call'[q].tab # p
    BY <1>0, <1>3, <1>4, <1>5, <1>8, <2>1 DEF FlightInv, NoneAway
  <2>2. ASSUME NEW q \in Slots, call'[q].tab = None
        PROVE  Idle(call'[q])
    <3>1. t # None /\ d.tab = t
      BY <1>1, <1>3
    <3>2. q # s /\ call'[q] = call[q]
      BY <1>4, <2>2, <3>1
    <3>3. call[q].tab = None
      BY <2>2, <3>2
    <3> QED BY <3>2, <3>3 DEF FlightInv, LostIdle, Idle
  <2>3. OneLeads'
    BY <1>6, <1>7, <1>8 DEF FlightInv, OneLeads
  <2> QED BY <2>1, <2>2, <2>3 DEF FlightInv, NoneAway, LostIdle
<1>10. Flight!Lead(t, s)
  <2>2. \A p \in Tabs : Leader(p)' = (IF p = t THEN {s} ELSE Leader(p)) /\ Queue(p)' = Queue(p)
    BY <1>5, <1>6, <1>7
  <2>3. leader[t] = {} /\ leader' = [leader EXCEPT ![t] = {s}]
    BY <1>5, <2>2 DEF leader
  <2>4. waiting' = waiting
    BY <2>2 DEF waiting
  <2> QED BY <2>3, <2>4 DEF Flight!Lead, leader, waiting
<1> QED BY <1>1, <1>9, <1>10

\* A refresh ends: its tab's calls go, or are sent again.
LEMMA RefreshEndsOK ==
    ASSUME Inv, FlightInv, NEW s \in Slots, call[s].at \in AtRefresh, call[s].kind # "renew",
           NEW calls \in [Slots -> Call],
           \A q \in Slots : calls[q].tab \in {call[q].tab, None},
           \A q \in Slots \ (Queue(call[s].tab) \cup {s}) :
               calls[q].tab = call[q].tab /\ calls[q].kind = call[q].kind /\ calls[q].at = call[q].at,
           \A q \in Queue(call[s].tab) \cup {s} : Idle(calls[q]),
           call' = calls, SessionAssumption,
           \A p \in Tabs : /\ tab'[p].refreshing = IF p = call[s].tab THEN FALSE ELSE tab[p].refreshing
                           /\ tab'[p].mode \in Away => tab[p].mode \in Away
    PROVE  FlightInv' /\ FlightStep(s)
<1> DEFINE t == call[s].tab
<1>1. NoneAway'
  <2>1. ASSUME NEW p \in Tabs, tab'[p].mode \in Away, NEW q \in Slots
        PROVE  call'[q].tab # p
    <3>1. call[q].tab # p /\ p # None
      BY <2>1 DEF FlightInv, NoneAway, SessionAssumption
    <3> QED BY <3>1
  <2> QED BY <2>1 DEF NoneAway
<1>2. t \in Tabs
  BY TypesOK DEF FlightInv, LostIdle, Idle, Call
<1>3. s \in Leader(t)
  BY DEF Leader
<1>4. ASSUME NEW q \in Slots, call[q].tab = t, q \notin Queue(t) \cup {s}
      PROVE  Idle(call[q])
  BY <1>2, <1>3, <1>4 DEF FlightInv, OneLeads, Leader, Queue, Idle
<1>5. ASSUME NEW q \in Slots, call[q].tab # t
      PROVE  Keeps(call[q], call'[q]) /\ call'[q].tab # t
  BY <1>5 DEF Queue, Keeps
<1>7. ASSUME NEW q \in Slots, call[q].tab = t
      PROVE  Idle(call'[q])
  BY <1>4, <1>7 DEF Idle
<1>8. \A p \in Tabs : tab'[p].refreshing = IF p = t THEN FALSE ELSE tab[p].refreshing
  OBVIOUS
<1> HIDE DEF t
<1>9. FlightInv' /\ (Flight!Release(t) \/ UNCHANGED <<leader, waiting>>)
  BY <1>1, <1>2, <1>5, <1>7, <1>8, LetGoOK
<1> QED BY <1>2, <1>9 DEF FlightStep

LEMMA OnRefreshedFlight ==
    ASSUME SessionAssumption, Inv, FlightInv, NEW s \in Slots, OnRefreshed(s)
    PROVE  FlightInv' /\ FlightStep(s)
<1> DEFINE c == call[s]
           cookies == SetToken([jar EXCEPT !.refresh = c.family], c.family)
           calls == [q \in Slots |-> IF q \in Queue(c.tab) \cup {s} THEN Sent(call[q], cookies)
                                     ELSE Aged(call)[q]]
<1>1. /\ c.at \in AtRefresh /\ c.kind # "renew" /\ call' = calls
      /\ tab' = [tab EXCEPT ![c.tab].refreshing = FALSE]
  BY DEF OnRefreshed, AtRefresh
<1>2. \A q \in Slots : /\ q \in Queue(c.tab) \cup {s} => calls[q] = Sent(call[q], cookies)
                       /\ q \notin Queue(c.tab) \cup {s} => calls[q] = Aged(call)[q]
  OBVIOUS
<1> HIDE DEF calls, cookies
<1>3. ASSUME NEW q \in Slots, q \in Queue(c.tab) \cup {s}
      PROVE  Idle(calls[q]) /\ calls[q].tab = call[q].tab
  BY <1>2, <1>3, SentIdle, TypesOK
<1>4. ASSUME NEW q \in Slots, q \notin Queue(c.tab) \cup {s}
      PROVE  calls[q].tab = call[q].tab /\ calls[q].kind = call[q].kind /\ calls[q].at = call[q].at
  BY <1>2, <1>4, AgedOK DEF Inv
<1>5. \A p \in Tabs : /\ tab'[p].refreshing = IF p = c.tab THEN FALSE ELSE tab[p].refreshing
                      /\ tab'[p].mode \in Away => tab[p].mode \in Away
  BY <1>1, TypesOK DEF Tab
<1>6. Queue(c.tab) \subseteq Slots
  BY DEF Queue
<1>7. calls \in [Slots -> Call]
  <2>1. Inv'
    BY ReplyKeeps DEF ReplyNext
  <2> QED BY <1>1, <2>1 DEF Inv, CallsOK
<1> QED BY <1>1, <1>3, <1>4, <1>5, <1>6, <1>7, RefreshEndsOK

LEMMA OnRefreshFailedFlight ==
    ASSUME SessionAssumption, Inv, FlightInv, NEW s \in Slots, OnRefreshFailed(s)
    PROVE  FlightInv' /\ FlightStep(s)
<1> DEFINE c == call[s]
           calls == Ended(Queue(c.tab) \cup {s})
           gone == Gone(c.tab)
<1>1. /\ c.at \in AtRefresh /\ c.kind # "renew" /\ call' = calls
      /\ tab' = [gone EXCEPT ![c.tab].refreshing = FALSE]
  BY DEF OnRefreshFailed, AtRefresh
<1>2. \A q \in Slots : calls[q] = IF q \in Queue(c.tab) \cup {s} THEN Free ELSE call[q]
  BY DEF Ended
<1>3. Idle(Free) /\ Free.tab = None
  BY DEF Free, Idle, AtRefresh
<1>4. /\ gone \in [Tabs -> Tab]
      /\ \A p \in Tabs : /\ gone[p].refreshing = tab[p].refreshing
                         /\ gone[p].mode \in Away => tab[p].mode \in Away
  BY GoneOK, GoneTabs
<1> HIDE DEF calls, gone
<1>5. \A p \in Tabs : /\ tab'[p].refreshing = IF p = c.tab THEN FALSE ELSE tab[p].refreshing
                      /\ tab'[p].mode \in Away => tab[p].mode \in Away
  BY ZenonT(60), <1>1, <1>4 DEF Tab
<1>6. Queue(c.tab) \subseteq Slots
  BY DEF Queue
<1>7. calls \in [Slots -> Call]
  <2>1. Inv'
    BY ReplyKeeps DEF ReplyNext
  <2> QED BY <1>1, <2>1 DEF Inv, CallsOK
<1> QED BY <1>1, <1>2, <1>3, <1>5, <1>6, <1>7, RefreshEndsOK

LEMMA ReplyFlight ==
    ASSUME SessionAssumption, Inv, FlightInv, NEW s \in Slots, ReplyNext(s)
    PROVE  FlightInv' /\ FlightStep(s)
<1> DEFINE c == call[s]
<1>0. c \in Call /\ KindOK(c)
  BY TypesOK
<1>1. ASSUME OnOk(s)
      PROVE  FlightInv' /\ UNCHANGED <<leader, waiting>>
  <2>1. Idle(c) /\ (call' = Ended({s}) \/ call' = Aged(Ended({s})))
    BY <1>1 DEF OnOk, Idle, AtRefresh
  <2>2. \A p \in Tabs : /\ tab'[p].refreshing = tab[p].refreshing
                        /\ tab'[p].mode \in Away => tab[p].mode \in Away
    <3>1. CASE c.kind = "api"
      BY <1>1, <3>1 DEF OnOk, Logins
    <3>2. CASE c.kind \in Logins
      <4>1. tab' = [tab EXCEPT ![c.tab].auth = TRUE, ![c.tab].loading = FALSE]
        BY <1>1, <3>2 DEF OnOk, Logins
      <4> QED BY <4>1, TypesOK DEF Tab
    <3>3. CASE c.kind = "logout"
      BY <1>1, <3>3, GoneTabs DEF OnOk, Logins
    <3> QED BY <1>0, <1>1, <3>1, <3>2, <3>3 DEF OnOk, Call, KindOK, Logins
  <2> QED BY <2>1, <2>2, EndsOK
<1>2. ASSUME OnError(s)
      PROVE  FlightInv' /\ UNCHANGED <<leader, waiting>>
  <2>1. Idle(c) /\ call' = Ended({s}) /\ Rejected(c)
    BY <1>2 DEF OnError, Idle, AtRefresh
  <2> QED BY <2>1, RejectedTabs, EndsOK
<1>3. ASSUME OnRenewed(s)
      PROVE  FlightInv' /\ UNCHANGED <<leader, waiting>>
  <2>1. Idle(c) /\ (call' = Ended({s}) \/ call' = Aged(Ended({s})))
    BY <1>3 DEF OnRenewed, Idle
  <2>2. \A p \in Tabs : tab'[p].refreshing = tab[p].refreshing /\ tab'[p].mode = tab[p].mode
    BY <1>3, TypesOK DEF OnRenewed, Tab
  <2> QED BY <2>1, <2>2, EndsOK
<1>4. ASSUME Dropped(s)
      PROVE  FlightInv' /\ UNCHANGED <<leader, waiting>>
  <2>1. Idle(c) /\ call' = Ended({s}) /\ UNCHANGED tab
    BY <1>4 DEF Dropped, Idle, Replied, AtRefresh
  <2> QED BY <2>1, EndsOK
<1> QED BY <1>1, <1>2, <1>3, <1>4, EnqueueFlight, BeginRefreshFlight, OnRefreshedFlight,
           OnRefreshFailedFlight DEF ReplyNext, FlightStep

-----------------------------------------------------------------------------
(* The backend, the IdP and faults *)

\* The calls all keep their part and their tab.
LEMMA SamePartsOK ==
    ASSUME FlightInv, \A q \in Slots : Keeps(call[q], call'[q]) /\ call'[q].tab = call[q].tab,
           \A p \in Tabs : /\ tab'[p].refreshing = tab[p].refreshing
                           /\ tab'[p].mode \in Away => tab[p].mode \in Away
    PROVE  FlightInv' /\ UNCHANGED <<leader, waiting>>
<1>1. NoneAway'
  BY DEF FlightInv, NoneAway
<1> QED BY <1>1, QuietOK

LEMMA ServerFlight ==
    ASSUME Inv, FlightInv, NEW s \in Slots, ServerNext(s)
    PROVE  FlightInv' /\ UNCHANGED <<leader, waiting>>
<1> DEFINE c == call[s]
<1>0. call \in [Slots -> Call] /\ c \in Call
  BY TypesOK
<1>1. ASSUME NEW at \in Replied, Reply(s, at), c.at \in AtServer
      PROVE  \A q \in Slots : Keeps(call[q], call'[q]) /\ call'[q].tab = call[q].tab
  <2> DEFINE d == [c EXCEPT !.at = at, !.family = None, !.tok = None, !.black = FALSE, !.dead = FALSE]
  <2>1. Idle(c) /\ Idle(d) /\ d.tab = c.tab
    BY <1>0, <1>1 DEF Call, Idle, AtServer, AtRefresh, Replied
  <2>2. call' = [call EXCEPT ![s] = d]
    BY <1>1 DEF Reply
  <2> HIDE DEF d
  <2> QED BY <1>0, <2>1, <2>2, KeepsItself DEF Keeps
<1>2. ASSUME NEW at, Goto(s, at), \/ c.at \in AtServer /\ at \in AtServer \cup Replied
                                  \/ c.at \in AtRefresh /\ at \in AtRefresh
      PROVE  \A q \in Slots : Keeps(call[q], call'[q]) /\ call'[q].tab = call[q].tab
  <2> DEFINE d == [c EXCEPT !.at = at]
  <2>1. Keeps(c, d) /\ d.tab = c.tab
    BY <1>0, <1>2 DEF Keeps, Call, Idle, AtServer, AtRefresh, Replied
  <2>2. call' = [call EXCEPT ![s] = d]
    BY <1>2 DEF Goto
  <2> HIDE DEF d
  <2> QED BY <1>0, <2>1, <2>2, KeepsItself
<1>3. ASSUME Blacklist(s)
      PROVE  \A q \in Slots : Keeps(call[q], call'[q]) /\ call'[q].tab = call[q].tab
  <2> DEFINE d == [c EXCEPT !.at = IF c.black THEN "error" ELSE "ok",
                            !.family = None, !.tok = None, !.black = FALSE, !.dead = FALSE]
  <2>1. Idle(c) /\ Idle(d) /\ d.tab = c.tab
    BY <1>0, <1>3 DEF Blacklist, Call, Idle, AtRefresh
  <2>2. call'[s] = d
    BY <1>3 DEF Blacklist
  <2> HIDE DEF d
  <2>3. ASSUME NEW q \in Slots, q # s
        PROVE  Keeps(call[q], call'[q]) /\ call'[q].tab = call[q].tab
    <3> DEFINE b == call[q].black \/ call[q].tok = c.tok
    <3>1. call'[q] = [call[q] EXCEPT !.black = b]
      BY <1>3, <2>3 DEF Blacklist
    <3> HIDE DEF b
    <3> QED BY <1>0, <3>1 DEF Call, Keeps
  <2> QED BY <2>1, <2>2, <2>3 DEF Keeps
<1>4. ASSUME RefreshSign(s)
      PROVE  \A q \in Slots : Keeps(call[q], call'[q]) /\ call'[q].tab = call[q].tab
  <2> DEFINE d == [c EXCEPT !.at = "refOk",
                            !.family = [sid |-> c.family.sid, origin |-> c.family.origin]]
  <2>1. Keeps(c, d) /\ d.tab = c.tab
    BY <1>0, <1>4 DEF RefreshSign, Keeps, Call, Idle, AtRefresh
  <2>2. call' = [call EXCEPT ![s] = d]
    BY <1>0, <1>4 DEF RefreshSign
  <2> HIDE DEF d
  <2> QED BY <1>0, <2>1, <2>2, KeepsItself
<1>5. UNCHANGED tab
  BY DEF ServerNext, CheckBlacklist, CheckSession, Run, Refuse, Validate, Blacklist, RefreshSession,
         RefreshSign
<1>6. \A q \in Slots : Keeps(call[q], call'[q]) /\ call'[q].tab = call[q].tab
  <2>1. CASE CheckBlacklist(s)
    BY <1>1, <1>2, <2>1 DEF CheckBlacklist, AtServer, Replied
  <2>2. CASE CheckSession(s)
    BY <1>1, <1>2, <2>2 DEF CheckSession, AtServer, Replied
  <2>3. CASE Run(s) \/ Refuse(s)
    BY <1>1, <2>3 DEF Run, Refuse, AtServer, Replied
  <2>4. CASE Validate(s)
    BY <1>2, <2>4 DEF Validate, AtServer, Replied
  <2>5. CASE RefreshSession(s)
    BY <1>2, <2>5 DEF RefreshSession, AtRefresh
  <2> QED BY <1>3, <1>4, <2>1, <2>2, <2>3, <2>4, <2>5 DEF ServerNext
<1> QED BY <1>5, <1>6, SamePartsOK

LEMMA SsoFlight ==
    ASSUME SessionAssumption, Inv, FlightInv, NEW t \in Tabs, SsoNext(t)
    PROVE  FlightInv' /\ (Flight!Release(t) \/ UNCHANGED <<leader, waiting>>)
<1>1. ASSUME NEW d \in Tab, ~d.refreshing, d.mode = "up", tab[t].mode \in Away,
             tab' = [tab EXCEPT ![t] = d],
             \A q \in Slots : Keeps(call[q], call'[q]) /\ call'[q].tab = call[q].tab
      PROVE  FlightInv' /\ UNCHANGED <<leader, waiting>>
  <2>1. ~tab[t].refreshing
    BY <1>1 DEF FlightInv, NoneAway, OneLeads, Leader
  <2>2. \A p \in Tabs : /\ tab'[p].refreshing = tab[p].refreshing
                        /\ tab'[p].mode \in Away => tab[p].mode \in Away
    BY <1>1, <2>1, TypesOK DEF Tab, Away
  <2> QED BY <1>1, <2>2, SamePartsOK
<1>2. ASSUME NEW sid \in Sids, IdpAnswers(t, sid)
      PROVE  FlightInv' /\ UNCHANGED <<leader, waiting>>
  <2>1. \A p \in Tabs : /\ tab'[p].refreshing = tab[p].refreshing
                        /\ tab'[p].mode \in Away => tab[p].mode \in Away
    BY <1>2, TypesOK DEF IdpAnswers, Tab, Away
  <2> QED BY <1>2, <2>1, KeepsItself, SamePartsOK DEF IdpAnswers
<1>3. ASSUME IdpRefuses(t) \/ CallbackFails(t)
      PROVE  FlightInv' /\ UNCHANGED <<leader, waiting>>
  <2>1. tab[t].mode \in Away /\ UNCHANGED call /\ tab' = [tab EXCEPT ![t] = Loaded(jar)]
    BY <1>3 DEF IdpRefuses, CallbackFails, Away
  <2>2. Loaded(jar) \in Tab /\ ~Loaded(jar).refreshing /\ Loaded(jar).mode = "up"
    BY LoadedOK DEF Loaded
  <2> QED BY <1>1, <2>1, <2>2, KeepsItself
<1>4. ASSUME Exchange(t)
      PROVE  FlightInv' /\ UNCHANGED <<leader, waiting>>
  <2>1. CASE tab' = [tab EXCEPT ![t] = Loaded(jar)]
    <3>1. tab[t].mode \in Away /\ UNCHANGED call /\ tab' = [tab EXCEPT ![t] = Loaded(jar)]
      BY <1>4, <2>1 DEF Exchange, Away
    <3>2. Loaded(jar) \in Tab /\ ~Loaded(jar).refreshing /\ Loaded(jar).mode = "up"
      BY LoadedOK DEF Loaded
    <3> QED BY <1>1, <3>1, <3>2, KeepsItself
  <2>2. CASE tab' = [tab EXCEPT ![t].mode = "exchanged"]
    <3>1. tab' = [tab EXCEPT ![t].mode = "exchanged"] /\ UNCHANGED call /\ tab[t].mode = "code"
      BY <1>4, <2>2 DEF Exchange
    <3>2. \A p \in Tabs : /\ tab'[p].refreshing = tab[p].refreshing
                          /\ tab'[p].mode \in Away => tab[p].mode \in Away
      BY <3>1, TypesOK DEF Tab, Away
    <3> QED BY <3>1, <3>2, KeepsItself, SamePartsOK
  <2> QED BY <1>4, <2>1, <2>2 DEF Exchange
<1>5. ASSUME Callback(t)
      PROVE  FlightInv' /\ UNCHANGED <<leader, waiting>>
  <2>1. /\ tab[t].mode = "exchanged" /\ call' = Aged(call)
        /\ tab' = [tab EXCEPT ![t] = Loaded(jar')]
    BY <1>5 DEF Callback
  <2>2. \A q \in Slots : Keeps(call[q], call'[q]) /\ call'[q].tab = call[q].tab
    BY <2>1, AgedOK DEF Inv, Keeps
  <2>3. Loaded(jar') \in Tab /\ ~Loaded(jar').refreshing /\ Loaded(jar').mode = "up"
    BY LoadedOK DEF Loaded
  <2> QED BY <1>1, <2>1, <2>2, <2>3 DEF Away
<1>6. ASSUME EndSession(t)
      PROVE  FlightInv' /\ (Flight!Release(t) \/ UNCHANGED <<leader, waiting>>)
  <2>1. Loaded(NoCookies) \in Tab /\ ~Loaded(NoCookies).refreshing
    BY LoadedOK DEF Loaded
  <2> QED BY <1>6, <2>1, UnloadedLetsGo DEF EndSession
<1> QED BY <1>2, <1>3, <1>4, <1>5, <1>6 DEF SsoNext

LEMMA GiveUpFlight ==
    ASSUME SessionAssumption, Inv, FlightInv, NEW s \in Slots, GiveUp(s)
    PROVE  FlightInv' /\ UNCHANGED <<leader, waiting>>
<1> DEFINE c == call[s]
<1>0. call \in [Slots -> Call] /\ c \in Call
  BY TypesOK
<1>1. CASE c.at \in AtServer
  <2>1. Rejected(c) /\ call' = IF c.kind = "logout" THEN [call EXCEPT ![s].tab = None] ELSE Ended({s})
    BY <1>1 DEF GiveUp, AtServer, AtRefresh
  <2>2. Idle(c)
    BY <1>1 DEF Idle, AtServer, AtRefresh
  <2>3. CASE c.kind # "logout"
    BY <2>1, <2>2, <2>3, RejectedTabs, EndsOK
  <2>4. CASE c.kind = "logout"
    <3> DEFINE d == [c EXCEPT !.tab = None]
    <3>1. Idle(d) /\ d.tab = None /\ call' = [call EXCEPT ![s] = d]
      BY <1>0, <2>1, <2>2, <2>4 DEF Idle, Call
    <3> HIDE DEF d
    <3>2. NoneAway'
      <4>1. ASSUME NEW p \in Tabs, tab'[p].mode \in Away, NEW q \in Slots
            PROVE  call'[q].tab # p
        <5>1. call[q].tab # p /\ p # None
          BY <2>1, <4>1, RejectedTabs DEF FlightInv, NoneAway, SessionAssumption
        <5> QED BY <1>0, <3>1, <5>1
      <4> QED BY <4>1 DEF NoneAway
    <3> QED BY <1>0, <2>1, <2>2, <3>1, <3>2, RejectedTabs, OneIdleOK
  <2> QED BY <2>3, <2>4
<1>2. CASE c.at \notin AtServer
  <2> DEFINE d == [c EXCEPT !.at = "refFailed", !.family = None]
  <2>1. c.at \in AtRefresh /\ UNCHANGED tab /\ call' = [call EXCEPT ![s] = d]
    BY <1>2 DEF GiveUp
  <2>2. Keeps(c, d) /\ d.tab = c.tab
    BY <1>0, <2>1 DEF Keeps, Call, AtRefresh
  <2> HIDE DEF d
  <2> QED BY <1>0, <2>1, <2>2, KeepsItself, SamePartsOK
<1> QED BY <1>1, <1>2

-----------------------------------------------------------------------------
(* The refinement *)

LEMMA InitFlight == Init => FlightInv /\ Flight!Init
<1> SUFFICES ASSUME Init PROVE FlightInv /\ Flight!Init
  OBVIOUS
<1>1. \A t \in Tabs : Leader(t) = {} /\ Queue(t) = {}
  BY DEF Init, Free, Leader, Queue, AtRefresh
<1> QED BY <1>1, NewIdle DEF Init, Flight!Init, FlightInv, OneLeads, NoneAway, LostIdle, Away

LEMMA NextFlight ==
    ASSUME Inv, FlightInv, [Next]_vars
    PROVE  FlightInv' /\ [Flight!Next]_<<leader, waiting>>
<1>1. CASE UNCHANGED <<call, tab>>
  BY <1>1, KeepsItself, SamePartsOK
<1>2. CASE \E t \in Tabs : PageNext(t) \/ SsoNext(t)
  BY <1>2, SessionAssumption, PageFlight, SsoFlight DEF Flight!Next
<1>3. CASE \E s \in Slots : ReplyNext(s) \/ ServerNext(s) \/ GiveUp(s)
  <2>1. PICK s \in Slots : ReplyNext(s) \/ ServerNext(s) \/ GiveUp(s)
    BY <1>3
  <2>2. FlightInv' /\ FlightStep(s)
    BY <2>1, SessionAssumption, ReplyFlight, ServerFlight, GiveUpFlight DEF FlightStep
  <2> QED BY <2>2 DEF FlightStep, Flight!Next
<1>4. CASE \/ \E sid \in Sids : IdpLogout(sid) \/ Backchannel(sid)
           \/ Expire \/ CookiesEnd
  BY <1>1, <1>4 DEF IdpLogout, Backchannel, Expire, CookiesEnd
<1>5. CASE UNCHANGED vars
  BY <1>1, <1>5 DEF vars
<1> QED BY <1>2, <1>3, <1>4, <1>5 DEF Next

\* For any number of tabs and calls, isRefreshing and failedQueue implement a
\* single flight, as far as safety goes: of the calls of a page that meet a 401
\* one refreshes at a time, the others wait, and when its answer is there, or
\* the page goes, all of them are let go.
THEOREM FlightIsSingle == Spec => Flight!Safety
<1>1. Inv /\ FlightInv /\ [Next]_vars => FlightInv' /\ [Flight!Next]_(Flight!flight)
  BY NextFlight DEF Flight!flight, leader, waiting
<1> QED BY <1>1, InitFlight, AlwaysInv, PTL DEF Spec, Flight!Safety

-----------------------------------------------------------------------------
(* The silent login *)

\* What a step does to a page unless it brings a code: the page is not at the IdP,
\* stays where it is, or goes there because the visitor asks.
StaysHome(t) ==
    \/ tab'[t].mode \notin Away
    \/ tab'[t].mode = tab[t].mode
    \/ tab'[t].mode = "idp" /\ ~tab'[t].silent

\* A page that gives up a logout or a login.
LEMMA RejectedStaysHome ==
    ASSUME Inv, NEW c \in Call, Rejected(c), NEW t \in Tabs
    PROVE  StaysHome(t)
<1>0. tab \in [Tabs -> Tab]
  BY TypesOK
<1>1. CASE c.kind = "logout"
  <2>1. tab' = Gone(c.tab)
    BY <1>1 DEF Rejected, Logins
  <2> QED BY <1>0, <2>1 DEF Gone, Tab, Away, StaysHome
<1>2. CASE c.kind \in Logins
  <2>1. tab' = [tab EXCEPT ![c.tab].loading = FALSE]
    BY <1>2 DEF Rejected, Logins
  <2> QED BY <1>0, <2>1 DEF Tab, StaysHome
<1>3. CASE c.kind # "logout" /\ c.kind \notin Logins
  <2>1. tab' = tab
    BY <1>3 DEF Rejected
  <2> QED BY <2>1 DEF StaysHome
<1> QED BY <1>1, <1>2, <1>3

\* What a page does by itself.
LEMMA PageStaysHome ==
    ASSUME Inv, jar.silent, NEW t \in Tabs, PageNext(t), NEW p \in Tabs
    PROVE  StaysHome(p)
<1>0. tab \in [Tabs -> Tab]
  BY TypesOK
<1>1. ASSUME NEW s \in Slots, Send(s, t) \/ Renew(s, t) PROVE StaysHome(p)
  BY <1>1 DEF Send, Renew, StaysHome
<1>2. ASSUME NEW s \in Slots, Login(s, t) \/ GoogleLogin(s, t) PROVE StaysHome(p)
  <2>1. tab' = [tab EXCEPT ![t].loading = TRUE]
    BY <1>2 DEF Login, GoogleLogin, LoginCall
  <2> QED BY <1>0, <2>1 DEF Tab, StaysHome
<1>3. ASSUME NEW s \in Slots, Logout(s, t) PROVE StaysHome(p)
  <2> DEFINE known == jar.access # None
  <2>1. tab' = [tab EXCEPT ![t].auth = known] /\ tab[t].mode = "up"
    BY <1>3 DEF Logout, Up
  <2> HIDE DEF known
  <2> QED BY <1>0, <2>1 DEF Tab, Away, StaysHome
<1>4. ASSUME SsoLogout(t) PROVE StaysHome(p)
  BY <1>0, <1>4 DEF SsoLogout, Tab, StaysHome
<1>5. ASSUME Reload(t) PROVE StaysHome(p)
  BY <1>0, <1>5 DEF Reload, Loaded, Away, StaysHome
<1>6. ASSUME NEW silent \in BOOLEAN, BeginSso(t, silent) PROVE StaysHome(p)
  <2> DEFINE d == [Loaded(NoCookies) EXCEPT !.mode = "idp", !.silent = silent]
  <2>1. d.mode = "idp" /\ ~d.silent
    BY <1>6 DEF BeginSso, AsksSso, Loaded
  <2>2. tab' = [tab EXCEPT ![t] = d]
    BY <1>6 DEF BeginSso
  <2> HIDE DEF d
  <2> QED BY <1>0, <2>1, <2>2 DEF StaysHome
<1>7. ASSUME NEW silent \in BOOLEAN, SsoUnavailable(t, silent) PROVE StaysHome(p)
  BY <1>0, <1>7 DEF SsoUnavailable, Loaded, Away, StaysHome
<1> QED BY <1>1, <1>2, <1>3, <1>4, <1>5, <1>6, <1>7 DEF PageNext

\* What a reply does.
LEMMA ReplyStaysHome ==
    ASSUME SessionAssumption, Inv, NEW s \in Slots, ReplyNext(s), NEW p \in Tabs
    PROVE  StaysHome(p)
<1> DEFINE c == call[s]
<1>0. tab \in [Tabs -> Tab] /\ c \in Call /\ KindOK(c)
  BY TypesOK
<1> HIDE DEF c
<1>1. ASSUME tab' = Gone(c.tab) PROVE StaysHome(p)
  BY <1>0, <1>1 DEF Gone, Tab, Away, StaysHome
<1>2. ASSUME OnOk(s) PROVE StaysHome(p)
  <2>1. CASE c.kind \in Logins
    <3>1. tab' = [tab EXCEPT ![c.tab].auth = TRUE, ![c.tab].loading = FALSE]
      BY <1>2, <2>1 DEF OnOk, Logins, c
    <3> QED BY <1>0, <3>1 DEF Tab, StaysHome
  <2>2. CASE c.kind = "api"
    BY <1>2, <2>2 DEF OnOk, Logins, StaysHome, c
  <2>3. CASE c.kind = "logout"
    BY <1>1, <1>2, <2>3 DEF OnOk, Logins, c
  <2> QED BY <1>0, <1>2, <2>1, <2>2, <2>3 DEF OnOk, KindOK, Call, Logins, c
<1>3. ASSUME OnError(s) PROVE StaysHome(p)
  BY <1>0, <1>3, RejectedStaysHome DEF OnError, c
<1>4. ASSUME Enqueue(s) \/ Dropped(s) PROVE StaysHome(p)
  BY <1>4 DEF Enqueue, Dropped, StaysHome
<1>5. ASSUME BeginRefresh(s) \/ OnRefreshed(s) PROVE StaysHome(p)
  <2>1. PICK v : tab' = [tab EXCEPT ![c.tab].refreshing = v]
    BY <1>5 DEF BeginRefresh, OnRefreshed, c
  <2> QED BY <1>0, <2>1 DEF Tab, StaysHome
<1>6. ASSUME OnRefreshFailed(s) PROVE StaysHome(p)
  <2> DEFINE gone == Gone(c.tab)
  <2>1. gone \in [Tabs -> Tab] /\ (gone[p].mode \in Away => gone[p].mode = tab[p].mode)
    BY <1>0, GoneOK DEF Gone, Tab, Away
  <2>2. tab' = [gone EXCEPT ![c.tab].refreshing = FALSE]
    BY <1>6 DEF OnRefreshFailed, c
  <2> HIDE DEF gone
  <2> QED BY <2>1, <2>2 DEF Tab, StaysHome
<1>7. ASSUME OnRenewed(s) PROVE StaysHome(p)
  <2>1. UNCHANGED tab \/ tab' = [tab EXCEPT ![c.tab].auth = TRUE]
    BY <1>7 DEF OnRenewed, c
  <2> QED BY <1>0, <2>1 DEF Tab, StaysHome
<1> QED BY <1>2, <1>3, <1>4, <1>5, <1>6, <1>7 DEF ReplyNext

\* What the login at the IdP does.
LEMMA SsoStaysHome ==
    ASSUME Inv, idp' = {}, Vouched = {}, NEW t \in Tabs, SsoNext(t), NEW p \in Tabs
    PROVE  StaysHome(p)
<1>0. tab \in [Tabs -> Tab]
  BY TypesOK
<1>1. ASSUME NEW cookies, tab' = [tab EXCEPT ![t] = Loaded(cookies)] PROVE StaysHome(p)
  BY <1>0, <1>1 DEF Loaded, Away, StaysHome
<1>2. ASSUME NEW sid \in Sids, IdpAnswers(t, sid) PROVE FALSE
  BY <1>2 DEF IdpAnswers
<1>3. ASSUME Exchange(t) \/ Callback(t) \/ CallbackFails(t) PROVE FALSE
  BY <1>3 DEF Exchange, Callback, CallbackFails, Vouched
<1>4. ASSUME IdpRefuses(t) \/ EndSession(t) PROVE StaysHome(p)
  BY <1>1, <1>4 DEF IdpRefuses, EndSession
<1> QED BY <1>2, <1>3, <1>4 DEF SsoNext

\* All of them together.
LEMMA AllStayHome ==
    ASSUME SessionAssumption, Inv, jar.silent, idp' = {}, Vouched = {}, [Next]_vars
    PROVE  \A p \in Tabs : StaysHome(p)
<1>1. ASSUME NEW p \in Tabs PROVE StaysHome(p)
  <2>1. CASE UNCHANGED tab
    BY <2>1 DEF StaysHome
  <2>2. CASE \E t \in Tabs : PageNext(t) \/ SsoNext(t)
    BY <2>2, PageStaysHome, SsoStaysHome
  <2>3. ASSUME NEW s \in Slots, GiveUp(s) PROVE StaysHome(p)
    BY <2>1, <2>3, TypesOK, RejectedStaysHome DEF GiveUp
  <2>4. CASE \E s \in Slots : ReplyNext(s) \/ ServerNext(s) \/ GiveUp(s)
    BY <2>1, <2>3, <2>4, SessionAssumption, ReplyStaysHome DEF ServerNext, CheckBlacklist,
       CheckSession, Run, Refuse, Validate, Blacklist, RefreshSession, RefreshSign
  <2> QED BY <2>1, <2>2, <2>4 DEF Next, IdpLogout, Backchannel, Expire, CookiesEnd, vars
<1> QED BY <1>1

\* Only the callback of a login, or the end of a cookie, lets go of sso_silent.
LEMMA SilentStep ==
    ASSUME Inv, Vouched = {}, ~CookiesEnd, [Next]_vars, jar.silent
    PROVE  jar'.silent
<1> SUFFICES ASSUME ~jar'.silent PROVE FALSE
  OBVIOUS
<1>0. jar \in Jar /\ tab \in [Tabs -> Tab]
  BY TypesOK DEF Inv, JarOK
<1>1. ASSUME NEW cookies \in Jar, NEW family
      PROVE  /\ SetToken(cookies, family).silent = cookies.silent
             /\ RemoveToken(cookies).silent = cookies.silent
  BY DEF SetToken, RemoveToken, Jar
<1>2. ASSUME NEW t \in Tabs, PageNext(t) PROVE FALSE
  <2>1. CASE \E silent \in BOOLEAN : BeginSso(t, silent)
    BY <1>0, <2>1 DEF BeginSso, Jar
  <2> QED BY <1>0, <1>1, <1>2, <2>1 DEF PageNext, Send, Login, GoogleLogin, LoginCall, Logout, Renew,
       SsoLogout, Reload, SsoUnavailable, Jar
<1>3. ASSUME NEW s \in Slots, ReplyNext(s) PROVE FALSE
  <2> DEFINE c == call[s]
  <2>1. ASSUME OnOk(s) PROVE FALSE
    <3>1. CASE c.kind \in Logins
      <4> DEFINE cookies == [jar EXCEPT !.refresh = Own, !.csrf = TRUE]
      <4>1. cookies \in Jar /\ cookies.silent = jar.silent
        BY <1>0, OwnOK DEF Jar
      <4>2. jar' = SetToken(cookies, Own)
        BY <2>1, <3>1 DEF OnOk, Logins
      <4> HIDE DEF cookies
      <4> QED BY <1>1, <4>1, <4>2
    <3>2. CASE c.kind = "api"
      BY <2>1, <3>2 DEF OnOk, Logins
    <3>3. CASE c.kind = "logout"
      <4> DEFINE cookies == [jar EXCEPT !.refresh = None, !.csrf = FALSE]
      <4>1. cookies \in Jar /\ cookies.silent = jar.silent
        BY <1>0 DEF Jar
      <4>2. jar' = RemoveToken(cookies)
        BY <2>1, <3>3 DEF OnOk, Logins
      <4> HIDE DEF cookies
      <4> QED BY <1>1, <4>1, <4>2
    <3> QED BY <2>1, <3>1, <3>2, <3>3, TypesOK DEF OnOk, KindOK, Call, Logins
  <2>2. ASSUME OnRefreshed(s) \/ OnRenewed(s) PROVE FALSE
    <3> DEFINE cookies == [jar EXCEPT !.refresh = c.family]
    <3>1. c.family \in Family \cup {None}
      BY TypesOK DEF Call
    <3>2. cookies \in Jar /\ cookies.silent = jar.silent
      BY <1>0, <3>1 DEF Jar
    <3>3. jar' = jar \/ jar' = SetToken(cookies, c.family)
      BY <2>2 DEF OnRefreshed, OnRenewed
    <3> HIDE DEF cookies
    <3> QED BY <1>1, <3>2, <3>3
  <2>3. ASSUME OnError(s) PROVE FALSE
    BY <1>0, <1>1, <2>3 DEF OnError, Rejected
  <2>4. ASSUME OnRefreshFailed(s) PROVE FALSE
    BY <1>0, <1>1, <2>4 DEF OnRefreshFailed
  <2>5. ASSUME Enqueue(s) \/ BeginRefresh(s) \/ Dropped(s) PROVE FALSE
    BY <2>5 DEF Enqueue, BeginRefresh, Dropped
  <2> QED BY <1>3, <2>1, <2>2, <2>3, <2>4, <2>5 DEF ReplyNext
<1>4. ASSUME NEW s \in Slots, ServerNext(s) PROVE FALSE
  <2>1. jar'.silent = jar.silent
    BY <1>0, <1>4 DEF Jar, ServerNext, CheckBlacklist, CheckSession, Run, Refuse, Validate, Blacklist,
       RefreshSession, RefreshSign
  <2> QED BY <2>1
<1>5. ASSUME NEW s \in Slots, GiveUp(s) PROVE FALSE
  BY <1>0, <1>1, <1>5 DEF GiveUp, Rejected
<1>6. ASSUME NEW t \in Tabs, SsoNext(t) PROVE FALSE
  <2>1. CASE Callback(t) \/ CallbackFails(t)
    BY <2>1 DEF Callback, CallbackFails, Vouched
  <2>2. CASE EndSession(t)
    <3> DEFINE cookies == [jar EXCEPT !.refresh = None, !.csrf = FALSE, !.id = None]
    <3>1. cookies \in Jar /\ cookies.silent = jar.silent
      BY <1>0 DEF Jar
    <3>2. jar' = RemoveToken(cookies)
      BY <2>2 DEF EndSession
    <3> HIDE DEF cookies
    <3> QED BY <1>1, <3>1, <3>2
  <2>3. CASE IdpRefuses(t)
    BY <1>0, <2>3 DEF IdpRefuses, Jar
  <2>4. CASE Exchange(t) \/ \E sid \in Sids : IdpAnswers(t, sid)
    BY <2>4 DEF Exchange, IdpAnswers
  <2> QED BY <1>6, <2>1, <2>2, <2>3, <2>4 DEF SsoNext
<1>7. CASE CookiesEnd
  BY <1>7
<1>8. CASE Expire \/ UNCHANGED vars \/ \E sid \in Sids : IdpLogout(sid) \/ Backchannel(sid)
  BY <1>0, <1>8 DEF Expire, IdpLogout, Backchannel, vars, Jar
<1> QED BY <1>2, <1>3, <1>4, <1>5, <1>6, <1>7, <1>8 DEF Next

\* For any number of tabs, calls and sessions: while the IdP has no session, and
\* no page comes back from it with a code, sso_silent stays until its time is over,
\* whatever is refused, logged out, refreshed or loaded again, and no page goes to
\* the IdP by itself.
THEOREM SilentAttemptRests == Spec => SilentRests
<1>1. Inv /\ [Next]_vars
      => [jar.silent /\ idp = {} /\ idp' = {} /\ Vouched = {} /\ ~CookiesEnd
            => /\ jar'.silent /\ Vouched' = {}
               /\ \A t \in Tabs : tab'[t].mode = "idp" /\ tab'[t].silent => tab[t].mode = "idp"]_vars
  <2> SUFFICES ASSUME Inv, [Next]_vars,
                      jar.silent, idp = {}, idp' = {}, Vouched = {}, ~CookiesEnd
               PROVE  /\ jar'.silent /\ Vouched' = {}
                      /\ \A t \in Tabs : tab'[t].mode = "idp" /\ tab'[t].silent => tab[t].mode = "idp"
    OBVIOUS
  <2>1. jar'.silent
    BY SilentStep
  <2>2. \A t \in Tabs : StaysHome(t)
    BY SessionAssumption, AllStayHome
  <2>3. Vouched' = {}
    BY <2>2 DEF Vouched, StaysHome, Away
  <2>4. \A t \in Tabs : tab'[t].mode = "idp" /\ tab'[t].silent => tab[t].mode = "idp"
    BY <2>2 DEF StaysHome, Away
  <2> QED BY <2>1, <2>3, <2>4
<1> QED BY <1>1, AlwaysInv, PTL DEF Spec, SilentRests
=============================================================================
