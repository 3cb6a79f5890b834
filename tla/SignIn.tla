------------------------------- MODULE SignIn -------------------------------
(***************************************************************************)
(* The tabs of one browser, which sign in, call the API and sign out.  An  *)
(* access token lives in the memory of a tab for a quarter of an hour.  A  *)
(* refresh token lives in a cookie that all tabs share, and so do the name *)
(* of the way of signing in (local storage) and the session with Magic.    *)
(* Requests reach the server, are served there, and are answered, as steps *)
(* of their own; any of them may fail on the way.                          *)
(***************************************************************************)
EXTENDS Naturals, Sequences

CONSTANTS Tabs,
          Members,   \* who has a row in users
          Admin,     \* the platform's administrator, who has none
          NoOne,
          MaxGrants  \* bound on the refresh tokens issued

ASSUME NobodyAssumption == Admin \notin Members /\ NoOne \notin Members \cup {Admin}
ASSUME MaxGrantsAssumption == MaxGrants \in Nat

VARIABLES
    grants,   \* grants[n]: whose the n-th refresh token is
    revoked,  \* rt:blacklist, the tokens signed out
    browser,  \* what tabs share: the cookie, the stored method, whom Magic knows
    tab       \* tab[t]: token, user shown, method, its sign-in or sign-out, its call

signVars == <<grants, revoked, browser, tab>>

People == Members \cup {Admin}
Methods == {"magic", "web3", "none"}
NoCookie == 0
Cookies == 0..MaxGrants

NoToken == [of |-> NoOne, fresh |-> FALSE]
NewToken(p) == [of |-> p, fresh |-> TRUE]
AccessTokens == [of : People \cup {NoOne}, fresh : BOOLEAN]

\* Ways in: the page load that finds a session of Magic, the one that tries the
\* cookie, the one-time code, the registration with it, a wallet, the admin form.
Ways == {"reload", "cookie", "magic", "signup", "web3", "admin"}

AtRest == [step |-> "none"]
Gates == {AtRest}
         \cup [step : {"posted", "granted", "profile"}, way : Ways, who : People,
               cookie : Cookies]
         \cup [step : {"restoring"}, cookie : Cookies]
         \cup [step : {"restored"}, who : People \cup {NoOne}]
         \cup [step : {"leaving", "left"}, cookie : Cookies]
ApiCalls == {AtRest}
         \cup [step : {"sent"}, token : AccessTokens, again : BOOLEAN]
         \cup [step : {"refreshing"}, cookie : Cookies]
         \cup [step : {"refreshed"}, who : People \cup {NoOne}]

Blank == [token |-> NoToken, shown |-> NoOne, method |-> "none",
          gate |-> AtRest, call |-> AtRest]

SignTypeOK ==
    /\ grants \in Seq(People) /\ Len(grants) <= MaxGrants
    /\ revoked \subseteq 1..MaxGrants
    /\ browser \in [cookie : Cookies, method : Methods, magic : Members \cup {NoOne}]
    /\ tab \in [Tabs -> [token : AccessTokens, shown : People \cup {NoOne},
                         method : Methods, gate : Gates, call : ApiCalls]]

SignInit ==
    /\ grants = <<>> /\ revoked = {}
    /\ browser = [cookie |-> NoCookie, method |-> "none", magic |-> NoOne]
    /\ tab = [t \in Tabs |-> Blank]

-----------------------------------------------------------------------------
\* The server.

\* POST /v1/auth/refresh: a refresh token that is not revoked, of a user who has
\* a row.
Refreshed(cookie) ==
    IF cookie # NoCookie /\ cookie \notin revoked /\ grants[cookie] \in Members
    THEN grants[cookie] ELSE NoOne

\* get_current_user, as far as the token goes.
Accepted(token) == token.fresh

-----------------------------------------------------------------------------
\* Entering.

AtGate(t, step) == tab[t].gate.step = step
Posted(way, p) == [step |-> "posted", way |-> way, who |-> p, cookie |-> NoCookie]

\* What the provider's catch and the session-expired listener leave of a tab.
SignedOff(t) == [tab[t] EXCEPT !.token = NoToken, !.shown = NoOne, !.method = "none"]

\* The page is loaded: nothing of the tab's memory is left.  The session with
\* Magic is taken up unless another method is stored, otherwise the cookie is tried.
LoadPage(t) ==
    /\ AtGate(t, "none")
    /\ tab' = [tab EXCEPT ![t] = [Blank EXCEPT !.gate =
           IF browser.method # "web3" /\ browser.magic # NoOne
           THEN Posted("reload", browser.magic)
           ELSE [step |-> "restoring", cookie |-> browser.cookie]]]
    /\ UNCHANGED <<grants, revoked, browser>>

\* The login page, shown to nobody else, sends one of its forms.
SendForm(t, way, p) ==
    /\ AtGate(t, "none") /\ tab[t].shown = NoOne
    /\ way \in {"magic", "signup", "web3"} <=> p \in Members
    /\ way \in {"magic", "signup", "web3", "admin"}
    /\ tab' = [tab EXCEPT ![t].gate = Posted(way, p)]
    /\ browser' = IF way \in {"magic", "signup"} THEN [browser EXCEPT !.magic = p]
                  ELSE browser
    /\ UNCHANGED <<grants, revoked>>

\* The server accepts the sign-in and issues its pair of tokens.
Grant(t) ==
    /\ AtGate(t, "posted") /\ Len(grants) < MaxGrants
    /\ grants' = Append(grants, tab[t].gate.who)
    /\ tab' = [tab EXCEPT ![t].gate.step = "granted",
                          ![t].gate.cookie = Len(grants) + 1]
    /\ UNCHANGED <<revoked, browser>>

StoredMethod(way) == CASE way \in {"reload", "magic", "signup"} -> "magic"
                       [] way = "web3" -> "web3"
                       [] way = "admin" -> "none"

\* The answer: cookie, access token and method are kept, the profile is asked for.
Enter(t) ==
    LET g == tab[t].gate
        method == StoredMethod(g.way)
    IN  /\ AtGate(t, "granted")
        /\ browser' = [browser EXCEPT !.cookie = g.cookie, !.method = method]
        /\ tab' = [tab EXCEPT ![t].token = NewToken(g.who), ![t].method = method,
                              ![t].gate.step = "profile"]
        /\ UNCHANGED <<grants, revoked>>

\* GET /v1/auth/me: the page shows the user.
ShowProfile(t) ==
    /\ AtGate(t, "profile")
    /\ tab' = [tab EXCEPT ![t].shown = tab[t].gate.who, ![t].gate = AtRest]
    /\ UNCHANGED <<grants, revoked, browser>>

\* The sign-in, or the profile after it, fails.  The login by code ends the session
\* with Magic, a page load everything there is, the others nothing.
FailToEnter(t) ==
    LET way == tab[t].gate.way
    IN  /\ tab[t].gate.step \in {"posted", "granted", "profile"}
        /\ browser' = CASE way \in {"reload", "cookie"} ->
                             [browser EXCEPT !.method = "none", !.magic = NoOne]
                        [] way = "magic" -> [browser EXCEPT !.magic = NoOne]
                        [] OTHER -> browser
        /\ tab' = [tab EXCEPT ![t] =
               [(IF way \in {"reload", "cookie"} THEN SignedOff(t) ELSE tab[t])
                   EXCEPT !.gate = AtRest]]
        /\ UNCHANGED <<grants, revoked>>

\* The server answers the refresh of a page load.
Restore(t) ==
    /\ AtGate(t, "restoring")
    /\ tab' = [tab EXCEPT ![t].gate = [step |-> "restored",
                                       who |-> Refreshed(tab[t].gate.cookie)]]
    /\ UNCHANGED <<grants, revoked, browser>>

\* The page is restored with the method as it is stored, or signed off where the
\* refresh was refused or lost.
Restored(t) ==
    LET p == tab[t].gate.who
    IN  /\ AtGate(t, "restored")
        /\ \/ /\ p # NoOne
              /\ tab' = [tab EXCEPT ![t].token = NewToken(p), ![t].method = browser.method,
                     ![t].gate = [step |-> "profile", way |-> "cookie", who |-> p,
                                  cookie |-> NoCookie]]
              /\ UNCHANGED browser
           \/ /\ tab' = [tab EXCEPT ![t] = [SignedOff(t) EXCEPT !.gate = AtRest]]
              /\ browser' = [browser EXCEPT !.method = "none", !.magic = NoOne]
        /\ UNCHANGED <<grants, revoked>>

-----------------------------------------------------------------------------
\* Leaving.

\* logout() ends the session with Magic, if that is how the user came in and the
\* request gets through, and posts /v1/auth/logout.
Leave(t) ==
    /\ AtGate(t, "none") /\ tab[t].shown # NoOne
    /\ tab' = [tab EXCEPT ![t].gate = [step |-> "leaving", cookie |-> browser.cookie]]
    /\ \/ tab[t].method # "web3" /\ browser' = [browser EXCEPT !.magic = NoOne]
       \/ UNCHANGED browser
    /\ UNCHANGED <<grants, revoked>>

\* The server puts the refresh token on the blacklist.
Revoke(t) ==
    LET cookie == tab[t].gate.cookie
    IN  /\ AtGate(t, "leaving")
        /\ revoked' = IF cookie = NoCookie THEN revoked ELSE revoked \cup {cookie}
        /\ tab' = [tab EXCEPT ![t].gate.step = "left"]
        /\ UNCHANGED <<grants, browser>>

\* The tab forgets the user.  The answer, when there is one, also deletes the
\* cookie, whichever it has become.
Forget(t) ==
    /\ tab[t].gate.step \in {"leaving", "left"}
    /\ tab' = [tab EXCEPT ![t] = [SignedOff(t) EXCEPT !.gate = AtRest]]
    /\ \/ /\ AtGate(t, "left")
          /\ browser' = [browser EXCEPT !.cookie = NoCookie, !.method = "none"]
       \/ browser' = [browser EXCEPT !.method = "none"]
    /\ UNCHANGED <<grants, revoked>>

-----------------------------------------------------------------------------
\* Calls of the API, under the interceptor of 401.

InCall(t, step) == tab[t].call.step = step
SentCall(token, again) == [step |-> "sent", token |-> token, again |-> again]

\* A page of a signed-in user polls.
SendCall(t) ==
    /\ InCall(t, "none") /\ tab[t].shown # NoOne
    /\ tab' = [tab EXCEPT ![t].call = SentCall(tab[t].token, FALSE)]
    /\ UNCHANGED <<grants, revoked, browser>>

\* The call is answered.  A first 401 is followed by a refresh, with the cookie
\* there is by then; a second one is final.
AnswerCall(t) ==
    LET c == tab[t].call
    IN  /\ InCall(t, "sent")
        /\ tab' = [tab EXCEPT ![t].call =
               IF Accepted(c.token) \/ c.again THEN AtRest
               ELSE [step |-> "refreshing", cookie |-> browser.cookie]]
        /\ UNCHANGED <<grants, revoked, browser>>

\* The server answers the refresh.
Refresh(t) ==
    /\ InCall(t, "refreshing")
    /\ tab' = [tab EXCEPT ![t].call = [step |-> "refreshed",
                                       who |-> Refreshed(tab[t].call.cookie)]]
    /\ UNCHANGED <<grants, revoked, browser>>

\* Mutant: a refused refresh fails the call, and the tab goes on.
KeepAfterRefusal(t) ==
    LET p == tab[t].call.who
    IN  /\ InCall(t, "refreshed")
        /\ tab' = IF p # NoOne
                  THEN [tab EXCEPT ![t].token = NewToken(p),
                                   ![t].call = SentCall(NewToken(p), TRUE)]
                  ELSE [tab EXCEPT ![t].call = AtRest]
        /\ UNCHANGED <<grants, revoked, browser>>

\* The call is sent again with the new token, whoever is shown by now; or the
\* refresh was refused or lost, and the tab signs off.
UseRefreshed(t) ==
    LET p == tab[t].call.who
    IN  /\ InCall(t, "refreshed")
        /\ \/ /\ p # NoOne
              /\ tab' = [tab EXCEPT ![t].token = NewToken(p),
                                    ![t].call = SentCall(NewToken(p), TRUE)]
              /\ UNCHANGED browser
           \/ /\ tab' = [tab EXCEPT ![t] = [SignedOff(t) EXCEPT !.call = AtRest]]
              /\ browser' = [browser EXCEPT !.method = "none"]
        /\ UNCHANGED <<grants, revoked>>

\* The access token of a tab has had its quarter of an hour.
TokenExpires(t) ==
    /\ tab[t].token.fresh
    /\ tab' = [tab EXCEPT ![t].token.fresh = FALSE,
           ![t].call = IF @.step = "sent" THEN [@ EXCEPT !.token.fresh = FALSE] ELSE @]
    /\ UNCHANGED <<grants, revoked, browser>>

-----------------------------------------------------------------------------
\* What a tab does of itself, once it has begun.
GateStep(t) ==
    Grant(t) \/ Enter(t) \/ ShowProfile(t) \/ FailToEnter(t) \/ Restore(t)
    \/ Restored(t) \/ Revoke(t) \/ Forget(t)
CallStep(t) == AnswerCall(t) \/ Refresh(t) \/ UseRefreshed(t)

SignNext ==
    \E t \in Tabs :
        \/ GateStep(t) \/ CallStep(t)
        \/ LoadPage(t) \/ Leave(t) \/ SendCall(t) \/ TokenExpires(t)
        \/ \E way \in Ways, p \in People : SendForm(t, way, p)

\* Pages poll, their calls are answered or fail in the end, and tokens expire.
SignFairness ==
    \A t \in Tabs : WF_signVars(SendCall(t) \/ CallStep(t)) /\ WF_signVars(TokenExpires(t))

SignSpec == SignInit /\ [][SignNext]_signVars /\ SignFairness

-----------------------------------------------------------------------------
\* Nothing is left that could sign a tab in, and nobody is about to sign in.
Entering(t) == tab[t].gate.step \in {"posted", "granted"}
AllSignedOut ==
    /\ Refreshed(browser.cookie) = NoOne
    /\ browser.magic = NoOne
    /\ \A t \in Tabs : ~Entering(t)

\* Signing out is for all tabs: once the refresh token is revoked or gone and
\* Magic has no session, no tab goes on with a user or a good token, unless
\* somebody signs in (blacklist, expiry of access tokens, session-expired).
SignOutReachesAll ==
    AllSignedOut ~> \/ ~AllSignedOut
                    \/ \A t \in Tabs : tab[t].shown = NoOne /\ ~tab[t].token.fresh
=============================================================================
