------------------------------ MODULE Sessions ------------------------------
(***************************************************************************)
(* Access and refresh tokens: auth.service.ts over the refresh_tokens      *)
(* table, and the browser of one user: the interceptors of client.ts in    *)
(* each tab, the localStorage the tabs share, LoginPage.tsx and the        *)
(* logout of Navbar.tsx.                                                   *)
(*                                                                         *)
(* Access and refresh tokens are issued in pairs, numbered as they are     *)
(* issued: n stands for both tokens of the n-th pair (jwt.ts makes every   *)
(* token different), 0 for none.                                           *)
(***************************************************************************)
EXTENDS Naturals, Sequences

CONSTANTS
    Tabs,
    Calls,     \* API calls in progress at once
    TabOf,     \* the tab each of them is sent from
    FormTabs,  \* the tabs in which the user logs in and out
    Nobody,    \* not a tab
    MaxTokens  \* bound: pairs from this number on do not expire, and no login or
               \*   logout is sent once they are issued

SessionConstants ==
    /\ TabOf \in [Calls -> Tabs]
    /\ FormTabs \subseteq Tabs
    /\ Nobody \notin Tabs

VARIABLES
    account,  \* DB: the user is registered
    rows,     \* DB: the refresh tokens in refresh_tokens
    issued,   \* how many pairs were issued
    lapsed,   \* the pairs whose access token has expired
    store,    \* localStorage: the pair the tabs hold
    place,    \* each tab: at the login page or in the application
    call,     \* the API calls of the tabs
    refresh,  \* each tab: the refresh in progress (isRefreshing), if any
    login,    \* each tab: the form of the login page
    logout,   \* each tab: the logout in progress
    from,     \* history: the token that was exchanged for each pair
    taker     \* history: the tab whose refresh deleted each token's row

server == <<account, rows, issued, lapsed, from, taker>>
tabs == <<place, call, refresh, login, logout>>
sessionVars ==
    <<account, rows, issued, lapsed, store, place, call, refresh, login, logout, from, taker>>

-----------------------------------------------------------------------------
\* retried: the call has been sent once before (_retry).
NoCall == [pc |-> "idle", token |-> 0, retried |-> FALSE]
CallState == [pc : {"idle", "sent", "rejected", "leading", "waiting"}, token : Nat,
              retried : BOOLEAN]

NoRefresh == [pc |-> "idle", token |-> 0]
RefreshState == [pc : {"idle", "find", "delete", "create", "granted", "refused"}, token : Nat]

LoginState == {"idle", "register", "login", "granted"}

NoLogout == [pc |-> "idle", token |-> 0]
LogoutState == [pc : {"idle", "find", "delete", "waiting", "answered"}, token : Nat]

SessionTypeOK ==
    /\ account \in BOOLEAN
    /\ rows \subseteq 1..issued
    /\ issued \in Nat
    /\ lapsed \subseteq 1..issued
    /\ store \in 0..issued
    /\ place \in [Tabs -> {"login", "app"}]
    /\ call \in [Calls -> CallState]
    /\ refresh \in [Tabs -> RefreshState]
    /\ login \in [Tabs -> [pc : LoginState, token : Nat]]
    /\ logout \in [Tabs -> LogoutState]
    /\ from \in [1..issued -> Nat]
    /\ taker \in [1..issued -> Tabs \cup {Nobody}]

NoLogin == [pc |-> "idle", token |-> 0]

SessionInit ==
    /\ account = FALSE
    /\ rows = {}
    /\ issued = 0
    /\ lapsed = {}
    /\ store = 0
    /\ place = [t \in Tabs |-> "login"]
    /\ call = [c \in Calls |-> NoCall]
    /\ refresh = [t \in Tabs |-> NoRefresh]
    /\ login = [t \in Tabs |-> NoLogin]
    /\ logout = [t \in Tabs |-> NoLogout]
    /\ from = <<>>
    /\ taker = <<>>

-----------------------------------------------------------------------------
(* The server: tokens.                                                     *)

\* signAccessToken, signRefreshToken and createRefreshToken.
Issue(old) ==
    /\ issued' = issued + 1
    /\ rows' = rows \cup {issued'}
    /\ from' = Append(from, old)
    /\ taker' = Append(taker, Nobody)

\* deleteRefreshTokenByRaw throws if the row is not there.
Delete(n, t) ==
    /\ n \in rows
    /\ rows' = rows \ {n}
    /\ taker' = [taker EXCEPT ![n] = t]

AccessExpires(n) ==
    /\ n \in (1..issued) \ lapsed /\ n < MaxTokens
    /\ lapsed' = lapsed \cup {n}
    /\ UNCHANGED <<account, rows, issued, store, tabs, from, taker>>

\* After 7 days the token is refused, whether its row is there or not.
RefreshExpires(n) ==
    /\ n \in rows /\ n < MaxTokens
    /\ rows' = rows \ {n}
    /\ lapsed' = lapsed \cup {n}
    /\ UNCHANGED <<account, issued, store, tabs, from, taker>>

-----------------------------------------------------------------------------
(* The interceptors of client.ts.                                          *)

Set(c, s) == call' = [call EXCEPT ![c] = s]

CallTo(c, pc) == call' = [call EXCEPT ![c].pc = pc]

\* A call takes along the token the localStorage holds.
CallSend(c) ==
    /\ place[TabOf[c]] = "app"
    /\ call[c] = NoCall
    /\ Set(c, [pc |-> "sent", token |-> store, retried |-> FALSE])
    /\ UNCHANGED <<server, store, place, refresh, login, logout>>

\* requireAuth
CallServe(c) ==
    /\ call[c].pc = "sent"
    /\ IF call[c].token \in (1..issued) \ lapsed THEN Set(c, NoCall) ELSE CallTo(c, "rejected")
    /\ UNCHANGED <<server, store, place, refresh, login, logout>>

Refreshing(t) == refresh[t].pc # "idle"

\* The tab reads the refresh token and sends it; without one it gives up.
BeginRefresh(t) ==
    refresh' = [refresh EXCEPT ![t] = [pc |-> IF store = 0 THEN "refused" ELSE "find",
                                       token |-> store]]

\* Mutant of CallRejected: isRefreshing is not looked at.
CallRejected_Alone(c) ==
    /\ call[c].pc = "rejected"
    /\ IF call[c].retried
         THEN Set(c, NoCall) /\ UNCHANGED refresh
         ELSE CallTo(c, "leading") /\ BeginRefresh(TabOf[c])
    /\ UNCHANGED <<server, store, place, login, logout>>

\* A 401: the second one is the caller's, the first one leads to a refresh.
CallRejected(c) ==
    /\ call[c].pc = "rejected"
    /\ IF call[c].retried
         THEN Set(c, NoCall) /\ UNCHANGED refresh
         ELSE IF Refreshing(TabOf[c])
         THEN CallTo(c, "waiting") /\ UNCHANGED refresh
         ELSE CallTo(c, "leading") /\ BeginRefresh(TabOf[c])
    /\ UNCHANGED <<server, store, place, login, logout>>

RefreshTo(t, pc) == refresh' = [refresh EXCEPT ![t].pc = pc]

RefreshFind(t) ==
    /\ refresh[t].pc = "find"
    /\ RefreshTo(t, IF refresh[t].token \in rows THEN "delete" ELSE "refused")
    /\ UNCHANGED <<server, store, place, call, login, logout>>

\* Mutant of RefreshDelete: deleting a row that is gone is no error.
RefreshDelete_Many(t) ==
    /\ refresh[t].pc = "delete"
    /\ rows' = rows \ {refresh[t].token}
    /\ taker' = [taker EXCEPT ![refresh[t].token] = t]
    /\ RefreshTo(t, "create")
    /\ UNCHANGED <<account, issued, lapsed, from, store, place, call, login, logout>>

\* The rotation's first half.
RefreshDelete(t) ==
    /\ refresh[t].pc = "delete"
    /\ \/ Delete(refresh[t].token, t) /\ RefreshTo(t, "create")
       \/ refresh[t].token \notin rows /\ RefreshTo(t, "refused") /\ UNCHANGED <<rows, taker>>
    /\ UNCHANGED <<account, issued, lapsed, from, store, place, call, login, logout>>

RefreshCreate(t) ==
    /\ refresh[t].pc = "create"
    /\ Issue(refresh[t].token)
    /\ refresh' = [refresh EXCEPT ![t] = [pc |-> "granted", token |-> issued']]
    /\ UNCHANGED <<account, lapsed, store, place, call, login, logout>>

\* The call to refresh fails or is not answered.
RefreshFails(t) ==
    /\ refresh[t].pc \in {"find", "delete", "create", "granted"}
    /\ RefreshTo(t, "refused")
    /\ UNCHANGED <<server, store, place, call, login, logout>>

\* Mutant of RefreshGranted: only the call that led is sent again.
RefreshGranted_Leader(t) ==
    LET n == refresh[t].token IN
    /\ refresh[t].pc = "granted"
    /\ store' = n
    /\ call' = [c \in Calls |-> IF TabOf[c] = t /\ call[c].pc = "leading"
                                THEN [pc |-> "sent", token |-> n, retried |-> TRUE] ELSE call[c]]
    /\ refresh' = [refresh EXCEPT ![t] = NoRefresh]
    /\ logout' = IF logout[t].pc = "waiting" THEN [logout EXCEPT ![t].pc = "answered"] ELSE logout
    /\ UNCHANGED <<server, place, login>>

\* The pair is stored, and every call that waited is sent again.  A
\* logout is refused again.
RefreshGranted(t) ==
    LET n == refresh[t].token IN
    /\ refresh[t].pc = "granted"
    /\ store' = n
    /\ call' = [c \in Calls |-> IF TabOf[c] = t /\ call[c].pc \in {"leading", "waiting"}
                                THEN [pc |-> "sent", token |-> n, retried |-> TRUE] ELSE call[c]]
    /\ refresh' = [refresh EXCEPT ![t] = NoRefresh]
    /\ logout' = IF logout[t].pc = "waiting" THEN [logout EXCEPT ![t].pc = "answered"] ELSE logout
    /\ UNCHANGED <<server, place, login>>

\* A page that is loaded anew forgets its calls.
Load(t) ==
    /\ place' = [place EXCEPT ![t] = "login"]
    /\ call' = [c \in Calls |-> IF TabOf[c] = t THEN NoCall ELSE call[c]]
    /\ refresh' = [refresh EXCEPT ![t] = NoRefresh]
    /\ login' = [login EXCEPT ![t] = NoLogin]
    /\ logout' = [logout EXCEPT ![t] = NoLogout]

\* Both tokens are removed, whoever stored them, and the login page is loaded.
RefreshRefused(t) ==
    /\ refresh[t].pc = "refused"
    /\ store' = 0
    /\ Load(t)
    /\ UNCHANGED server

-----------------------------------------------------------------------------
(* LoginPage.tsx and Navbar.tsx.                                           *)

\* Tab t renders the login page while a token is stored, or the application.
Enter(t) ==
    /\ place[t] = "login" /\ store # 0
    /\ place' = [place EXCEPT ![t] = "app"]
    /\ login' = [login EXCEPT ![t] = NoLogin]
    /\ UNCHANGED <<server, store, call, refresh, logout>>

LoginTo(t, pc) == login' = [login EXCEPT ![t].pc = pc]

\* handleLoginSubmit, handleSignupSubmit; the button is disabled meanwhile.
Submit(t) ==
    /\ place[t] = "login" /\ login[t] = NoLogin /\ issued < MaxTokens
    /\ LoginTo(t, "login") \/ LoginTo(t, "register")
    /\ UNCHANGED <<server, store, place, call, refresh, logout>>

\* register: the email is not in use; a login follows.
Register(t) ==
    /\ login[t].pc = "register"
    /\ LoginTo(t, IF account THEN "idle" ELSE "login")
    /\ account' = TRUE
    /\ UNCHANGED <<rows, issued, lapsed, from, taker, store, place, call, refresh, logout>>

LoginServe(t) ==
    /\ login[t].pc = "login" /\ account
    /\ Issue(0)
    /\ login' = [login EXCEPT ![t] = [pc |-> "granted", token |-> issued']]
    /\ UNCHANGED <<account, lapsed, store, place, call, refresh, logout>>

\* Unknown email or wrong password: the 401 goes through the interceptor too,
\* which loads the page anew or spends the token another tab has stored.
LoginRefused(t) ==
    /\ login[t].pc = "login"
    /\ login' = [login EXCEPT ![t] = NoLogin]
    /\ IF Refreshing(t) THEN UNCHANGED refresh ELSE BeginRefresh(t)
    /\ UNCHANGED <<server, store, place, call, logout>>

LoginAnswer(t) ==
    /\ login[t].pc = "granted"
    /\ store' = login[t].token
    /\ login' = [login EXCEPT ![t] = NoLogin]
    /\ place' = [place EXCEPT ![t] = "app"]
    /\ UNCHANGED <<server, call, refresh, logout>>

\* handleLogout sends the refresh token the localStorage holds.
LogoutSend(t) ==
    /\ place[t] = "app" /\ logout[t] = NoLogout /\ issued < MaxTokens
    /\ logout' = [logout EXCEPT ![t] = [pc |-> "find", token |-> store]]
    /\ UNCHANGED <<server, store, place, call, refresh, login>>

LogoutTo(t, pc) == logout' = [logout EXCEPT ![t].pc = pc]

\* The 401 of a token that is not found goes through the interceptor too.
LogoutFind(t) ==
    LET n == logout[t].token IN
    /\ logout[t].pc = "find"
    /\ IF n \in rows \cup {0}
         THEN LogoutTo(t, IF n = 0 THEN "answered" ELSE "delete") /\ UNCHANGED refresh
         ELSE /\ LogoutTo(t, "waiting")
              /\ IF Refreshing(t) THEN UNCHANGED refresh ELSE BeginRefresh(t)
    /\ UNCHANGED <<server, store, place, call, login>>

\* Any other error of the logout is ignored.
LogoutDelete(t) ==
    /\ logout[t].pc = "delete"
    /\ LogoutTo(t, "answered")
    /\ Delete(logout[t].token, Nobody) \/ UNCHANGED <<rows, taker>>
    /\ UNCHANGED <<account, issued, lapsed, from, store, place, call, refresh, login>>

\* localStorage.clear() and a navigation that keeps the tab's calls going.
LogoutAnswer(t) ==
    /\ logout[t].pc = "answered"
    /\ store' = 0
    /\ place' = [place EXCEPT ![t] = "login"]
    /\ logout' = [logout EXCEPT ![t] = NoLogout]
    /\ UNCHANGED <<server, call, refresh, login>>

-----------------------------------------------------------------------------
CallStep(c) == CallServe(c) \/ CallRejected(c)

RefreshStep(t) ==
    \/ RefreshFind(t) \/ RefreshDelete(t) \/ RefreshCreate(t) \/ RefreshFails(t)
    \/ RefreshGranted(t) \/ RefreshRefused(t)

LoginStep(t) == Register(t) \/ LoginServe(t) \/ LoginRefused(t) \/ LoginAnswer(t)

LogoutStep(t) == LogoutFind(t) \/ LogoutDelete(t) \/ LogoutAnswer(t)

SessionNext ==
    \/ \E t \in Tabs : RefreshStep(t) \/ LoginStep(t) \/ LogoutStep(t) \/ Enter(t)
    \/ \E t \in FormTabs : Submit(t) \/ LogoutSend(t)
    \/ \E c \in Calls : CallSend(c) \/ CallStep(c)
    \/ \E n \in 1..issued : AccessExpires(n) \/ RefreshExpires(n)

SessionSpec == SessionInit /\ [][SessionNext]_sessionVars

-----------------------------------------------------------------------------
(* Properties.                                                             *)

\* Rotation (auth.service.ts:108): of any number of tabs and calls that send
\* the same refresh token, at most one gets a new pair for it.
ExchangedOnce ==
    \A m, n \in 1..issued : from[m] = from[n] /\ m # n => from[m] = 0

\* The calls of one tab never compete for its refresh token: the token that a
\* tab sends to refresh has not been spent by a refresh of the same tab.
TabNeverRacesItself ==
    \A t \in Tabs : refresh[t].pc \in {"find", "delete"} => taker[refresh[t].token] # t

\* A call that waits for a refresh waits for one that is in progress: none is
\* left behind in waitQueue.
WaitersAreBehindRefresh ==
    \A c \in Calls : call[c].pc \in {"waiting", "leading"} => Refreshing(TabOf[c])

=============================================================================
