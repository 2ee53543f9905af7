--------------------------- MODULE SessionsProofs ---------------------------
(***************************************************************************)
(* Theorems about Sessions, for any number of tabs, calls and tokens.      *)
(***************************************************************************)
EXTENDS Sessions, SequenceTheorems, TLAPS

Sent == {"find", "delete"}

\* Every token that is held anywhere was issued, and where one is needed it is
\* not the missing one.
TokensIssued ==
    /\ \A t \in Tabs : {refresh[t].token, login[t].token, logout[t].token} \subseteq 0..issued
    /\ \A t \in Tabs : refresh[t].pc \in Sent \cup {"create", "granted"} => refresh[t].token # 0
    /\ \A t \in Tabs : login[t].pc = "granted" => login[t].token # 0
    /\ \A t \in Tabs : logout[t].pc = "delete" => logout[t].token # 0
    /\ \A n \in 1..issued : from[n] \in 0..issued

Typed == SessionTypeOK /\ TokensIssued

-----------------------------------------------------------------------------
(* Types.                                                                  *)

\* Functions on 1..n are sequences of length n.
LEMMA SequenceOf ==
    ASSUME NEW S, NEW n \in Nat, NEW s
    PROVE  s \in [1..n -> S] <=> s \in Seq(S) /\ Len(s) = n
<1>1. ASSUME s \in [1..n -> S] PROVE s \in Seq(S) /\ Len(s) = n
  <2>1. s \in Seq(S)
    BY <1>1, SeqDef
  <2>2. QED BY <1>1, <2>1, LenProperties
<1>2. ASSUME s \in Seq(S), Len(s) = n PROVE s \in [1..n -> S]
  BY <1>2, LenProperties
<1>3. QED BY <1>1, <1>2

LEMMA CallOK ==
    ASSUME Typed, NEW c \in Calls, NEW s \in CallState
    PROVE  /\ Set(c, s) => call' \in [Calls -> CallState]
           /\ \A pc \in {"idle", "sent", "rejected", "leading", "waiting"} :
                /\ [call[c] EXCEPT !.pc = pc] \in CallState
                /\ CallTo(c, pc) => call' \in [Calls -> CallState]
<1>1. call \in [Calls -> CallState]
  BY DEF Typed, SessionTypeOK
<1>2. \A pc \in {"idle", "sent", "rejected", "leading", "waiting"} :
        [call[c] EXCEPT !.pc = pc] \in CallState
  BY <1>1 DEF CallState
<1>3. QED BY <1>1, <1>2 DEF Set, CallTo

LEMMA RefreshOK ==
    ASSUME Typed, NEW t \in Tabs, NEW pc \in {"idle", "find", "delete", "create", "granted", "refused"}, RefreshTo(t, pc)
    PROVE  /\ refresh' \in [Tabs -> RefreshState]
           /\ refresh'[t].pc = pc /\ refresh'[t].token = refresh[t].token
           /\ \A u \in Tabs \ {t} : refresh'[u] = refresh[u]
<1>1. refresh \in [Tabs -> RefreshState]
  BY DEF Typed, SessionTypeOK
<1>2. /\ [refresh[t] EXCEPT !.pc = pc] \in RefreshState
      /\ [refresh[t] EXCEPT !.pc = pc].pc = pc
      /\ [refresh[t] EXCEPT !.pc = pc].token = refresh[t].token
  BY <1>1 DEF RefreshState
<1>3. QED BY <1>1, <1>2 DEF RefreshTo

LEMMA BeginOK ==
    ASSUME Typed, NEW t \in Tabs, BeginRefresh(t)
    PROVE  /\ refresh' \in [Tabs -> RefreshState]
           /\ refresh'[t].pc = IF store = 0 THEN "refused" ELSE "find"
           /\ refresh'[t].token = store
           /\ \A u \in Tabs \ {t} : refresh'[u] = refresh[u]
<1>1. refresh \in [Tabs -> RefreshState] /\ store \in Nat
  BY DEF Typed, SessionTypeOK
<1>2. [pc |-> IF store = 0 THEN "refused" ELSE "find", token |-> store] \in RefreshState
  BY <1>1 DEF RefreshState
<1>3. QED BY <1>1, <1>2 DEF BeginRefresh

LEMMA LoginOK ==
    ASSUME Typed, NEW t \in Tabs, NEW pc \in LoginState, LoginTo(t, pc)
    PROVE  /\ login' \in [Tabs -> [pc : LoginState, token : Nat]]
           /\ login'[t].pc = pc /\ login'[t].token = login[t].token
           /\ \A u \in Tabs \ {t} : login'[u] = login[u]
<1>1. login \in [Tabs -> [pc : LoginState, token : Nat]]
  BY DEF Typed, SessionTypeOK
<1>2. /\ [login[t] EXCEPT !.pc = pc] \in [pc : LoginState, token : Nat]
      /\ [login[t] EXCEPT !.pc = pc].pc = pc
      /\ [login[t] EXCEPT !.pc = pc].token = login[t].token
  BY <1>1 
<1>3. QED BY <1>1, <1>2 DEF LoginTo

LEMMA LogoutOK ==
    ASSUME Typed, NEW t \in Tabs, NEW pc \in {"idle", "find", "delete", "waiting", "answered"}, LogoutTo(t, pc)
    PROVE  /\ logout' \in [Tabs -> LogoutState]
           /\ logout'[t].pc = pc /\ logout'[t].token = logout[t].token
           /\ \A u \in Tabs \ {t} : logout'[u] = logout[u]
<1>1. logout \in [Tabs -> LogoutState]
  BY DEF Typed, SessionTypeOK
<1>2. /\ [logout[t] EXCEPT !.pc = pc] \in LogoutState
      /\ [logout[t] EXCEPT !.pc = pc].pc = pc
      /\ [logout[t] EXCEPT !.pc = pc].token = logout[t].token
  BY <1>1 DEF LogoutState
<1>3. QED BY <1>1, <1>2 DEF LogoutTo

\* A tab whose refresh, form or logout ends or begins anew.
LEMMA ResetOK ==
    ASSUME Typed, NEW t \in Tabs
    PROVE  /\ NoCall \in CallState
           /\ NoRefresh \in RefreshState /\ NoRefresh.pc = "idle" /\ NoRefresh.token = 0
           /\ NoLogout \in LogoutState /\ NoLogout.pc = "idle" /\ NoLogout.token = 0
           /\ NoLogin \in [pc : LoginState, token : Nat] /\ NoLogin.pc = "idle" /\ NoLogin.token = 0
           /\ \A s \in RefreshState : refresh' = [refresh EXCEPT ![t] = s] =>
                /\ refresh' \in [Tabs -> RefreshState]
                /\ refresh'[t] = s /\ \A u \in Tabs \ {t} : refresh'[u] = refresh[u]
           /\ \A s \in [pc : LoginState, token : Nat] : login' = [login EXCEPT ![t] = s] =>
                /\ login' \in [Tabs -> [pc : LoginState, token : Nat]]
                /\ login'[t] = s /\ \A u \in Tabs \ {t} : login'[u] = login[u]
           /\ \A s \in LogoutState : logout' = [logout EXCEPT ![t] = s] =>
                /\ logout' \in [Tabs -> LogoutState]
                /\ logout'[t] = s /\ \A u \in Tabs \ {t} : logout'[u] = logout[u]
<1>1. /\ refresh \in [Tabs -> RefreshState] /\ logout \in [Tabs -> LogoutState]
      /\ login \in [Tabs -> [pc : LoginState, token : Nat]]
  BY DEF Typed, SessionTypeOK
<1>2. /\ NoCall \in CallState
      /\ NoRefresh \in RefreshState /\ NoRefresh.pc = "idle" /\ NoRefresh.token = 0
      /\ NoLogout \in LogoutState /\ NoLogout.pc = "idle" /\ NoLogout.token = 0
      /\ NoLogin \in [pc : LoginState, token : Nat] /\ NoLogin.pc = "idle" /\ NoLogin.token = 0
  BY DEF NoCall, CallState, NoRefresh, RefreshState, NoLogout, LogoutState, NoLogin, LoginState
<1>3. QED BY <1>1, <1>2

LEMMA IssueOK ==
    ASSUME Typed, NEW old \in 0..issued, Issue(old)
    PROVE  /\ issued' = issued + 1 /\ issued' \in Nat
           /\ rows' = rows \cup {issued + 1} /\ rows' \subseteq 1..issued'
           /\ from' \in [1..issued' -> Nat] /\ taker' \in [1..issued' -> Tabs \cup {Nobody}]
           /\ from'[issued'] = old /\ taker'[issued'] = Nobody
           /\ \A n \in 1..issued : from'[n] = from[n] /\ taker'[n] = taker[n]
           /\ \A n \in 1..issued' : from'[n] \in 0..issued'
<1>1. /\ issued' = issued + 1 /\ issued \in Nat
      /\ rows' = rows \cup {issued + 1} /\ rows \subseteq 1..issued
      /\ from \in [1..issued -> Nat] /\ taker \in [1..issued -> Tabs \cup {Nobody}]
      /\ from' = Append(from, old) /\ taker' = Append(taker, Nobody)
      /\ \A n \in 1..issued : from[n] \in 0..issued
  BY DEF Issue, Typed, SessionTypeOK, TokensIssued
<1>2. old \in Nat /\ Nobody \in Tabs \cup {Nobody}
  BY <1>1
<1>3. /\ from' \in [1..(issued + 1) -> Nat]
      /\ from'[issued + 1] = old
      /\ \A i \in 1..issued : from'[i] = from[i]
  <2>1. from \in Seq(Nat) /\ Len(from) = issued
    BY <1>1, SequenceOf
  <2>2. /\ from' \in Seq(Nat) /\ Len(from') = issued + 1
        /\ from'[issued + 1] = old
        /\ \A i \in 1..issued : from'[i] = from[i]
    BY <1>1, <1>2, <2>1, AppendProperties
  <2>3. issued + 1 \in Nat
    BY <1>1
  <2>4. QED BY <2>2, <2>3, SequenceOf
<1>4. /\ taker' \in [1..(issued + 1) -> Tabs \cup {Nobody}]
      /\ taker'[issued + 1] = Nobody
      /\ \A i \in 1..issued : taker'[i] = taker[i]
  <2>1. taker \in Seq(Tabs \cup {Nobody}) /\ Len(taker) = issued
    BY <1>1, SequenceOf
  <2>2. /\ taker' \in Seq(Tabs \cup {Nobody}) /\ Len(taker') = issued + 1
        /\ taker'[issued + 1] = Nobody
        /\ \A i \in 1..issued : taker'[i] = taker[i]
    BY <1>1, <1>2, <2>1, AppendProperties
  <2>3. issued + 1 \in Nat
    BY <1>1
  <2>4. QED BY <2>2, <2>3, SequenceOf
<1>5. \A n \in 1..(issued + 1) : n \in 1..issued \/ n = issued + 1
  BY <1>1
<1>6. QED BY <1>1, <1>3, <1>4, <1>5

LEMMA DeleteOK ==
    ASSUME Typed, NEW n \in 1..issued, NEW t \in Tabs \cup {Nobody}, Delete(n, t)
    PROVE  /\ rows' = rows \ {n} /\ rows' \subseteq 1..issued
           /\ taker' = [taker EXCEPT ![n] = t]
           /\ taker' \in [1..issued -> Tabs \cup {Nobody}]
BY DEF Typed, SessionTypeOK, Delete

LEMMA SessionTypeInit == SessionInit => Typed
<1>1. SUFFICES ASSUME SessionInit PROVE Typed
  OBVIOUS
<1>2. <<>> \in [1..0 -> Nat] /\ <<>> \in [1..0 -> Tabs \cup {Nobody}]
  BY EmptySeq, SequenceOf
<1>3. SessionTypeOK
  <2>1. NoCall \in CallState /\ NoRefresh \in RefreshState /\ NoLogout \in LogoutState
    BY DEF NoCall, CallState, NoRefresh, RefreshState, NoLogout, LogoutState
  <2>2. NoLogin \in [pc : LoginState, token : Nat]
    BY DEF NoLogin, LoginState
  <2>3. from \in [1..issued -> Nat] /\ taker \in [1..issued -> Tabs \cup {Nobody}]
    BY <1>1, <1>2 DEF SessionInit
  <2>4. account \in BOOLEAN
    BY <1>1 DEF SessionInit
  <2>8. /\ issued \in Nat /\ store \in 0..issued
        /\ rows \subseteq 1..issued /\ lapsed \subseteq 1..issued
    BY <1>1 DEF SessionInit
  <2>5. place \in [Tabs -> {"login", "app"}] /\ call \in [Calls -> CallState]
    BY <1>1, <2>1 DEF SessionInit
  <2>6. /\ refresh \in [Tabs -> RefreshState] /\ logout \in [Tabs -> LogoutState]
        /\ login \in [Tabs -> [pc : LoginState, token : Nat]]
    BY <1>1, <2>1, <2>2 DEF SessionInit
  <2>7. QED BY <2>3, <2>4, <2>5, <2>6, <2>8 DEF SessionTypeOK
<1>4. TokensIssued
  BY <1>1 DEF SessionInit, TokensIssued, NoRefresh, NoLogin, NoLogout, Sent
<1>5. QED BY <1>3, <1>4 DEF Typed

\* The types are kept by a step that issues nothing, if the tables, the calls and
\* the places are, and if what the tabs hold by then was issued.
LEMMA TypeFrame ==
    ASSUME Typed, UNCHANGED <<issued, from>>,
           account' \in BOOLEAN, rows' \subseteq 1..issued, lapsed' \subseteq 1..issued,
           store' \in 0..issued, place' \in [Tabs -> {"login", "app"}],
           call' \in [Calls -> CallState], refresh' \in [Tabs -> RefreshState],
           login' \in [Tabs -> [pc : LoginState, token : Nat]],
           logout' \in [Tabs -> LogoutState],
           taker' \in [1..issued -> Tabs \cup {Nobody}],
           \A t \in Tabs : refresh'[t] = refresh[t] \/
              /\ refresh'[t].token \in 0..issued
              /\ refresh'[t].pc \in Sent \cup {"create", "granted"} => refresh'[t].token # 0,
           \A t \in Tabs : login'[t] = login[t] \/
              /\ login'[t].token \in 0..issued
              /\ login'[t].pc = "granted" => login'[t].token # 0,
           \A t \in Tabs : logout'[t] = logout[t] \/
              /\ logout'[t].token \in 0..issued
              /\ logout'[t].pc = "delete" => logout'[t].token # 0
    PROVE  Typed'
<1>1. SessionTypeOK'
  BY DEF Typed, SessionTypeOK
<1>2. TokensIssued'
  BY DEF Typed, TokensIssued
<1>3. QED BY <1>1, <1>2 DEF Typed

\* What TypeFrame asks for and a step leaves alone.
LEMMA Held ==
    ASSUME Typed, NEW t \in Tabs
    PROVE  /\ account \in BOOLEAN /\ issued \in Nat /\ store \in 0..issued
           /\ rows \subseteq 1..issued /\ lapsed \subseteq 1..issued
           /\ place \in [Tabs -> {"login", "app"}] /\ call \in [Calls -> CallState]
           /\ refresh \in [Tabs -> RefreshState] /\ logout \in [Tabs -> LogoutState]
           /\ login \in [Tabs -> [pc : LoginState, token : Nat]]
           /\ taker \in [1..issued -> Tabs \cup {Nobody}]
           /\ {refresh[t].token, login[t].token, logout[t].token} \subseteq 0..issued
           /\ refresh[t].pc \in Sent \cup {"create", "granted"} => refresh[t].token # 0
           /\ login[t].pc = "granted" => login[t].token # 0
           /\ logout[t].pc = "delete" => logout[t].token # 0
BY DEF Typed, SessionTypeOK, TokensIssued

LEMMA IssueFrame ==
    ASSUME Typed, NEW old \in 0..issued, Issue(old), NEW t \in Tabs,
           UNCHANGED <<account, lapsed, store, place, call, logout>>,
           \/ /\ refresh' = [refresh EXCEPT ![t] = [pc |-> "granted", token |-> issued']]
              /\ UNCHANGED login
           \/ /\ login' = [login EXCEPT ![t] = [pc |-> "granted", token |-> issued']]
              /\ UNCHANGED refresh
    PROVE  Typed'
<1>1. issued' = issued + 1 /\ issued' \in Nat /\ issued \in Nat /\ issued' # 0
  BY IssueOK, Held
<1>2. /\ [pc |-> "granted", token |-> issued'] \in RefreshState
      /\ [pc |-> "granted", token |-> issued'] \in [pc : LoginState, token : Nat]
  BY <1>1 DEF RefreshState, LoginState
<1>3. /\ refresh' \in [Tabs -> RefreshState]
      /\ login' \in [Tabs -> [pc : LoginState, token : Nat]]
      /\ \A u \in Tabs : refresh'[u] = refresh[u] \/ refresh'[u].token = issued'
      /\ \A u \in Tabs : login'[u] = login[u] \/ login'[u].token = issued'
  <2>1. CASE login' = login
    BY <1>2, <2>1, ResetOK, Held DEF RefreshState, LoginState
  <2>2. CASE refresh' = refresh
    BY <1>2, <2>2, ResetOK, Held DEF RefreshState, LoginState
  <2>3. QED BY <2>1, <2>2
<1>4. SessionTypeOK'
  <2>1. /\ rows' \subseteq 1..issued' /\ lapsed' \subseteq 1..issued' /\ store' \in 0..issued'
    BY <1>1, IssueOK DEF Typed, SessionTypeOK
  <2>2. from' \in [1..issued' -> Nat] /\ taker' \in [1..issued' -> Tabs \cup {Nobody}]
    BY IssueOK
  <2>3. account' \in BOOLEAN
    BY DEF Typed, SessionTypeOK
  <2>4. QED BY <1>1, <1>3, <2>1, <2>2, <2>3 DEF Typed, SessionTypeOK
<1>5. TokensIssued'
  <2>1. \A n \in 1..issued' : from'[n] \in 0..issued'
    BY IssueOK
  <2>2. 0..issued \subseteq 0..issued' /\ issued' \in 0..issued'
    BY <1>1
  <2>3. \A u \in Tabs : {refresh'[u].token, login'[u].token, logout'[u].token} \subseteq 0..issued'
    BY <1>1, <1>3, <2>2 DEF Typed, TokensIssued
  <2>4. QED BY <1>1, <1>3, <2>1, <2>3 DEF Typed, TokensIssued
<1>6. QED BY <1>4, <1>5 DEF Typed

LEMMA BeginFrame ==
    ASSUME Typed, NEW t \in Tabs, UNCHANGED refresh \/ BeginRefresh(t)
    PROVE  /\ refresh' \in [Tabs -> RefreshState]
           /\ \A u \in Tabs : refresh'[u] = refresh[u] \/
                /\ refresh'[u].token \in 0..issued
                /\ refresh'[u].pc \in Sent \cup {"create", "granted"} => refresh'[u].token # 0
<1>1. CASE UNCHANGED refresh
  BY <1>1, Held
<1>2. CASE BeginRefresh(t)
  BY <1>2, BeginOK, Held DEF Sent
<1>3. QED BY <1>1, <1>2

LEMMA RefreshTypes ==
    ASSUME Typed, NEW t \in Tabs, RefreshStep(t)
    PROVE  Typed'
<1> USE DEF Sent
<1>1. CASE RefreshFind(t)
  <2>1. PICK pc \in {"delete", "refused"} : RefreshTo(t, pc)
    BY <1>1 DEF RefreshFind
  <2>2. refresh[t].pc = "find" /\ UNCHANGED <<server, store, place, call, login, logout>>
    BY <1>1 DEF RefreshFind
  <2>3. QED BY <2>1, <2>2, RefreshOK, Held, TypeFrame DEF server
<1>2. CASE RefreshDelete(t)
  <2>1. PICK pc \in {"create", "refused"} : RefreshTo(t, pc)
    BY <1>2 DEF RefreshDelete
  <2>2. /\ refresh[t].pc = "delete"
        /\ Delete(refresh[t].token, t) \/ UNCHANGED <<rows, taker>>
        /\ UNCHANGED <<account, issued, lapsed, from, store, place, call, login, logout>>
    BY <1>2 DEF RefreshDelete
  <2>3. refresh[t].token \in 1..issued
    BY <2>2, Held
  <2>4. rows' \subseteq 1..issued /\ taker' \in [1..issued -> Tabs \cup {Nobody}]
    BY <2>2, <2>3, DeleteOK, Held
  <2>5. QED BY <2>1, <2>2, <2>4, RefreshOK, Held, TypeFrame
<1>3. CASE RefreshCreate(t)
  BY <1>3, IssueFrame, Held DEF RefreshCreate
<1>4. CASE RefreshFails(t)
  BY <1>4, RefreshOK, Held, TypeFrame DEF RefreshFails, server
<1>5. CASE RefreshGranted(t)
  <2> DEFINE n == refresh[t].token
  <2>1. n \in 0..issued
    BY Held
  <2>2. [pc |-> "sent", token |-> n, retried |-> TRUE] \in CallState
    BY <2>1, Held DEF CallState
  <2>3. /\ call' \in [Calls -> CallState] /\ store' = n
        /\ refresh' = [refresh EXCEPT ![t] = NoRefresh]
        /\ UNCHANGED <<server, place, login>>
    BY <1>5, <2>2, Held DEF RefreshGranted
  <2>4. UNCHANGED logout \/ LogoutTo(t, "answered")
    BY <1>5 DEF RefreshGranted, LogoutTo
  <2>5. /\ logout' \in [Tabs -> LogoutState]
        /\ \A u \in Tabs : logout'[u] = logout[u] \/
              (logout'[u].token \in 0..issued /\ logout'[u].pc # "delete")
    <3>1. CASE UNCHANGED logout
      BY <3>1, Held
    <3>2. CASE LogoutTo(t, "answered")
      BY <3>2, LogoutOK, Held
    <3>3. QED BY <2>4, <3>1, <3>2
  <2> HIDE DEF n
  <2>6. QED BY <2>1, <2>3, <2>5, ResetOK, Held, TypeFrame DEF server
<1>6. CASE RefreshRefused(t)
  <2>1. /\ store' = 0 /\ UNCHANGED server
        /\ place' \in [Tabs -> {"login", "app"}] /\ call' \in [Calls -> CallState]
        /\ refresh' = [refresh EXCEPT ![t] = NoRefresh]
        /\ login' = [login EXCEPT ![t] = NoLogin]
        /\ logout' = [logout EXCEPT ![t] = NoLogout]
    BY <1>6, ResetOK, Held DEF RefreshRefused, Load
  <2>2. QED BY <2>1, ResetOK, Held, TypeFrame DEF server
<1>7. QED BY <1>1, <1>2, <1>3, <1>4, <1>5, <1>6 DEF RefreshStep

LEMMA LoginTypes ==
    ASSUME Typed, NEW t \in Tabs, LoginStep(t) \/ Enter(t) \/ Submit(t)
    PROVE  Typed'
<1>1. CASE Register(t)
  <2>1. PICK pc \in {"idle", "login"} : LoginTo(t, pc)
    BY <1>1 DEF Register
  <2>2. /\ account' \in BOOLEAN
        /\ UNCHANGED <<rows, issued, lapsed, from, taker, store, place, call, refresh, logout>>
    BY <1>1 DEF Register
  <2>3. QED BY <2>1, <2>2, LoginOK, Held, TypeFrame DEF LoginState
<1>2. CASE LoginServe(t)
  <2>1. 0 \in 0..issued
    BY Held
  <2>2. /\ Issue(0)
        /\ login' = [login EXCEPT ![t] = [pc |-> "granted", token |-> issued']]
        /\ UNCHANGED <<account, lapsed, store, place, call, refresh, logout>>
    BY <1>2 DEF LoginServe
  <2>3. QED BY <2>1, <2>2, IssueFrame
<1>3. CASE LoginRefused(t)
  <2>1. UNCHANGED refresh \/ BeginRefresh(t)
    BY <1>3 DEF LoginRefused
  <2>2. login' = [login EXCEPT ![t] = NoLogin] /\ UNCHANGED <<server, store, place, call, logout>>
    BY <1>3 DEF LoginRefused
  <2>3. QED BY <2>1, <2>2, BeginFrame, ResetOK, Held, TypeFrame DEF server
<1>4. CASE LoginAnswer(t)
  <2>1. place' \in [Tabs -> {"login", "app"}] /\ store' \in 0..issued
    BY <1>4, Held DEF LoginAnswer
  <2>2. login' = [login EXCEPT ![t] = NoLogin] /\ UNCHANGED <<server, call, refresh, logout>>
    BY <1>4 DEF LoginAnswer
  <2>3. QED BY <2>1, <2>2, ResetOK, Held, TypeFrame DEF server
<1>5. CASE Enter(t)
  <2>1. place' \in [Tabs -> {"login", "app"}]
    BY <1>5, Held DEF Enter
  <2>2. login' = [login EXCEPT ![t] = NoLogin] /\ UNCHANGED <<server, store, call, refresh, logout>>
    BY <1>5 DEF Enter
  <2>3. QED BY <2>1, <2>2, ResetOK, Held, TypeFrame DEF server
<1>6. CASE Submit(t)
  <2>1. PICK pc \in {"login", "register"} : LoginTo(t, pc)
    BY <1>6 DEF Submit
  <2>2. UNCHANGED <<server, store, place, call, refresh, logout>>
    BY <1>6 DEF Submit
  <2>3. QED BY <2>1, <2>2, LoginOK, Held, TypeFrame DEF LoginState, server
<1>7. QED BY <1>1, <1>2, <1>3, <1>4, <1>5, <1>6 DEF LoginStep

LEMMA LogoutTypes ==
    ASSUME Typed, NEW t \in Tabs, LogoutStep(t) \/ LogoutSend(t)
    PROVE  Typed'
<1>1. CASE LogoutFind(t)
  <2>1. PICK pc \in {"answered", "delete", "waiting"} :
          LogoutTo(t, pc) /\ (pc = "delete" => logout[t].token # 0)
    BY <1>1 DEF LogoutFind
  <2>2. UNCHANGED refresh \/ BeginRefresh(t)
    BY <1>1 DEF LogoutFind
  <2>3. UNCHANGED <<server, store, place, call, login>>
    BY <1>1 DEF LogoutFind
  <2>4. QED BY <2>1, <2>2, <2>3, LogoutOK, BeginFrame, Held, TypeFrame DEF server
<1>2. CASE LogoutDelete(t)
  <2>1. /\ logout[t].pc = "delete" /\ LogoutTo(t, "answered")
        /\ Delete(logout[t].token, Nobody) \/ UNCHANGED <<rows, taker>>
        /\ UNCHANGED <<account, issued, lapsed, from, store, place, call, refresh, login>>
    BY <1>2 DEF LogoutDelete
  <2>2. logout[t].token \in 1..issued
    BY <2>1, Held
  <2>3. rows' \subseteq 1..issued /\ taker' \in [1..issued -> Tabs \cup {Nobody}]
    BY <2>1, <2>2, DeleteOK, Held
  <2>4. QED BY <2>1, <2>3, LogoutOK, Held, TypeFrame
<1>3. CASE LogoutAnswer(t)
  <2>1. place' \in [Tabs -> {"login", "app"}] /\ store' = 0
    BY <1>3, Held DEF LogoutAnswer
  <2>2. logout' = [logout EXCEPT ![t] = NoLogout] /\ UNCHANGED <<server, call, refresh, login>>
    BY <1>3 DEF LogoutAnswer
  <2>3. QED BY <2>1, <2>2, ResetOK, Held, TypeFrame DEF server
<1>4. CASE LogoutSend(t)
  <2>1. [pc |-> "find", token |-> store] \in LogoutState
    BY Held DEF LogoutState
  <2>2. /\ logout' = [logout EXCEPT ![t] = [pc |-> "find", token |-> store]]
        /\ UNCHANGED <<server, store, place, call, refresh, login>>
    BY <1>4 DEF LogoutSend
  <2>3. QED BY <2>1, <2>2, ResetOK, Held, TypeFrame DEF server
<1>5. QED BY <1>1, <1>2, <1>3, <1>4 DEF LogoutStep

LEMMA CallTypes ==
    ASSUME SessionConstants, Typed, NEW c \in Calls, CallSend(c) \/ CallStep(c)
    PROVE  Typed'
<1>1. TabOf[c] \in Tabs
  BY DEF SessionConstants
<1>2. NoCall \in CallState /\ [pc |-> "sent", token |-> store, retried |-> FALSE] \in CallState
  BY <1>1, ResetOK, Held DEF CallState
<1>3. call' \in [Calls -> CallState]
  BY <1>2, CallOK DEF CallSend, CallStep, CallServe, CallRejected
<1>4. /\ UNCHANGED refresh \/ BeginRefresh(TabOf[c])
      /\ UNCHANGED <<server, store, place, login, logout>>
  BY DEF CallSend, CallStep, CallServe, CallRejected
<1>5. QED BY <1>1, <1>3, <1>4, BeginFrame, Held, TypeFrame DEF server

LEMMA SessionTypeStep ==
    ASSUME SessionConstants, Typed, [SessionNext]_sessionVars
    PROVE  Typed'
<1>1. CASE UNCHANGED sessionVars
  BY <1>1 DEF sessionVars, Typed, SessionTypeOK, TokensIssued
<1>2. ASSUME NEW n \in 1..issued, AccessExpires(n) \/ RefreshExpires(n) PROVE Typed'
  <2>1. SessionTypeOK'
    BY <1>2 DEF AccessExpires, RefreshExpires, tabs, Typed, SessionTypeOK
  <2>2. TokensIssued'
    BY <1>2 DEF AccessExpires, RefreshExpires, tabs, Typed, TokensIssued
  <2>3. QED BY <2>1, <2>2 DEF Typed
<1>3. FormTabs \subseteq Tabs
  BY DEF SessionConstants
<1>4. QED
  BY <1>1, <1>2, <1>3, RefreshTypes, LoginTypes, LogoutTypes, CallTypes, Zenon DEF SessionNext

\* Sessions keeps its types, and the tokens in its tabs were issued.
THEOREM SessionTypeCorrect == ASSUME SessionConstants PROVE SessionSpec => []SessionTypeOK
<1>1. Typed => SessionTypeOK
  BY DEF Typed
<1>2. QED BY <1>1, SessionTypeInit, SessionTypeStep, PTL DEF SessionSpec

-----------------------------------------------------------------------------
(* Rotation.                                                               *)

\* What a step can do to the tokens, and to the refreshes that are about to
\* store a new pair.
LEMMA TokensFrame ==
    ASSUME SessionConstants, Typed, [SessionNext]_sessionVars
    PROVE  \/ \E t \in Tabs : RefreshDelete(t) \/ RefreshCreate(t) \/ LoginServe(t)
           \/ /\ UNCHANGED <<issued, from>> /\ rows' \subseteq rows
              /\ \A u \in Tabs : refresh'[u].pc = "create" => refresh'[u] = refresh[u]
<1>1. CASE UNCHANGED sessionVars
  BY <1>1 DEF sessionVars
<1>2. ASSUME NEW t \in Tabs, RefreshFind(t) \/ RefreshFails(t)
      PROVE  /\ UNCHANGED <<issued, from, rows>>
             /\ \A u \in Tabs : refresh'[u].pc = "create" => refresh'[u] = refresh[u]
  <2>1. PICK pc \in {"delete", "refused"} : RefreshTo(t, pc)
    BY <1>2 DEF RefreshFind, RefreshFails
  <2>2. QED BY <1>2, <2>1, RefreshOK DEF RefreshFind, RefreshFails, server
<1>3. ASSUME NEW t \in Tabs, RefreshGranted(t) \/ RefreshRefused(t)
      PROVE  /\ UNCHANGED <<issued, from, rows>>
             /\ \A u \in Tabs : refresh'[u].pc = "create" => refresh'[u] = refresh[u]
  BY <1>3, ResetOK DEF RefreshGranted, RefreshRefused, Load, server
<1>4. ASSUME NEW t \in Tabs, UNCHANGED refresh \/ BeginRefresh(t)
      PROVE  \A u \in Tabs : refresh'[u].pc = "create" => refresh'[u] = refresh[u]
  BY <1>4, BeginOK
<1>5. ASSUME NEW t \in Tabs, Register(t) \/ LoginRefused(t) \/ LoginAnswer(t) \/ Enter(t) \/ Submit(t)
      PROVE  UNCHANGED <<issued, from, rows>> /\ (UNCHANGED refresh \/ BeginRefresh(t))
  BY <1>5 DEF Register, LoginRefused, LoginAnswer, Enter, Submit, server
<1>6. ASSUME NEW t \in Tabs, LogoutStep(t) \/ LogoutSend(t)
      PROVE  /\ UNCHANGED <<issued, from>> /\ rows' \subseteq rows
             /\ UNCHANGED refresh \/ BeginRefresh(t)
  BY <1>6 DEF LogoutStep, LogoutFind, LogoutDelete, LogoutAnswer, LogoutSend, Delete, server
<1>7. ASSUME NEW c \in Calls, CallSend(c) \/ CallStep(c)
      PROVE  /\ TabOf[c] \in Tabs
             /\ UNCHANGED <<issued, from, rows>> /\ (UNCHANGED refresh \/ BeginRefresh(TabOf[c]))
  BY <1>7 DEF CallSend, CallStep, CallServe, CallRejected, server, SessionConstants
<1>8. ASSUME NEW n \in 1..issued, AccessExpires(n) \/ RefreshExpires(n)
      PROVE  UNCHANGED <<issued, from, refresh>> /\ rows' \subseteq rows
  BY <1>8 DEF AccessExpires, RefreshExpires, tabs
<1>9. FormTabs \subseteq Tabs
  BY DEF SessionConstants
<1>10. QED
  <2>1. CASE SessionNext
    BY <2>1, <1>2, <1>3, <1>4, <1>5, <1>6, <1>7, <1>8, <1>9
       DEF SessionNext, RefreshStep, LoginStep
  <2>2. QED BY <1>1, <2>1

\* A token that was exchanged, or is about to be, is no longer in the table,
\* and no two refreshes are about to exchange the same one.
Exchanges ==
    /\ \A n \in 1..issued : from[n] # 0 => from[n] \notin rows
    /\ \A t \in Tabs : refresh[t].pc = "create" =>
          /\ refresh[t].token \notin rows
          /\ \A n \in 1..issued : from[n] # refresh[t].token
    /\ \A t, u \in Tabs :
          /\ refresh[t].pc = "create" /\ refresh[u].pc = "create"
          /\ refresh[t].token = refresh[u].token
          => t = u
    /\ ExchangedOnce

LEMMA ExchangesStep ==
    ASSUME SessionConstants, Typed, Exchanges, [SessionNext]_sessionVars
    PROVE  Exchanges'
<1>1. CASE /\ UNCHANGED <<issued, from>> /\ rows' \subseteq rows
           /\ \A u \in Tabs : refresh'[u].pc = "create" => refresh'[u] = refresh[u]
  BY <1>1 DEF Exchanges, ExchangedOnce
<1>2. ASSUME NEW t \in Tabs, RefreshDelete(t) PROVE Exchanges'
  <2>1. PICK pc \in {"create", "refused"} :
          /\ RefreshTo(t, pc)
          /\ pc = "create" => refresh[t].token \in rows /\ rows' = rows \ {refresh[t].token}
    BY <1>2 DEF RefreshDelete, Delete
  <2>2. UNCHANGED <<issued, from>> /\ rows' \subseteq rows
    BY <1>2 DEF RefreshDelete, Delete
  <2>3. /\ refresh'[t].pc = pc /\ refresh'[t].token = refresh[t].token
        /\ \A u \in Tabs \ {t} : refresh'[u] = refresh[u]
    BY <2>1, RefreshOK
  <2>4. refresh[t].token # 0 /\ refresh[t].token \in 1..issued
    BY <1>2, Held DEF RefreshDelete, Sent
  <2>5. QED BY <2>1, <2>2, <2>3, <2>4 DEF Exchanges, ExchangedOnce
<1>3. ASSUME NEW t \in Tabs, NEW old \in 0..issued, Issue(old),
             \A u \in Tabs : refresh'[u].pc = "create" => u # t \/ old = 0,
             \A u \in Tabs \ {t} : refresh'[u] = refresh[u],
             old = 0 => refresh' = refresh,
             old # 0 => refresh[t].pc = "create" /\ refresh[t].token = old
      PROVE  Exchanges'
  <2>1. /\ issued' = issued + 1 /\ issued \in Nat
        /\ rows' = rows \cup {issued + 1} /\ rows \subseteq 1..issued
        /\ from'[issued + 1] = old
        /\ \A n \in 1..issued : from'[n] = from[n] /\ from[n] \in 0..issued
    BY <1>3, IssueOK, Held DEF Typed, TokensIssued
  <2>2. \A u \in Tabs : refresh[u].token \in 0..issued
    BY Held
  <2>3. \A n \in 1..(issued + 1) : n \in 1..issued \/ n = issued + 1
    BY <2>1
  <2>4. \A u \in Tabs : refresh'[u].pc = "create" =>
           refresh'[u] = refresh[u] /\ refresh[u].token # old
    BY <1>3, Held DEF Exchanges, Sent
  <2>5. QED BY <1>3, <2>1, <2>2, <2>3, <2>4 DEF Exchanges, ExchangedOnce
<1>4. ASSUME NEW t \in Tabs, RefreshCreate(t) PROVE Exchanges'
  <2>1. [pc |-> "granted", token |-> issued'] \in RefreshState
    BY <1>4, IssueOK, Held DEF RefreshCreate, RefreshState
  <2>2. refresh'[t].pc = "granted" /\ \A u \in Tabs \ {t} : refresh'[u] = refresh[u]
    BY <1>4, <2>1, ResetOK DEF RefreshCreate
  <2>3. refresh[t].token \in 0..issued /\ refresh[t].token # 0
    BY <1>4, Held DEF RefreshCreate
  <2>4. QED BY <1>3, <1>4, <2>2, <2>3 DEF RefreshCreate
<1>5. ASSUME NEW t \in Tabs, LoginServe(t) PROVE Exchanges'
  <2>1. 0 \in 0..issued
    BY Held
  <2>2. QED BY <1>3, <1>5, <2>1 DEF LoginServe
<1>6. QED BY <1>1, <1>2, <1>4, <1>5, TokensFrame

\* Of any number of tabs and calls that send the same refresh token, at most
\* one gets a new pair for it: the rotation deletes the token before it stores
\* the new one, and only one deletion finds it.
THEOREM ExchangedOnceCorrect == ASSUME SessionConstants PROVE SessionSpec => []ExchangedOnce
<1>1. SessionInit => Exchanges
  BY DEF SessionInit, Exchanges, ExchangedOnce, NoRefresh
<1>2. Exchanges => ExchangedOnce
  BY DEF Exchanges
<1>3. QED BY <1>1, <1>2, SessionTypeInit, SessionTypeStep, ExchangesStep, PTL DEF SessionSpec

-----------------------------------------------------------------------------
(* Waiting calls.                                                          *)

LEMMA WaitersStep ==
    ASSUME SessionConstants, Typed, WaitersAreBehindRefresh, [SessionNext]_sessionVars
    PROVE  WaitersAreBehindRefresh'
<1> USE DEF WaitersAreBehindRefresh, Refreshing
<1>1. \A c \in Calls : TabOf[c] \in Tabs
  BY DEF SessionConstants
<1>2. ASSUME UNCHANGED call,
             \A t \in Tabs : refresh'[t].pc = "idle" => refresh[t].pc = "idle"
      PROVE  WaitersAreBehindRefresh'
  BY <1>1, <1>2
<1>3. CASE UNCHANGED sessionVars
  BY <1>3 DEF sessionVars
<1>4. ASSUME NEW t \in Tabs, UNCHANGED refresh \/ BeginRefresh(t)
      PROVE  \A u \in Tabs : refresh'[u].pc = "idle" => refresh[u].pc = "idle"
  BY <1>4, BeginOK
<1>5. ASSUME NEW t \in Tabs, RefreshFind(t) \/ RefreshDelete(t) \/ RefreshFails(t)
      PROVE  WaitersAreBehindRefresh'
  <2>1. PICK pc \in {"delete", "create", "refused"} : RefreshTo(t, pc)
    BY <1>5 DEF RefreshFind, RefreshDelete, RefreshFails
  <2>2. UNCHANGED call
    BY <1>5 DEF RefreshFind, RefreshDelete, RefreshFails
  <2>3. QED BY <1>2, <2>1, <2>2, RefreshOK
<1>6. ASSUME NEW t \in Tabs, RefreshCreate(t) PROVE WaitersAreBehindRefresh'
  <2>1. [pc |-> "granted", token |-> issued'] \in RefreshState
    BY <1>6, IssueOK, Held DEF RefreshCreate, RefreshState
  <2>2. refresh'[t].pc = "granted" /\ \A u \in Tabs \ {t} : refresh'[u] = refresh[u]
    BY <1>6, <2>1, ResetOK DEF RefreshCreate
  <2>3. QED BY <1>2, <1>6, <2>2 DEF RefreshCreate
<1>7. ASSUME NEW t \in Tabs, RefreshGranted(t) \/ RefreshRefused(t)
      PROVE  WaitersAreBehindRefresh'
  <2>1. \A u \in Tabs \ {t} : refresh'[u] = refresh[u]
    BY <1>7, ResetOK DEF RefreshGranted, RefreshRefused, Load
  <2>2. \A c \in Calls : \/ call'[c] = call[c] /\ TabOf[c] # t
                         \/ call'[c].pc \notin {"waiting", "leading"}
    BY <1>7 DEF RefreshGranted, RefreshRefused, Load, NoCall
  <2>3. QED BY <1>1, <2>1, <2>2
<1>8. ASSUME NEW t \in Tabs, Register(t) \/ LoginServe(t) \/ LoginRefused(t) \/ LoginAnswer(t)
                             \/ Enter(t) \/ Submit(t)
      PROVE  WaitersAreBehindRefresh'
  BY <1>2, <1>4, <1>8 DEF Register, LoginServe, LoginRefused, LoginAnswer, Enter, Submit
<1>9. ASSUME NEW t \in Tabs, LogoutStep(t) \/ LogoutSend(t) PROVE WaitersAreBehindRefresh'
  BY <1>2, <1>4, <1>9 DEF LogoutStep, LogoutFind, LogoutDelete, LogoutAnswer, LogoutSend
<1>10. ASSUME NEW c \in Calls, CallSend(c) \/ CallServe(c) \/ CallRejected(c)
       PROVE  WaitersAreBehindRefresh'
  <2>1. \A d \in Calls \ {c} : call'[d] = call[d]
    BY <1>10, Held, <1>1 DEF CallSend, CallServe, CallRejected, Set, CallTo
  <2>2. UNCHANGED refresh \/ BeginRefresh(TabOf[c])
    BY <1>10 DEF CallSend, CallServe, CallRejected
  <2>3. call'[c].pc \in {"waiting", "leading"} =>
           \/ Refreshing(TabOf[c])
           \/ BeginRefresh(TabOf[c])
    <3>1. call \in [Calls -> CallState]
      BY <1>1, Held
    <3>2. QED
      BY <1>10, <3>1 DEF CallSend, CallServe, CallRejected, Set, CallTo, NoCall, CallState
  <2>4. BeginRefresh(TabOf[c]) => refresh'[TabOf[c]].pc # "idle"
    BY <1>1, BeginOK
  <2>5. \A u \in Tabs : refresh'[u].pc = "idle" => refresh[u].pc = "idle"
    BY <1>1, <1>4, <2>2
  <2>6. QED BY <1>1, <2>1, <2>3, <2>4, <2>5
<1>11. ASSUME NEW n \in 1..issued, AccessExpires(n) \/ RefreshExpires(n)
       PROVE  WaitersAreBehindRefresh'
  BY <1>2, <1>11 DEF AccessExpires, RefreshExpires, tabs
<1>12. FormTabs \subseteq Tabs
  BY DEF SessionConstants
<1>13. QED
  BY <1>3, <1>5, <1>6, <1>7, <1>8, <1>9, <1>10, <1>11, <1>12, Zenon
     DEF SessionNext, RefreshStep, LoginStep, CallStep

\* No call is left behind in waitQueue: whatever ends a refresh resumes or drops
\* every call that waits for it, however many of a tab are refused at once.
THEOREM WaitersAreBehindRefreshCorrect ==
    ASSUME SessionConstants PROVE SessionSpec => []WaitersAreBehindRefresh
<1>1. SessionInit => WaitersAreBehindRefresh
  BY DEF SessionInit, WaitersAreBehindRefresh, NoCall
<1>2. QED BY <1>1, SessionTypeInit, SessionTypeStep, WaitersStep, PTL DEF SessionSpec

-----------------------------------------------------------------------------
(* One tab, one refresh token.                                             *)

\* A pair on its way to the tab that will store it: nobody has sent it yet.
Unspent(n) ==
    /\ taker[n] = Nobody /\ store # n
    /\ \A u \in Tabs : /\ refresh[u].pc \in Sent => refresh[u].token # n
                       /\ logout[u].pc \in Sent => logout[u].token # n

\* Pairs on their way are unspent and all different; while the token that is
\* stored was spent by a refresh of t, that refresh is still in progress.
Spending ==
    /\ \A t \in Tabs : refresh[t].pc = "granted" => Unspent(refresh[t].token)
    /\ \A t \in Tabs : login[t].pc = "granted" => Unspent(login[t].token)
    /\ \A t, u \in Tabs :
          refresh[t].pc = "granted" /\ refresh[u].pc = "granted" /\ t # u =>
             refresh[t].token # refresh[u].token
    /\ \A t, u \in Tabs :
          login[t].pc = "granted" /\ login[u].pc = "granted" /\ t # u =>
             login[t].token # login[u].token
    /\ \A t, u \in Tabs :
          refresh[t].pc = "granted" /\ login[u].pc = "granted" =>
             refresh[t].token # login[u].token
    /\ \A t \in Tabs : store # 0 /\ taker[store] = t =>
          refresh[t].pc \in {"create", "granted", "refused"}
    /\ TabNeverRacesItself

\* A step that neither issues nor spends a token keeps Spending, if it sends no
\* other token than the stored one, and a refresh only from a tab without one.
LEMMA SpendingFrame ==
    ASSUME Typed, Spending, UNCHANGED <<issued, taker>>, store' \in {store, 0},
           \A u \in Tabs : login'[u] = login[u] \/ login'[u].pc # "granted",
           \A u \in Tabs : logout'[u].pc \in Sent =>
              \/ logout[u].pc \in Sent /\ logout'[u].token = logout[u].token
              \/ logout'[u].token = store,
           \A u \in Tabs : refresh'[u].pc = "granted" => refresh'[u] = refresh[u],
           \A u \in Tabs : refresh'[u].pc \in Sent =>
              \/ refresh[u].pc \in Sent /\ refresh'[u].token = refresh[u].token
              \/ refresh[u].pc = "idle" /\ store # 0 /\ refresh'[u].token = store,
           \A u \in Tabs : store' # 0 /\ refresh[u].pc \in {"create", "granted", "refused"} =>
              refresh'[u].pc \in {"create", "granted", "refused"}
    PROVE  Spending'
<1>1. \A u \in Tabs : /\ refresh[u].pc = "granted" => refresh[u].token # 0
                      /\ login[u].pc = "granted" => login[u].token # 0
  BY Held DEF Sent
<1>2. ASSUME NEW n, n # 0, Unspent(n) PROVE Unspent(n)'
  BY <1>2 DEF Unspent
<1>3. (\A t \in Tabs : refresh[t].pc = "granted" => Unspent(refresh[t].token))'
  BY <1>1, <1>2 DEF Spending
<1>4. (\A t \in Tabs : login[t].pc = "granted" => Unspent(login[t].token))'
  BY <1>1, <1>2 DEF Spending
<1>5. TabNeverRacesItself'
  BY DEF Spending, TabNeverRacesItself, Sent
<1>6. (\A t \in Tabs : store # 0 /\ taker[store] = t =>
          refresh[t].pc \in {"create", "granted", "refused"})'
  BY DEF Spending
<1>7. QED BY <1>3, <1>4, <1>5, <1>6 DEF Spending

\* The new pair is unspent, and differs from every pair there was.
LEMMA SpendingIssue ==
    ASSUME Typed, Spending, NEW old \in 0..issued, Issue(old), NEW t \in Tabs,
           UNCHANGED <<store, logout>>,
           \/ /\ refresh' = [refresh EXCEPT ![t] = [pc |-> "granted", token |-> issued']]
              /\ refresh[t].pc = "create" /\ UNCHANGED login
           \/ /\ login' = [login EXCEPT ![t] = [pc |-> "granted", token |-> issued']]
              /\ UNCHANGED refresh
    PROVE  Spending'
<1>1. /\ issued' = issued + 1 /\ issued' \in Nat /\ issued \in Nat
      /\ taker'[issued'] = Nobody
      /\ \A n \in 1..issued : taker'[n] = taker[n]
  BY IssueOK, Held
<1>2. /\ [pc |-> "granted", token |-> issued'] \in RefreshState
      /\ [pc |-> "granted", token |-> issued'] \in [pc : LoginState, token : Nat]
  BY <1>1 DEF RefreshState, LoginState
<1>3. \/ /\ refresh'[t].pc = "granted" /\ refresh'[t].token = issued'
         /\ refresh[t].pc = "create" /\ login' = login
         /\ \A u \in Tabs \ {t} : refresh'[u] = refresh[u]
      \/ /\ login'[t].pc = "granted" /\ login'[t].token = issued'
         /\ refresh' = refresh
         /\ \A u \in Tabs \ {t} : login'[u] = login[u]
  BY <1>2, ResetOK
<1>4. \A u \in Tabs : /\ refresh[u].token \in 0..issued /\ login[u].token \in 0..issued
                      /\ logout[u].token \in 0..issued
                      /\ refresh[u].pc \in Sent \cup {"granted"} => refresh[u].token \in 1..issued
                      /\ login[u].pc = "granted" => login[u].token \in 1..issued
  BY Held
<1>5. store \in 0..issued /\ issued' \notin 0..issued
  BY <1>1, Held
<1>6. \A u \in Tabs : refresh'[u].pc \in Sent => refresh'[u] = refresh[u]
  BY <1>3 DEF Sent
<1>7. ASSUME NEW n, n = issued' PROVE Unspent(n)'
  BY <1>1, <1>4, <1>5, <1>6, <1>7 DEF Unspent
<1>8. ASSUME NEW n \in 1..issued, Unspent(n) PROVE Unspent(n)'
  BY <1>1, <1>6, <1>8 DEF Unspent
<1>9. \A u \in Tabs : refresh'[u].pc = "granted" =>
         \/ refresh[u].pc = "granted" /\ refresh'[u] = refresh[u]
         \/ u = t /\ refresh'[u].token = issued' /\ login' = login
  BY <1>3
<1>10. \A u \in Tabs : login'[u].pc = "granted" =>
         \/ login[u].pc = "granted" /\ login'[u] = login[u]
         \/ u = t /\ login'[u].token = issued' /\ refresh' = refresh
  BY <1>3
<1>11. (\A u \in Tabs : /\ refresh[u].pc = "granted" => Unspent(refresh[u].token)
                        /\ login[u].pc = "granted" => Unspent(login[u].token))'
  BY <1>4, <1>7, <1>8, <1>9, <1>10 DEF Spending
<1>12. (\A u, v \in Tabs : refresh[u].pc = "granted" /\ refresh[v].pc = "granted" /\ u # v =>
            refresh[u].token # refresh[v].token)'
  BY <1>4, <1>5, <1>9 DEF Spending
<1>13. (\A u, v \in Tabs : login[u].pc = "granted" /\ login[v].pc = "granted" /\ u # v =>
            login[u].token # login[v].token)'
  BY <1>4, <1>5, <1>10 DEF Spending
<1>14. (\A u, v \in Tabs : refresh[u].pc = "granted" /\ login[v].pc = "granted" =>
            refresh[u].token # login[v].token)'
  BY <1>4, <1>5, <1>9, <1>10 DEF Spending
<1>15. (\A u \in Tabs : store # 0 /\ taker[store] = u =>
            refresh[u].pc \in {"create", "granted", "refused"})'
  BY <1>1, <1>3, <1>5 DEF Spending
<1>16. TabNeverRacesItself'
  BY <1>1, <1>4, <1>6 DEF Spending, TabNeverRacesItself, Sent
<1>17. QED BY <1>11, <1>12, <1>13, <1>14, <1>15, <1>16 DEF Spending

LEMMA SpendingRefresh ==
    ASSUME SessionConstants, Typed, Spending, NEW t \in Tabs, RefreshStep(t)
    PROVE  Spending'
<1>1. CASE RefreshFind(t) \/ RefreshFails(t)
  <2>1. PICK pc \in {"delete", "refused"} : RefreshTo(t, pc) /\ (pc = "delete" => refresh[t].pc = "find")
    BY <1>1 DEF RefreshFind, RefreshFails
  <2>2. UNCHANGED <<issued, taker, store, login, logout>>
    BY <1>1 DEF RefreshFind, RefreshFails, server
  <2>3. refresh[t].pc = "find" => ~(refresh[t].pc \in {"create", "granted", "refused"})
    OBVIOUS
  <2>4. QED BY <2>1, <2>2, <2>3, RefreshOK, SpendingFrame DEF Sent
<1>2. CASE RefreshDelete(t)
  <2>1. CASE refresh[t].token \notin rows
    <3>1. RefreshTo(t, "refused") /\ UNCHANGED <<issued, taker, store, login, logout>>
      BY <1>2, <2>1 DEF RefreshDelete, Delete
    <3>2. QED BY <3>1, RefreshOK, SpendingFrame DEF Sent
  <2>2. CASE refresh[t].token \in rows
    <3> DEFINE k == refresh[t].token
    <3>1. /\ RefreshTo(t, "create") /\ taker' = [taker EXCEPT ![k] = t]
          /\ refresh[t].pc = "delete"
          /\ UNCHANGED <<issued, store, login, logout>>
      BY <1>2, <2>2 DEF RefreshDelete, Delete
    <3>2. /\ refresh'[t].pc = "create"
          /\ \A u \in Tabs \ {t} : refresh'[u] = refresh[u]
      BY <3>1, RefreshOK
    <3>3. \A n \in 1..issued : n # k => taker'[n] = taker[n]
      BY <3>1, Held
    <3>4. k \in 1..issued /\ taker'[k] = t
      BY <3>1, Held DEF Sent
    <3>5. \A n \in 1..issued : Unspent(n) => Unspent(n)' /\ n # k
      BY <3>1, <3>2, <3>3 DEF Unspent, Sent
    <3>6. \A u \in Tabs : /\ refresh[u].pc = "granted" => refresh[u].token \in 1..issued
                          /\ login[u].pc = "granted" => login[u].token \in 1..issued
                          /\ refresh[u].pc \in Sent => refresh[u].token \in 1..issued
      BY Held
    <3>7. store # 0 => store \in 1..issued
      BY Held
    <3>8. TabNeverRacesItself'
      BY <3>1, <3>2, <3>3, <3>4, <3>6 DEF Spending, TabNeverRacesItself, Sent
    <3> HIDE DEF k
    <3>9. QED BY <3>1, <3>2, <3>3, <3>4, <3>5, <3>6, <3>7, <3>8 DEF Spending
  <2>3. QED BY <2>1, <2>2
<1>3. CASE RefreshRefused(t)
  <2>1. /\ store' = 0 /\ UNCHANGED <<issued, taker>>
        /\ refresh' = [refresh EXCEPT ![t] = NoRefresh]
        /\ login' = [login EXCEPT ![t] = NoLogin]
        /\ logout' = [logout EXCEPT ![t] = NoLogout]
    BY <1>3 DEF RefreshRefused, Load, server
  <2>2. QED BY <2>1, ResetOK, SpendingFrame DEF Sent
<1>4. CASE RefreshGranted(t)
  <2> DEFINE n == refresh[t].token
  <2>1. /\ store' = n /\ refresh[t].pc = "granted"
        /\ refresh' = [refresh EXCEPT ![t] = NoRefresh]
        /\ UNCHANGED <<issued, taker, login>>
    BY <1>4 DEF RefreshGranted, server
  <2>2. Unspent(n) /\ n # 0
    BY <2>1, Held DEF Spending, Sent
  <2>3. refresh'[t].pc = "idle" /\ \A u \in Tabs \ {t} : refresh'[u] = refresh[u]
    BY <2>1, ResetOK
  <2>4. \A u \in Tabs : logout'[u].pc \in Sent =>
           logout[u].pc \in Sent /\ logout'[u].token = logout[u].token
    <3>1. UNCHANGED logout \/ LogoutTo(t, "answered")
      BY <1>4 DEF RefreshGranted, LogoutTo
    <3>2. CASE LogoutTo(t, "answered")
      BY <3>2, LogoutOK DEF Sent
    <3>3. QED BY <3>1, <3>2
  <2>5. ASSUME NEW m, Unspent(m), m # n PROVE Unspent(m)'
    BY <2>1, <2>3, <2>4, <2>5 DEF Unspent, Sent
  <2>6. \A u \in Tabs \ {t} : refresh[u].pc = "granted" => refresh[u].token # n
    BY <2>1 DEF Spending
  <2>7. \A u \in Tabs : login[u].pc = "granted" => login[u].token # n
    BY <2>1 DEF Spending
  <2>8. taker'[store'] = Nobody /\ Nobody \notin Tabs
    BY <2>1, <2>2 DEF Unspent, SessionConstants
  <2>9. TabNeverRacesItself'
    BY <2>1, <2>3 DEF Spending, TabNeverRacesItself
  <2> HIDE DEF n
  <2>10. QED BY <2>1, <2>3, <2>5, <2>6, <2>7, <2>8, <2>9 DEF Spending
<1>5. CASE RefreshCreate(t)
  <2>1. refresh[t].token \in 0..issued
    BY Held
  <2>2. QED BY <1>5, <2>1, SpendingIssue DEF RefreshCreate
<1>6. QED BY <1>1, <1>2, <1>3, <1>4, <1>5 DEF RefreshStep

\* A refresh that begins, or does not.
LEMMA SpendingBegin ==
    ASSUME Typed, NEW t \in Tabs,
           UNCHANGED refresh \/ (~Refreshing(t) /\ BeginRefresh(t))
    PROVE  /\ \A u \in Tabs : refresh'[u].pc = "granted" => refresh'[u] = refresh[u]
           /\ \A u \in Tabs : refresh'[u].pc \in Sent =>
                \/ refresh[u].pc \in Sent /\ refresh'[u].token = refresh[u].token
                \/ refresh[u].pc = "idle" /\ store # 0 /\ refresh'[u].token = store
           /\ \A u \in Tabs : refresh[u].pc \in {"create", "granted", "refused"} =>
                refresh'[u].pc \in {"create", "granted", "refused"}
<1>1. CASE UNCHANGED refresh
  BY <1>1
<1>2. CASE ~Refreshing(t) /\ BeginRefresh(t)
  BY <1>2, BeginOK DEF Refreshing, Sent
<1>3. QED BY <1>1, <1>2

LEMMA SpendingLogin ==
    ASSUME SessionConstants, Typed, Spending, NEW t \in Tabs,
           LoginStep(t) \/ Enter(t) \/ Submit(t)
    PROVE  Spending'
<1>1. CASE Register(t) \/ Submit(t)
  <2>1. PICK pc \in {"idle", "login", "register"} : LoginTo(t, pc)
    BY <1>1 DEF Register, Submit
  <2>2. UNCHANGED <<issued, taker, store, refresh, logout>>
    BY <1>1 DEF Register, Submit, server
  <2>3. QED BY <2>1, <2>2, LoginOK, SpendingFrame DEF LoginState
<1>2. CASE Enter(t) \/ LoginRefused(t)
  <2>1. /\ login' = [login EXCEPT ![t] = NoLogin]
        /\ UNCHANGED refresh \/ (~Refreshing(t) /\ BeginRefresh(t))
        /\ UNCHANGED <<issued, taker, store, logout>>
    BY <1>2 DEF Enter, LoginRefused, server
  <2>2. \A u \in Tabs : login'[u] = login[u] \/ login'[u].pc # "granted"
    BY <2>1, ResetOK
  <2>3. QED BY <2>1, <2>2, SpendingBegin, SpendingFrame
<1>3. CASE LoginServe(t)
  <2>1. 0 \in 0..issued
    BY Held
  <2>2. QED BY <1>3, <2>1, SpendingIssue DEF LoginServe
<1>4. CASE LoginAnswer(t)
  <2> DEFINE n == login[t].token
  <2>1. /\ store' = n /\ login[t].pc = "granted"
        /\ login' = [login EXCEPT ![t] = NoLogin]
        /\ UNCHANGED <<issued, taker, refresh, logout>>
    BY <1>4 DEF LoginAnswer, server
  <2>2. Unspent(n)
    BY <2>1 DEF Spending
  <2>3. login'[t].pc = "idle" /\ \A u \in Tabs \ {t} : login'[u] = login[u]
    BY <2>1, ResetOK
  <2>4. ASSUME NEW m, Unspent(m), m # n PROVE Unspent(m)'
    BY <2>1, <2>4 DEF Unspent
  <2>5. /\ \A u \in Tabs : refresh[u].pc = "granted" => refresh[u].token # n
        /\ \A u \in Tabs \ {t} : login[u].pc = "granted" => login[u].token # n
    BY <2>1 DEF Spending
  <2>6. taker'[store'] = Nobody /\ Nobody \notin Tabs
    BY <2>1, <2>2 DEF Unspent, SessionConstants
  <2>7. TabNeverRacesItself'
    BY <2>1 DEF Spending, TabNeverRacesItself
  <2> HIDE DEF n
  <2>8. QED BY <2>1, <2>3, <2>4, <2>5, <2>6, <2>7 DEF Spending
<1>5. QED BY <1>1, <1>2, <1>3, <1>4 DEF LoginStep

LEMMA SpendingLogout ==
    ASSUME SessionConstants, Typed, Spending, NEW t \in Tabs, LogoutStep(t) \/ LogoutSend(t)
    PROVE  Spending'
<1>1. CASE LogoutSend(t)
  <2>1. /\ logout' = [logout EXCEPT ![t] = [pc |-> "find", token |-> store]]
        /\ UNCHANGED <<issued, taker, store, refresh, login>>
    BY <1>1 DEF LogoutSend, server
  <2>2. [pc |-> "find", token |-> store] \in LogoutState
    BY Held DEF LogoutState
  <2>3. QED BY <2>1, <2>2, ResetOK, SpendingFrame
<1>2. CASE LogoutAnswer(t)
  <2>1. /\ logout' = [logout EXCEPT ![t] = NoLogout] /\ store' = 0
        /\ UNCHANGED <<issued, taker, refresh, login>>
    BY <1>2 DEF LogoutAnswer, server
  <2>2. QED BY <2>1, ResetOK, SpendingFrame DEF Sent
<1>3. CASE LogoutFind(t)
  <2>1. PICK pc \in {"answered", "delete", "waiting"} : LogoutTo(t, pc)
    BY <1>3 DEF LogoutFind
  <2>2. /\ UNCHANGED refresh \/ (~Refreshing(t) /\ BeginRefresh(t))
        /\ UNCHANGED <<issued, taker, store, login>>
        /\ logout[t].pc = "find"
    BY <1>3 DEF LogoutFind, server
  <2>3. \A u \in Tabs : logout'[u].pc \in Sent =>
           logout[u].pc \in Sent /\ logout'[u].token = logout[u].token
    BY <2>1, <2>2, LogoutOK DEF Sent
  <2>4. QED BY <2>2, <2>3, SpendingBegin, SpendingFrame
<1>4. CASE LogoutDelete(t)
  <2> DEFINE k == logout[t].token
  <2>1. /\ LogoutTo(t, "answered") /\ logout[t].pc = "delete"
        /\ UNCHANGED <<issued, store, refresh, login>>
        /\ taker' = [taker EXCEPT ![k] = Nobody] \/ taker' = taker
    BY <1>4 DEF LogoutDelete, Delete
  <2>2. k \in 1..issued
    BY <2>1, Held
  <2>3. \A n \in 1..issued : taker'[n] = Nobody \/ taker'[n] = taker[n]
    BY <2>1, <2>2, Held
  <2>4. \A u \in Tabs : logout'[u].pc \in Sent =>
           logout[u].pc \in Sent /\ logout'[u].token = logout[u].token
    BY <2>1, LogoutOK DEF Sent
  <2>5. ASSUME NEW n \in 1..issued, Unspent(n) PROVE Unspent(n)'
    BY <2>1, <2>3, <2>4, <2>5 DEF Unspent
  <2>6. \A u \in Tabs : /\ refresh[u].pc = "granted" => refresh[u].token \in 1..issued
                        /\ login[u].pc = "granted" => login[u].token \in 1..issued
                        /\ refresh[u].pc \in Sent => refresh[u].token \in 1..issued
    BY Held
  <2>7. store # 0 => store \in 1..issued
    BY Held
  <2>8. Nobody \notin Tabs
    BY DEF SessionConstants
  <2>9. TabNeverRacesItself'
    BY <2>1, <2>3, <2>6, <2>8 DEF Spending, TabNeverRacesItself, Sent
  <2> HIDE DEF k
  <2>10. QED BY <2>1, <2>3, <2>5, <2>6, <2>7, <2>8, <2>9 DEF Spending
<1>5. QED BY <1>1, <1>2, <1>3, <1>4 DEF LogoutStep

LEMMA SpendingStep ==
    ASSUME SessionConstants, Typed, Spending, [SessionNext]_sessionVars
    PROVE  Spending'
<1>1. CASE UNCHANGED sessionVars
  BY <1>1, SpendingFrame DEF sessionVars
<1>2. ASSUME NEW c \in Calls, CallSend(c) \/ CallServe(c) \/ CallRejected(c) PROVE Spending'
  <2>1. TabOf[c] \in Tabs
    BY DEF SessionConstants
  <2>2. /\ UNCHANGED refresh \/ (~Refreshing(TabOf[c]) /\ BeginRefresh(TabOf[c]))
        /\ UNCHANGED <<issued, taker, store, login, logout>>
    BY <1>2 DEF CallSend, CallServe, CallRejected, server
  <2>3. QED BY <2>1, <2>2, SpendingBegin, SpendingFrame
<1>3. ASSUME NEW n \in 1..issued, AccessExpires(n) \/ RefreshExpires(n) PROVE Spending'
  <2>1. UNCHANGED <<issued, taker, store, refresh, login, logout>>
    BY <1>3 DEF AccessExpires, RefreshExpires, tabs
  <2>2. QED BY <2>1, SpendingFrame
<1>4. FormTabs \subseteq Tabs
  BY DEF SessionConstants
<1>5. QED
  BY <1>1, <1>2, <1>3, <1>4, SpendingRefresh, SpendingLogin, SpendingLogout, Zenon
     DEF SessionNext, CallStep

\* The calls of one tab never compete for its refresh token: while a tab has a
\* refresh in progress its other calls wait, and by the time the next one begins
\* the stored token is another tab's, the new one, or none.
THEOREM TabNeverRacesItselfCorrect ==
    ASSUME SessionConstants PROVE SessionSpec => []TabNeverRacesItself
<1>1. SessionInit => Spending
  BY DEF SessionInit, Spending, TabNeverRacesItself, NoRefresh, NoLogin
<1>2. Spending => TabNeverRacesItself
  BY DEF Spending
<1>3. QED BY <1>1, <1>2, SessionTypeInit, SessionTypeStep, SpendingStep, PTL DEF SessionSpec
=============================================================================
