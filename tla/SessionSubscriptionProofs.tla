--------------------- MODULE SessionSubscriptionProofs ---------------------
(***************************************************************************)
(* Sessions and subscriptions, for every set of users and browsers, of     *)
(* finitely many subscriptions, calls and runners, and any failures.       *)
(*                                                                         *)
(* Sessions come first: a refresh token is exchanged for one session, a    *)
(* reset of the password ends the sessions but those it overtook, and a    *)
(* browser without a reason to be signed out keeps the token of a live     *)
(* session.  SessInv is the inductive invariant they follow from.          *)
(*                                                                         *)
(* Then subscriptions: charges are accounted for because those who have    *)
(* charged and not yet served are counted (Buyers, Chargers); a VM of an   *)
(* active subscription stays because nobody is about to renew one that is  *)
(* leaving (LeavingIsFinal), and a row is made once (RowIsNew); the total  *)
(* of the refunds is backed because a refund has credited more than what   *)
(* it read (RefundsKnown).  SubInv is their inductive invariant.           *)
(***************************************************************************)
EXTENDS Sessions, Subscriptions, SumsProofs

-----------------------------------------------------------------------------
(***************************************************************************)
(* The inductive invariant.                                                *)
(***************************************************************************)
TypesOK ==
    /\ TypeOK
    /\ seen \in [Requests -> Nat] /\ kind \in [Requests -> {"call", "login", "logout"}]
    /\ exchanged \in [Tokens -> Nat] /\ born \in [Tokens -> Nat]
    /\ signedIn \subseteq Browsers /\ excused \subseteq Browsers

\* The steps of an exchange up to the delete; an exchange goes on until its
\* answer is adopted.
Exchanges == {"refreshing", "found", "deleted"}
Exchanging(r) == pc[r] \in Exchanges \/ (pc[r] = "answered" /\ r \in again)

\* A row whose token was exchanged is gone for good, and between the delete and
\* the insert the token is one call's own.
TokensOK ==
    /\ aged \subseteq 1 .. issued
    /\ \A k \in Tokens : /\ session[k] # None \/ k > issued => exchanged[k] = 0
                         /\ k > issued => session[k] = None
                         /\ exchanged[k] <= 1
    /\ \A r \in Requests :
         /\ pc[r] \in Exchanges => carried[r] # NoToken
         /\ pc[r] = "deleted" => session[carried[r]] = None /\ exchanged[carried[r]] = 0
    /\ \A r, q \in Requests :
         r # q /\ pc[r] = "deleted" /\ pc[q] = "deleted" => carried[r] # carried[q]

\* A call that looked before a reset is among those the reset overtook.
Watched ==
    \A r \in Requests :
        pc[r] \in Looked /\ seen[r] < epoch[User(r)] => <<"call", r>> \in raced

\* How far a call is says whether it exchanges a token, and whose browser has
\* a reason to be signed out.
StagesOK ==
    \A r \in Requests :
        /\ pc[r] \in {"idle", "password", "second", "passed"} => r \notin again
        /\ pc[r] \in Exchanges => r \in again
        /\ Exchanging(r) => Browser(r) \in signedIn
        /\ pc[r] \in {"leaving", "left", "refused"} => Browser(r) \in excused

\* No token is in two browsers, ...
Apart ==
    /\ \A b, c \in Browsers : stored[b] = stored[c] /\ stored[b] # NoToken => b = c
    /\ \A r \in Requests, b \in Browsers :
         carried[r] = stored[b] /\ stored[b] # NoToken => b = Browser(r)
    /\ \A r, q \in Requests :
         carried[r] = carried[q] /\ carried[r] # NoToken => Browser(r) = Browser(q)

\* ... and a token that is on its way to the client is nowhere else.
NewTokens ==
    \A r \in Requests : pc[r] = "answered" =>
        /\ carried[r] # NoToken
        /\ \A b \in Browsers : stored[b] # carried[r]
        /\ \A q \in Requests : q # r => carried[q] # carried[r]

Good(k, u) == k # NoToken /\ session[k] = u /\ k \notin aged

\* In a browser without a reason to be signed out one call at most exchanges a
\* token, its page is there, and the token it presents or brings is good.
OneExchange ==
    \A r \in Requests : Browser(r) \notin excused =>
        /\ pc[r] \in {"refreshing", "found", "answered"} => Good(carried[r], User(r))
        /\ Exchanging(r) => r \notin gone
        /\ \A q \in Requests : q # r /\ Browser(q) = Browser(r) => ~(Exchanging(r) /\ Exchanging(q))

Pending(b) == \E r \in Of(b) : pc[r] \in {"deleted", "answered"} /\ r \in again

\* It keeps a token that is good unless the next one is being made.
KeepsToken ==
    \A b \in Browsers :
        /\ stored[b] # NoToken => b \in signedIn
        /\ b \in signedIn \ excused =>
             stored[b] # NoToken /\ (Good(stored[b], UserOf[b]) \/ Pending(b))

SessInv ==
    /\ TypesOK /\ TokensOK /\ Watched /\ ResetEndsSessions
    /\ StagesOK /\ Apart /\ NewTokens /\ OneExchange /\ KeepsToken

-----------------------------------------------------------------------------
\* The initial state satisfies the invariant.
LEMMA InitInv == ASSUME Init PROVE SessInv
  <1> USE SessionsAssumption DEF Init, NoToken
  <1>1. TypesOK
    BY DEF TypesOK, TypeOK, Access, Refreshing, Looked, NoToken
  <1>2. TokensOK
    BY DEF TokensOK, Exchanges
  <1>3. Watched /\ ResetEndsSessions
    BY DEF Watched, ResetEndsSessions, Looked
  <1>4. StagesOK /\ OneExchange
    BY DEF StagesOK, OneExchange, Exchanging, Exchanges
  <1>5. Apart /\ NewTokens
    BY DEF Apart, NewTokens
  <1>6. KeepsToken
    BY DEF KeepsToken
  <1> QED
    BY <1>1, <1>2, <1>3, <1>4, <1>5, <1>6 DEF SessInv

\* Everybody has a tab, a browser and a user.
LEMMA Places ==
    /\ \A r \in Requests : TabOf[r] \in Tabs /\ Browser(r) \in Browsers /\ User(r) \in Users
                           /\ UserOf[Browser(r)] = User(r)
    /\ \A t \in Tabs : BrowserOf[t] \in Browsers
    /\ \A b \in Browsers : UserOf[b] \in Users
    /\ None \notin Users
  BY SessionsAssumption DEF Browser, User

\* A step keeps the types.
LEMMA TypeStep ==
    ASSUME SessInv, Next
    PROVE  TypesOK'
  <1>1. /\ session \in [Tokens -> Users \cup {None}] /\ aged \subseteq Tokens
        /\ issued \in 0 .. MaxCalls /\ epoch \in [Users -> 0 .. MaxResets]
        /\ access \in [Tabs -> Access] /\ kept \in [Browsers -> Access]
        /\ stored \in [Browsers -> 0 .. issued] /\ carried \in [Requests -> 0 .. issued]
        /\ pc \in [Requests -> Refreshing \cup Looked \cup
                     {"idle", "password", "denied", "refused", "failed", "leaving", "left"}]
        /\ again \subseteq Requests /\ gone \subseteq Requests
        /\ seen \in [Requests -> Nat] /\ kind \in [Requests -> {"call", "login", "logout"}]
        /\ exchanged \in [Tokens -> Nat] /\ born \in [Tokens -> Nat]
        /\ signedIn \subseteq Browsers /\ excused \subseteq Browsers
    BY DEF SessInv, TypesOK, TypeOK
  <1>2. MaxCalls \in Nat /\ MaxResets \in Nat
    BY SessionsAssumption
  <1> USE <1>1, <1>2, Places DEF Access, Refreshing, Looked, NoToken, TypesOK, TypeOK
  <1>3. ASSUME NEW r \in Requests,
         \/ Login(r) \/ Send(r) \/ Logout(r) \/ Load(r) \/ Break(r)
         \/ ExchangeToken(r) \/ Adopt(r) \/ SignOut(r)
         \/ Discard(r) \/ LeaveAfterLogout(r) \/ CheckPassword(r) \/ VerifyTotp(r)
         \/ FindSession(r) \/ DeleteSession(r) \/ GenerateTokens(r) \/ DeleteSessions(r)
         PROVE  TypesOK'
    <2>1. CASE Login(r)
      BY <2>1 DEF Login, Start, Reset, Goto, server, client, local, history, bounds
    <2>2. CASE Send(r)
      BY <2>2 DEF Send, Start, Reset, Goto, server, client, local, history, bounds
    <2>3. CASE Logout(r)
      BY <2>3 DEF Logout, Start, Reset, Goto, Excuse, server, client, local, history, bounds
    <2>4. CASE Load(r)
      BY <2>4 DEF Load, Goto, InFlight, Of, server, client, local, history, bounds
    <2>5. CASE Break(r)
      BY <2>5 DEF Break, Goto, Excuse, server, client, local, history, bounds
    <2>6. CASE ExchangeToken(r)
      BY <2>6 DEF ExchangeToken, Goto, server, client, local, history, bounds
    <2>7. CASE Adopt(r)
      BY <2>7 DEF Adopt, Goto, Finish, Reset, server, client, local, history, bounds
    <2>8. CASE SignOut(r)
      BY <2>8 DEF SignOut, Clear, Finish, Goto, Reset, InFlight, Of, server, client, local,
       history, bounds
    <2>9. CASE Discard(r)
      BY <2>9 DEF Discard, Finish, Goto, Reset, server, client, local, history, bounds
    <2>10. CASE LeaveAfterLogout(r)
      BY <2>10 DEF LeaveAfterLogout, Clear, Finish, Goto, Reset, server, client, local,
       history, bounds
    <2>11. CASE CheckPassword(r)
      BY <2>11 DEF CheckPassword, Goto, server, client, local, history, bounds
    <2>12. CASE VerifyTotp(r)
      BY <2>12 DEF VerifyTotp, Goto, server, client, local, history, bounds
    <2>13. CASE FindSession(r)
      BY <2>13 DEF FindSession, Goto, server, client, local, history, bounds
    <2>14. CASE DeleteSession(r)
      BY <2>14 DEF DeleteSession, Goto, server, client, local, history, bounds
    <2>15. CASE GenerateTokens(r)
      <3>1. issued' = issued + 1 /\ issued' \in Tokens /\ issued' \in 0 .. MaxCalls
        BY <2>15 DEF GenerateTokens, Tokens
      <3>2. \A k \in 0 .. issued : k \in 0 .. issued'
        BY <3>1
      <3>3. /\ session' = [session EXCEPT ![issued'] = User(r)]
            /\ carried' = [carried EXCEPT ![r] = issued']
            /\ born' = [born EXCEPT ![issued'] = seen[r]]
            /\ exchanged' = exchanged \/ exchanged' = [exchanged EXCEPT ![carried[r]] = @ + 1]
            /\ pc' = [pc EXCEPT ![r] = "answered"]
            /\ UNCHANGED <<aged, epoch, client, kind, seen, again, gone, signedIn, excused>>
        BY <2>15 DEF GenerateTokens, Goto
      <3>4. session' \in [Tokens -> Users \cup {None}] /\ born' \in [Tokens -> Nat]
        BY <3>1, <3>3
      <3>5. carried' \in [Requests -> 0 .. issued'] /\ stored' \in [Browsers -> 0 .. issued']
        BY <3>1, <3>2, <3>3 DEF client
      <3>6. exchanged' \in [Tokens -> Nat]
        BY <3>3
      <3> QED
        BY <3>1, <3>3, <3>4, <3>5, <3>6 DEF client
    <2>16. CASE DeleteSessions(r)
      BY <2>16 DEF DeleteSessions, Goto, server, client, local, history, bounds
    <2> QED
      BY <1>3, <2>1, <2>2, <2>3, <2>4, <2>5, <2>6, <2>7, <2>8, <2>9, <2>10, <2>11, <2>12,
       <2>13, <2>14, <2>15, <2>16
  <1>4. ASSUME NEW u \in Users, ResetPassword(u)
       PROVE  TypesOK'
    BY <1>4 DEF ResetPassword, server, client, local, history, bounds
  <1>5. ASSUME NEW t \in Tabs, AccessExpires(t)
       PROVE  TypesOK'
    BY <1>5 DEF AccessExpires, server, client, local, history, bounds
  <1>6. ASSUME NEW t \in Tabs, MeFails(t)
       PROVE  TypesOK'
    BY <1>6 DEF MeFails, Clear, Excuse, server, client, local, history, bounds
  <1>7. ASSUME NEW b \in Browsers, KeptExpires(b)
       PROVE  TypesOK'
    BY <1>7 DEF KeptExpires, server, client, local, history, bounds
  <1>8. ASSUME NEW k \in Tokens, SessionExpires(k)
       PROVE  TypesOK'
    BY <1>8 DEF SessionExpires, server, client, local, history, bounds
  <1> QED
    BY <1>3, <1>4, <1>5, <1>6, <1>7, <1>8 DEF Next, Serve

\* A step keeps an exchanged token from being exchanged again.
LEMMA TokensStep ==
    ASSUME SessInv, Next
    PROVE  TokensOK'
  <1>1. TypesOK
    BY DEF SessInv
  <1>2. MaxCalls \in Nat /\ MaxResets \in Nat
    BY SessionsAssumption
  <1>3. TokensOK
    BY DEF SessInv
  <1> USE <1>1, <1>2, <1>3, Places
      DEF TypesOK, TypeOK, TokensOK, Refreshing, Looked, NoToken, Exchanges
  <1>4. ASSUME NEW r \in Requests,
         \/ Login(r) \/ Send(r) \/ Logout(r) \/ Load(r) \/ Break(r)
         \/ ExchangeToken(r) \/ Adopt(r) \/ SignOut(r)
         \/ Discard(r) \/ LeaveAfterLogout(r) \/ CheckPassword(r) \/ VerifyTotp(r)
         \/ FindSession(r) \/ DeleteSession(r) \/ GenerateTokens(r) \/ DeleteSessions(r)
         PROVE  TokensOK'
    <2>1. CASE Login(r)
      BY <2>1 DEF Login, Start, Reset, Goto, server, client, local, history, bounds
    <2>2. CASE Send(r)
      BY <2>2 DEF Send, Start, Reset, Goto, server, client, local, history, bounds
    <2>3. CASE Logout(r)
      BY <2>3 DEF Logout, Start, Reset, Goto, Excuse, server, client, local, history, bounds
    <2>4. CASE Load(r)
      BY <2>4 DEF Load, Goto, server, client, local, history, bounds
    <2>5. CASE Break(r)
      BY <2>5 DEF Break, Goto, Excuse, server, client, local, history, bounds
    <2>6. CASE ExchangeToken(r)
      BY <2>6 DEF ExchangeToken, Goto, server, client, local, history, bounds
    <2>7. CASE Adopt(r)
      BY <2>7 DEF Adopt, Goto, Finish, Reset, server, client, local, history, bounds
    <2>8. CASE SignOut(r)
      BY <2>8 DEF SignOut, Clear, Finish, Goto, Reset, server, client, local, history, bounds
    <2>9. CASE Discard(r)
      BY <2>9 DEF Discard, Finish, Goto, Reset, server, client, local, history, bounds
    <2>10. CASE LeaveAfterLogout(r)
      BY <2>10 DEF LeaveAfterLogout, Clear, Finish, Goto, Reset, server, client, local,
       history, bounds
    <2>11. CASE CheckPassword(r)
      BY <2>11 DEF CheckPassword, Goto, server, client, local, history, bounds
    <2>12. CASE VerifyTotp(r)
      BY <2>12 DEF VerifyTotp, Goto, server, client, local, history, bounds
    <2>13. CASE FindSession(r)
      BY <2>13 DEF FindSession, Goto, server, client, local, history, bounds
    <2>14. CASE DeleteSession(r)
      <3>1. \A q \in Requests : pc[q] \in Exchanges => carried[q] \in Tokens
        <4>1. \A q \in Requests : carried[q] \in 0 .. issued /\ issued \in 0 .. MaxCalls
          OBVIOUS
        <4>2. \A q \in Requests : pc[q] \in Exchanges => carried[q] # NoToken
          OBVIOUS
        <4> HIDE <1>1, <1>3
        <4> QED
          BY <4>1, <4>2 DEF Tokens
      <3>2. /\ pc' = [pc EXCEPT ![r] = IF session[carried[r]] # None THEN "deleted" ELSE "refused"]
            /\ session' = [session EXCEPT ![carried[r]] = None]
            /\ UNCHANGED <<carried, aged, issued, exchanged>>
        BY <2>14 DEF DeleteSession, Goto, local, history
      <3>3. carried[r] \in Tokens
        BY <3>1, <2>14 DEF DeleteSession
      <3>4. \A k \in Tokens : /\ session'[k] # None \/ k > issued => exchanged[k] = 0
                             /\ k > issued => session'[k] = None
                             /\ exchanged[k] <= 1
        BY <3>2, <3>3
      <3>5. \A q \in Requests :
              /\ pc'[q] \in Exchanges => carried[q] # NoToken
              /\ pc'[q] = "deleted" => session'[carried[q]] = None /\ exchanged[carried[q]] = 0
        BY <3>1, <3>2, <3>3, <2>14 DEF DeleteSession
      <3>6. \A q, p \in Requests :
              q # p /\ pc'[q] = "deleted" /\ pc'[p] = "deleted" => carried[q] # carried[p]
        BY <3>2
      <3> HIDE <1>2, <1>3, Places
      <3> QED
        BY <1>3, <3>2, <3>4, <3>5, <3>6
    <2>15. CASE GenerateTokens(r)
      <3>1. /\ issued' = issued + 1 /\ issued' \in Tokens
            /\ carried'[r] = issued' /\ pc'[r] = "answered"
            /\ \A q \in Requests : q # r => carried'[q] = carried[q] /\ pc'[q] = pc[q]
            /\ \A k \in Tokens : session'[k] = IF k = issued' THEN User(r) ELSE session[k]
            /\ aged' = aged
        BY <2>15 DEF GenerateTokens, Goto, Tokens
      <3>2. \A q \in Requests : pc[q] = "deleted" =>
              /\ carried[q] \in 1 .. issued
              /\ exchanged[carried[q]] = 0 /\ session[carried[q]] = None
        OBVIOUS
      <3>3. \A k \in 1 .. issued : k \in Tokens /\ k # issued' /\ k \in 1 .. issued'
        BY <3>1 DEF Tokens
      <3>4. \A k \in Tokens :
              exchanged'[k] = IF pc[r] = "deleted" /\ k = carried[r] THEN 1 ELSE exchanged[k]
        BY <2>15, <3>2, <3>3 DEF GenerateTokens
      <3>5. ASSUME NEW k \in Tokens
            PROVE  /\ session'[k] # None \/ k > issued' => exchanged'[k] = 0
                   /\ k > issued' => session'[k] = None
                   /\ exchanged'[k] <= 1
        <4>1. k \in Nat /\ issued \in Nat
          BY DEF Tokens
        <4>2. CASE pc[r] = "deleted" /\ k = carried[r]
          BY <3>1, <3>2, <3>3, <3>4, <4>1, <4>2
        <4>3. CASE ~(pc[r] = "deleted" /\ k = carried[r])
          BY <3>1, <3>4, <4>1, <4>3
        <4> QED
          BY <4>2, <4>3
      <3>6. ASSUME NEW q \in Requests, pc'[q] = "deleted"
            PROVE  session'[carried'[q]] = None /\ exchanged'[carried'[q]] = 0
        <4>1. q # r /\ pc[q] = "deleted" /\ carried'[q] = carried[q]
          BY <3>1, <3>6
        <4>2. pc[r] = "deleted" => carried[q] # carried[r]
          BY <4>1
        <4>3. carried[q] \in Tokens /\ carried[q] # issued'
          BY <3>2, <3>3, <4>1
        <4> QED
          BY <3>1, <3>2, <3>4, <4>1, <4>2, <4>3
      <3>7. \A q \in Requests : pc'[q] \in Exchanges => carried'[q] # NoToken
        BY <3>1
      <3>8. \A q, p \in Requests :
              q # p /\ pc'[q] = "deleted" /\ pc'[p] = "deleted" => carried'[q] # carried'[p]
        BY <3>1
      <3>9. aged' \subseteq 1 .. issued'
        BY <3>1, <3>3
      <3> HIDE <1>1, <1>2, <1>3, Places
      <3> QED
        BY <3>5, <3>6, <3>7, <3>8, <3>9
    <2>16. CASE DeleteSessions(r)
      BY <2>16 DEF DeleteSessions, Goto, Tokens, server, client, local, history, bounds
    <2> QED
      BY <1>4, <2>1, <2>2, <2>3, <2>4, <2>5, <2>6, <2>7, <2>8, <2>9, <2>10, <2>11, <2>12,
       <2>13, <2>14, <2>15, <2>16
  <1>5. ASSUME NEW u \in Users, ResetPassword(u)
       PROVE  TokensOK'
    BY <1>5 DEF ResetPassword, Tokens, server, client, local, history, bounds
  <1>6. ASSUME NEW t \in Tabs, AccessExpires(t)
       PROVE  TokensOK'
    BY <1>6 DEF AccessExpires, server, client, local, history, bounds
  <1>7. ASSUME NEW t \in Tabs, MeFails(t)
       PROVE  TokensOK'
    BY <1>7 DEF MeFails, Clear, Excuse, server, client, local, history, bounds
  <1>8. ASSUME NEW b \in Browsers, KeptExpires(b)
       PROVE  TokensOK'
    BY <1>8 DEF KeptExpires, server, client, local, history, bounds
  <1>9. ASSUME NEW k \in Tokens, SessionExpires(k)
       PROVE  TokensOK'
    BY <1>9 DEF SessionExpires, Tokens, server, client, local, history, bounds
  <1> QED
    BY <1>4, <1>5, <1>6, <1>7, <1>8, <1>9 DEF Next, Serve

\* A step keeps what a reset of the password promises.
LEMMA ResetStep ==
    ASSUME SessInv, Next
    PROVE  Watched' /\ ResetEndsSessions'
  <1>1. TypesOK
    BY DEF SessInv
  <1>2. MaxCalls \in Nat /\ MaxResets \in Nat
    BY SessionsAssumption
  <1>3. Watched /\ ResetEndsSessions /\ TokensOK
    BY DEF SessInv
  <1> USE <1>1, <1>2, <1>3, Places
      DEF TypesOK, TypeOK, Watched, ResetEndsSessions, Looked, Refreshing
  <1>4. ASSUME NEW r \in Requests,
         \/ Login(r) \/ Send(r) \/ Logout(r) \/ Load(r) \/ Break(r)
         \/ ExchangeToken(r) \/ Adopt(r) \/ SignOut(r)
         \/ Discard(r) \/ LeaveAfterLogout(r) \/ CheckPassword(r) \/ VerifyTotp(r)
         \/ FindSession(r) \/ DeleteSession(r) \/ GenerateTokens(r) \/ DeleteSessions(r)
         PROVE  Watched' /\ ResetEndsSessions'
    <2>1. CASE Login(r)
      BY <2>1 DEF Login, Start, Reset, Goto, server, client, local, history, bounds
    <2>2. CASE Send(r)
      BY <2>2 DEF Send, Start, Reset, Goto, server, client, local, history, bounds
    <2>3. CASE Logout(r)
      BY <2>3 DEF Logout, Start, Reset, Goto, Excuse, server, client, local, history, bounds
    <2>4. CASE Load(r)
      BY <2>4 DEF Load, Goto, server, client, local, history, bounds
    <2>5. CASE Break(r)
      BY <2>5 DEF Break, Goto, Excuse, server, client, local, history, bounds
    <2>6. CASE ExchangeToken(r)
      BY <2>6 DEF ExchangeToken, Goto, server, client, local, history, bounds
    <2>7. CASE Adopt(r)
      BY <2>7 DEF Adopt, Goto, Finish, Reset, server, client, local, history, bounds
    <2>8. CASE SignOut(r)
      BY <2>8 DEF SignOut, Clear, Finish, Goto, Reset, server, client, local, history, bounds
    <2>9. CASE Discard(r)
      BY <2>9 DEF Discard, Finish, Goto, Reset, server, client, local, history, bounds
    <2>10. CASE LeaveAfterLogout(r)
      BY <2>10 DEF LeaveAfterLogout, Clear, Finish, Goto, Reset, server, client, local,
       history, bounds
    <2>11. CASE CheckPassword(r)
      BY <2>11 DEF CheckPassword, Goto, server, client, local, history, bounds
    <2>12. CASE VerifyTotp(r)
      BY <2>12 DEF VerifyTotp, Goto, server, client, local, history, bounds
    <2>13. CASE FindSession(r)
      BY <2>13 DEF FindSession, Goto, server, client, local, history, bounds
    <2>14. CASE DeleteSession(r)
      BY <2>14 DEF DeleteSession, Goto, server, client, local, history, bounds
    <2>15. CASE GenerateTokens(r)
      BY <2>15 DEF GenerateTokens, Goto, Tokens, server, client, local, history, bounds
    <2>16. CASE DeleteSessions(r)
      BY <2>16 DEF DeleteSessions, Goto, server, client, local, history, bounds
    <2> QED
      BY <1>4, <2>1, <2>2, <2>3, <2>4, <2>5, <2>6, <2>7, <2>8, <2>9, <2>10, <2>11, <2>12,
       <2>13, <2>14, <2>15, <2>16
  <1>5. ASSUME NEW u \in Users, ResetPassword(u)
       PROVE  Watched' /\ ResetEndsSessions'
    BY <1>5 DEF ResetPassword, server, client, local, history, bounds
  <1>6. ASSUME NEW t \in Tabs, AccessExpires(t)
       PROVE  Watched' /\ ResetEndsSessions'
    BY <1>6 DEF AccessExpires, server, client, local, history, bounds
  <1>7. ASSUME NEW t \in Tabs, MeFails(t)
       PROVE  Watched' /\ ResetEndsSessions'
    BY <1>7 DEF MeFails, Clear, Excuse, server, client, local, history, bounds
  <1>8. ASSUME NEW b \in Browsers, KeptExpires(b)
       PROVE  Watched' /\ ResetEndsSessions'
    BY <1>8 DEF KeptExpires, server, client, local, history, bounds
  <1>9. ASSUME NEW k \in Tokens, SessionExpires(k)
       PROVE  Watched' /\ ResetEndsSessions'
    BY <1>9 DEF SessionExpires, server, client, local, history, bounds
  <1> QED
    BY <1>4, <1>5, <1>6, <1>7, <1>8, <1>9 DEF Next, Serve

\* A step keeps the link between how far a call is and its browser.
LEMMA StagesStep ==
    ASSUME SessInv, Next
    PROVE  StagesOK'
  <1>1. TypesOK
    BY DEF SessInv
  <1>2. MaxCalls \in Nat /\ MaxResets \in Nat
    BY SessionsAssumption
  <1>3. StagesOK /\ KeepsToken /\ OneExchange
    BY DEF SessInv
  <1> USE <1>1, <1>2, <1>3, Places
      DEF TypesOK, TypeOK, StagesOK, Exchanging, Exchanges, Looked, Refreshing, NoToken
  <1>4. ASSUME NEW r \in Requests,
         \/ Login(r) \/ Send(r) \/ Logout(r) \/ Load(r) \/ Break(r)
         \/ ExchangeToken(r) \/ Adopt(r) \/ SignOut(r)
         \/ Discard(r) \/ LeaveAfterLogout(r) \/ CheckPassword(r) \/ VerifyTotp(r)
         \/ FindSession(r) \/ DeleteSession(r) \/ GenerateTokens(r) \/ DeleteSessions(r)
         PROVE  StagesOK'
    <2>1. CASE Login(r)
      BY <2>1 DEF Login, Start, Reset, Goto, server, client, local, history, bounds
    <2>2. CASE Send(r)
      BY <2>2 DEF Send, Start, Reset, Goto, server, client, local, history, bounds
    <2>3. CASE Logout(r)
      BY <2>3 DEF Logout, Start, Reset, Goto, Excuse, server, client, local, history, bounds
    <2>4. CASE Load(r)
      BY <2>4 DEF Load, Goto, server, client, local, history, bounds
    <2>5. CASE Break(r)
      BY <2>5 DEF Break, Goto, Excuse, server, client, local, history, bounds
    <2>6. CASE ExchangeToken(r)
      BY <2>6 DEF ExchangeToken, Goto, KeepsToken, server, client, local, history, bounds
    <2>7. CASE Adopt(r)
      BY <2>7 DEF Adopt, Goto, Finish, Reset, server, client, local, history, bounds
    <2>8. CASE SignOut(r)
      BY <2>8 DEF SignOut, Clear, Finish, Goto, Reset, InFlight, Of, server, client, local,
       history, bounds
    <2>9. CASE Discard(r)
      BY <2>9 DEF Discard, Finish, Goto, Reset, server, client, local, history, bounds
    <2>10. CASE LeaveAfterLogout(r)
      BY <2>10 DEF LeaveAfterLogout, Clear, Finish, Goto, Reset, server, client, local,
       history, bounds
    <2>11. CASE CheckPassword(r)
      BY <2>11 DEF CheckPassword, Goto, server, client, local, history, bounds
    <2>12. CASE VerifyTotp(r)
      BY <2>12 DEF VerifyTotp, Goto, server, client, local, history, bounds
    <2>13. CASE FindSession(r)
      BY <2>13 DEF FindSession, Goto, OneExchange, Good, server, client, local, history, bounds
    <2>14. CASE DeleteSession(r)
      BY <2>14 DEF DeleteSession, Goto, OneExchange, Good, server, client, local, history, bounds
    <2>15. CASE GenerateTokens(r)
      BY <2>15 DEF GenerateTokens, Goto, server, client, local, history, bounds
    <2>16. CASE DeleteSessions(r)
      BY <2>16 DEF DeleteSessions, Goto, server, client, local, history, bounds
    <2> QED
      BY <1>4, <2>1, <2>2, <2>3, <2>4, <2>5, <2>6, <2>7, <2>8, <2>9, <2>10, <2>11, <2>12,
       <2>13, <2>14, <2>15, <2>16
  <1>5. ASSUME NEW u \in Users, ResetPassword(u)
       PROVE  StagesOK'
    BY <1>5 DEF ResetPassword, server, client, local, history, bounds
  <1>6. ASSUME NEW t \in Tabs, AccessExpires(t)
       PROVE  StagesOK'
    BY <1>6 DEF AccessExpires, server, client, local, history, bounds
  <1>7. ASSUME NEW t \in Tabs, MeFails(t)
       PROVE  StagesOK'
    BY <1>7 DEF MeFails, Clear, Excuse, server, client, local, history, bounds
  <1>8. ASSUME NEW b \in Browsers, KeptExpires(b)
       PROVE  StagesOK'
    BY <1>8 DEF KeptExpires, server, client, local, history, bounds
  <1>9. ASSUME NEW k \in Tokens, SessionExpires(k)
       PROVE  StagesOK'
    BY <1>9 DEF SessionExpires, server, client, local, history, bounds
  <1> QED
    BY <1>4, <1>5, <1>6, <1>7, <1>8, <1>9 DEF Next, Serve

\* A step keeps the tokens of browsers, and the new ones, apart.
LEMMA ApartStep ==
    ASSUME SessInv, Next
    PROVE  Apart' /\ NewTokens'
  <1>1. TypesOK
    BY DEF SessInv
  <1>2. MaxCalls \in Nat /\ MaxResets \in Nat
    BY SessionsAssumption
  <1>3. Apart /\ NewTokens /\ TokensOK /\ StagesOK
    BY DEF SessInv
  <1> USE <1>1, <1>2, <1>3, Places
      DEF TypesOK, TypeOK, Apart, NewTokens, Looked, Refreshing, NoToken
  <1>4. ASSUME NEW r \in Requests,
         \/ Login(r) \/ Send(r) \/ Logout(r) \/ Load(r) \/ Break(r)
         \/ ExchangeToken(r) \/ Adopt(r) \/ SignOut(r)
         \/ Discard(r) \/ LeaveAfterLogout(r) \/ CheckPassword(r) \/ VerifyTotp(r)
         \/ FindSession(r) \/ DeleteSession(r) \/ GenerateTokens(r) \/ DeleteSessions(r)
         PROVE  Apart' /\ NewTokens'
    <2>1. CASE Login(r)
      BY <2>1 DEF Login, Start, Reset, Goto, server, client, local, history, bounds
    <2>2. CASE Send(r)
      BY <2>2 DEF Send, Start, Reset, Goto, server, client, local, history, bounds
    <2>3. CASE Logout(r)
      BY <2>3 DEF Logout, Start, Reset, Goto, Excuse, server, client, local, history, bounds
    <2>4. CASE Load(r)
      BY <2>4 DEF Load, Goto, server, client, local, history, bounds
    <2>5. CASE Break(r)
      BY <2>5 DEF Break, Goto, Excuse, server, client, local, history, bounds
    <2>6. CASE ExchangeToken(r)
      BY <2>6 DEF ExchangeToken, Goto, server, client, local, history, bounds
    <2>7. CASE Adopt(r)
      BY <2>7 DEF Adopt, Goto, Finish, Reset, server, client, local, history, bounds
    <2>8. CASE SignOut(r)
      BY <2>8 DEF SignOut, Clear, Finish, Goto, Reset, server, client, local, history, bounds
    <2>9. CASE Discard(r)
      BY <2>9 DEF Discard, Finish, Goto, Reset, server, client, local, history, bounds
    <2>10. CASE LeaveAfterLogout(r)
      <3>1. /\ carried' = [carried EXCEPT ![r] = NoToken] /\ pc' = [pc EXCEPT ![r] = "idle"]
            /\ \A b \in Browsers : stored'[b] = stored[b] \/ stored'[b] = NoToken
        BY <2>10 DEF LeaveAfterLogout, Clear, Finish, Goto, Reset, client
      <3> QED
        BY <3>1
    <2>11. CASE CheckPassword(r)
      BY <2>11 DEF CheckPassword, Goto, server, client, local, history, bounds
    <2>12. CASE VerifyTotp(r)
      BY <2>12 DEF VerifyTotp, Goto, server, client, local, history, bounds
    <2>13. CASE FindSession(r)
      BY <2>13 DEF FindSession, Goto, server, client, local, history, bounds
    <2>14. CASE DeleteSession(r)
      BY <2>14 DEF DeleteSession, Goto, server, client, local, history, bounds
    <2>15. CASE GenerateTokens(r)
      BY <2>15 DEF GenerateTokens, Goto, server, client, local, history, bounds
    <2>16. CASE DeleteSessions(r)
      BY <2>16 DEF DeleteSessions, Goto, server, client, local, history, bounds
    <2> QED
      BY <1>4, <2>1, <2>2, <2>3, <2>4, <2>5, <2>6, <2>7, <2>8, <2>9, <2>10, <2>11, <2>12,
       <2>13, <2>14, <2>15, <2>16
  <1>5. ASSUME NEW u \in Users, ResetPassword(u)
       PROVE  Apart' /\ NewTokens'
    BY <1>5 DEF ResetPassword, server, client, local, history, bounds
  <1>6. ASSUME NEW t \in Tabs, AccessExpires(t)
       PROVE  Apart' /\ NewTokens'
    BY <1>6 DEF AccessExpires, server, client, local, history, bounds
  <1>7. ASSUME NEW t \in Tabs, MeFails(t)
       PROVE  Apart' /\ NewTokens'
    BY <1>7 DEF MeFails, Clear, Excuse, server, client, local, history, bounds
  <1>8. ASSUME NEW b \in Browsers, KeptExpires(b)
       PROVE  Apart' /\ NewTokens'
    BY <1>8 DEF KeptExpires, server, client, local, history, bounds
  <1>9. ASSUME NEW k \in Tokens, SessionExpires(k)
       PROVE  Apart' /\ NewTokens'
    BY <1>9 DEF SessionExpires, server, client, local, history, bounds
  <1> QED
    BY <1>4, <1>5, <1>6, <1>7, <1>8, <1>9 DEF Next, Serve

\* A step keeps the one exchange of a browser, and its token good.
LEMMA ExchangeStep ==
    ASSUME SessInv, Next
    PROVE  OneExchange'
  <1>1. TypesOK
    BY DEF SessInv
  <1>2. MaxCalls \in Nat /\ MaxResets \in Nat
    BY SessionsAssumption
  <1>3. OneExchange /\ KeepsToken /\ Apart /\ NewTokens /\ TokensOK /\ StagesOK
    BY DEF SessInv
  <1> USE <1>1, <1>2, <1>3, Places
      DEF TypesOK, TypeOK, OneExchange, Exchanging, Exchanges, Looked, Refreshing,
          NoToken, Good
  <1>4. ASSUME NEW r \in Requests,
         \/ Login(r) \/ Send(r) \/ Logout(r) \/ Load(r) \/ Break(r)
         \/ ExchangeToken(r) \/ Adopt(r) \/ SignOut(r)
         \/ Discard(r) \/ LeaveAfterLogout(r) \/ CheckPassword(r) \/ VerifyTotp(r)
         \/ FindSession(r) \/ DeleteSession(r) \/ GenerateTokens(r) \/ DeleteSessions(r)
         PROVE  OneExchange'
    <2>1. CASE Login(r)
      BY <2>1 DEF Login, Start, Reset, Goto, server, client, local, history, bounds
    <2>2. CASE Send(r)
      BY <2>2 DEF Send, Start, Reset, Goto, server, client, local, history, bounds
    <2>3. CASE Logout(r)
      BY <2>3 DEF Logout, Start, Reset, Goto, Excuse, server, client, local, history, bounds
    <2>4. CASE Load(r)
      BY <2>4 DEF Load, Goto, InFlight, Of, server, client, local, history, bounds
    <2>5. CASE Break(r)
      BY <2>5 DEF Break, Goto, Excuse, server, client, local, history, bounds
    <2>6. CASE ExchangeToken(r)
      BY <2>6 DEF ExchangeToken, Goto, KeepsToken, Pending, Of, server, client, local, history,
       bounds
    <2>7. CASE Adopt(r)
      BY <2>7 DEF Adopt, Goto, Finish, Reset, server, client, local, history, bounds
    <2>8. CASE SignOut(r)
      BY <2>8 DEF SignOut, Clear, Finish, Goto, Reset, KeepsToken, InFlight, Of, StagesOK,
       server, client, local, history, bounds
    <2>9. CASE Discard(r)
      BY <2>9 DEF Discard, Finish, Goto, Reset, server, client, local, history, bounds
    <2>10. CASE LeaveAfterLogout(r)
      BY <2>10 DEF LeaveAfterLogout, Clear, Finish, Goto, Reset, server, client, local,
       history, bounds
    <2>11. CASE CheckPassword(r)
      BY <2>11 DEF CheckPassword, Goto, server, client, local, history, bounds
    <2>12. CASE VerifyTotp(r)
      BY <2>12 DEF VerifyTotp, Goto, server, client, local, history, bounds
    <2>13. CASE FindSession(r)
      BY <2>13 DEF FindSession, Goto, server, client, local, history, bounds
    <2>14. CASE DeleteSession(r)
      BY <2>14 DEF DeleteSession, Goto, Apart, NewTokens, Tokens, server, client, local,
       history, bounds
    <2>15. CASE GenerateTokens(r)
      <3>1. /\ issued' = issued + 1 /\ issued' \in Tokens /\ issued' # NoToken
            /\ carried'[r] = issued' /\ pc'[r] = "answered"
            /\ \A q \in Requests : q # r => carried'[q] = carried[q] /\ pc'[q] = pc[q]
            /\ session'[issued'] = User(r)
            /\ \A k \in 0 .. issued : session'[k] = session[k]
            /\ UNCHANGED <<aged, stored, again, gone, signedIn, excused>>
            /\ pc[r] \in {"passed", "deleted"}
        BY <2>15 DEF GenerateTokens, Goto, Tokens, client
      <3>2. issued' \notin aged
        BY <3>1 DEF TokensOK
      <3>3. pc[r] = "passed" => r \notin again
        BY DEF StagesOK
      <3>4. /\ \A q \in Requests : carried[q] \in 0 .. issued
            /\ \A b \in Browsers : stored[b] \in 0 .. issued
        OBVIOUS
      <3>5. \A q \in Requests : Exchanging(q)' => Exchanging(q)
        BY <3>1, <3>3
      <3>6. Good(carried[r], User(r))'
        BY <3>1, <3>2
      <3>7. ASSUME NEW q \in Requests, q # r, Good(carried[q], User(q))
            PROVE  Good(carried[q], User(q))'
        BY <3>1, <3>4, <3>7 DEF User, Browser
      <3>8. ASSUME NEW q \in Requests, Browser(q) \notin excused'
            PROVE  /\ pc'[q] \in {"refreshing", "found", "answered"} => Good(carried[q], User(q))'
                   /\ Exchanging(q)' => q \notin gone'
                   /\ \A p \in Requests :
                        p # q /\ Browser(p) = Browser(q) => ~(Exchanging(q)' /\ Exchanging(p)')
        <4>1. Browser(q) \notin excused
          BY <3>1, <3>8
        <4>2. pc'[q] \in {"refreshing", "found", "answered"} => Good(carried[q], User(q))'
          BY <3>1, <3>6, <3>7, <4>1
        <4> HIDE DEF Exchanging
        <4> QED
          BY <3>1, <3>5, <4>1, <4>2
      <3> HIDE <1>1, <1>2, <1>3, Places DEF Exchanging, Good
      <3> QED
        BY <3>8 DEF Browser
    <2>16. CASE DeleteSessions(r)
      <3>1. /\ pc[r] = "leaving" /\ pc' = [pc EXCEPT ![r] = "left"]
            /\ \A k \in Tokens : session'[k] = IF k = carried[r] THEN None ELSE session[k]
            /\ UNCHANGED <<carried, stored, aged, again, gone, signedIn, excused>>
        BY <2>16 DEF DeleteSessions, Goto, local, history, client
      <3>2. Browser(r) \in excused
        BY <3>1 DEF StagesOK
      <3>3. ASSUME NEW q \in Requests, Browser(q) \notin excused, Good(carried[q], User(q))
            PROVE  Good(carried[q], User(q))'
        <4>1. carried[q] # NoToken
          BY <3>3
        <4>2. carried[q] # carried[r]
          BY <3>2, <3>3, <4>1 DEF Apart
        <4>3. carried[q] \in Tokens
          <5>1. carried[q] \in 0 .. issued /\ issued \in 0 .. MaxCalls
            OBVIOUS
          <5> HIDE <1>1, <1>3 DEF Good
          <5> QED
            BY <4>1, <5>1 DEF Tokens
        <4> QED
          BY <3>1, <3>3, <4>1, <4>2, <4>3 DEF User, Browser
      <3>4. \A q \in Requests : Exchanging(q)' <=> Exchanging(q)
        BY <3>1
      <3>5. \A q \in Requests : pc'[q] \in {"refreshing", "found", "answered"} => pc'[q] = pc[q]
        BY <3>1
      <3> HIDE <1>1, <1>2, Places DEF Exchanging, Good
      <3> QED
        BY <3>1, <3>3, <3>4, <3>5 DEF Browser
    <2> QED
      BY <1>4, <2>1, <2>2, <2>3, <2>4, <2>5, <2>6, <2>7, <2>8, <2>9, <2>10, <2>11, <2>12,
       <2>13, <2>14, <2>15, <2>16
  <1>5. ASSUME NEW u \in Users, ResetPassword(u)
       PROVE  OneExchange'
    <2>1. /\ \A k \in Tokens : session'[k] = IF session[k] = u THEN None ELSE session[k]
          /\ \A b \in Browsers \ excused' : b \notin excused /\ UserOf[b] # u
          /\ UNCHANGED <<pc, carried, stored, aged, again, gone, signedIn>>
      BY <1>5 DEF ResetPassword, local, client
    <2>2. ASSUME NEW q \in Requests, Browser(q) \notin excused', Good(carried[q], User(q))
          PROVE  Good(carried[q], User(q))'
      <3>1. carried[q] \in Tokens
        BY <2>2 DEF Tokens
      <3>2. Browser(q) \in Browsers \ excused'
        BY <2>2
      <3>3. User(q) # u
        BY <2>1, <3>2
      <3> QED
        BY <2>1, <2>2, <3>1, <3>3 DEF User, Browser
    <2>3. \A q \in Requests : Exchanging(q)' <=> Exchanging(q)
      BY <2>1
    <2>4. \A q \in Requests : Browser(q) \notin excused' => Browser(q) \notin excused
      BY <2>1
    <2> HIDE <1>1, <1>2, Places DEF Exchanging, Good
    <2> QED
      BY <2>1, <2>2, <2>3, <2>4 DEF Browser
  <1>6. ASSUME NEW t \in Tabs, AccessExpires(t)
       PROVE  OneExchange'
    BY <1>6 DEF AccessExpires, server, client, local, history, bounds
  <1>7. ASSUME NEW t \in Tabs, MeFails(t)
       PROVE  OneExchange'
    BY <1>7 DEF MeFails, Clear, Excuse, server, client, local, history, bounds
  <1>8. ASSUME NEW b \in Browsers, KeptExpires(b)
       PROVE  OneExchange'
    BY <1>8 DEF KeptExpires, server, client, local, history, bounds
  <1>9. ASSUME NEW k \in Tokens, SessionExpires(k)
       PROVE  OneExchange'
    BY <1>9 DEF SessionExpires, TokensOK, server, client, local, history, bounds
  <1> QED
    BY <1>4, <1>5, <1>6, <1>7, <1>8, <1>9 DEF Next, Serve

\* A step keeps a browser's token good.
LEMMA KeepsStep ==
    ASSUME SessInv, Next
    PROVE  KeepsToken'
  <1>1. TypesOK
    BY DEF SessInv
  <1>2. MaxCalls \in Nat /\ MaxResets \in Nat
    BY SessionsAssumption
  <1>3. OneExchange /\ KeepsToken /\ Apart /\ NewTokens /\ TokensOK /\ StagesOK
    BY DEF SessInv
  <1> USE <1>1, <1>2, <1>3, Places
      DEF TypesOK, TypeOK, KeepsToken, Exchanging, Exchanges, Looked, Refreshing,
          NoToken, Good, Pending, Of
  <1>4. ASSUME NEW r \in Requests,
         \/ Login(r) \/ Send(r) \/ Logout(r) \/ Load(r) \/ Break(r)
         \/ ExchangeToken(r) \/ Adopt(r) \/ SignOut(r)
         \/ Discard(r) \/ LeaveAfterLogout(r) \/ CheckPassword(r) \/ VerifyTotp(r)
         \/ FindSession(r) \/ DeleteSession(r) \/ GenerateTokens(r) \/ DeleteSessions(r)
         PROVE  KeepsToken'
    <2>1. CASE Login(r)
      BY <2>1 DEF Login, Start, Reset, Goto, server, client, local, history, bounds
    <2>2. CASE Send(r)
      BY <2>2 DEF Send, Start, Reset, Goto, server, client, local, history, bounds
    <2>3. CASE Logout(r)
      BY <2>3 DEF Logout, Start, Reset, Goto, Excuse, server, client, local, history, bounds
    <2>4. CASE Load(r)
      BY <2>4 DEF Load, Goto, server, client, local, history, bounds
    <2>5. CASE Break(r)
      BY <2>5 DEF Break, Goto, Excuse, server, client, local, history, bounds
    <2>6. CASE ExchangeToken(r)
      BY <2>6 DEF ExchangeToken, Goto, server, client, local, history, bounds
    <2>7. CASE Adopt(r)
      BY <2>7 DEF Adopt, Goto, Finish, Reset, OneExchange, NewTokens, server, client, local,
       history, bounds
    <2>8. CASE SignOut(r)
      BY <2>8 DEF SignOut, Clear, Finish, Goto, Reset, StagesOK, Browser, server, client,
       local, history, bounds
    <2>9. CASE Discard(r)
      BY <2>9 DEF Discard, Finish, Goto, Reset, OneExchange, server, client, local, history,
       bounds
    <2>10. CASE LeaveAfterLogout(r)
      BY <2>10 DEF LeaveAfterLogout, Clear, Finish, Goto, Reset, StagesOK, Browser, server,
       client, local, history, bounds
    <2>11. CASE CheckPassword(r)
      BY <2>11 DEF CheckPassword, Goto, server, client, local, history, bounds
    <2>12. CASE VerifyTotp(r)
      BY <2>12 DEF VerifyTotp, Goto, server, client, local, history, bounds
    <2>13. CASE FindSession(r)
      BY <2>13 DEF FindSession, Goto, server, client, local, history, bounds
    <2>14. CASE DeleteSession(r)
      <3>1. /\ pc' = [pc EXCEPT ![r] = IF session[carried[r]] # None THEN "deleted" ELSE "refused"]
            /\ session' = [session EXCEPT ![carried[r]] = None]
            /\ UNCHANGED <<carried, stored, aged, again, signedIn, excused>>
        BY <2>14 DEF DeleteSession, Goto, local, history, client
      <3>2. pc[r] = "found" /\ r \in again /\ carried[r] # NoToken
        BY <2>14 DEF DeleteSession, StagesOK, TokensOK
      <3>3. ASSUME NEW b \in Browsers \ excused, Pending(b) \/ b = Browser(r) PROVE Pending(b)'
        <4>1. CASE b = Browser(r)
          <5>1. session[carried[r]] = User(r)
            BY <3>2, <3>3, <4>1 DEF OneExchange
          <5>2. pc'[r] = "deleted" /\ r \in again'
            BY <3>1, <3>2, <5>1
          <5> QED
            BY <4>1, <5>2 DEF Browser
        <4>2. CASE Pending(b)
          <5>1. PICK q \in Requests : Browser(q) = b /\ pc[q] \in {"deleted",
       "answered"} /\ q \in again
            BY <4>2
          <5>2. pc'[q] \in {"deleted", "answered"} /\ q \in again'
            BY <3>1, <3>2, <5>1
          <5> QED
            BY <5>1, <5>2 DEF Browser
        <4> QED
          BY <3>3, <4>1, <4>2
      <3>4. ASSUME NEW b \in Browsers, b # Browser(r), Good(stored[b], UserOf[b])
            PROVE  Good(stored[b], UserOf[b])'
        <4>1. stored[b] # carried[r]
          BY <3>2, <3>4 DEF Apart
        <4> QED
          BY <3>1, <3>4, <4>1
      <3> HIDE DEF Pending, Good
      <3> QED
        BY <3>1, <3>3, <3>4
    <2>15. CASE GenerateTokens(r)
      <3>1. /\ issued' = issued + 1 /\ issued' \in Tokens /\ issued' # NoToken
            /\ carried'[r] = issued' /\ pc'[r] = "answered"
            /\ \A q \in Requests : q # r => carried'[q] = carried[q] /\ pc'[q] = pc[q]
            /\ session'[issued'] = User(r)
            /\ \A k \in 0 .. issued : session'[k] = session[k]
            /\ UNCHANGED <<aged, stored, again, gone, signedIn, excused>>
            /\ pc[r] \in {"passed", "deleted"}
        BY <2>15 DEF GenerateTokens, Goto, Tokens, client
      <3>2. issued' \notin aged
        BY <3>1 DEF TokensOK
      <3>3. pc[r] = "passed" => r \notin again
        BY DEF StagesOK
      <3>4. /\ \A q \in Requests : carried[q] \in 0 .. issued
            /\ \A b \in Browsers : stored[b] \in 0 .. issued
        OBVIOUS
      <3>5. ASSUME NEW b \in Browsers, Pending(b) PROVE Pending(b)'
        <4>1. PICK q \in Requests : Browser(q) = b /\ pc[q] \in {"deleted",
       "answered"} /\ q \in again
          BY <3>5
        <4>2. pc'[q] \in {"deleted", "answered"} /\ q \in again'
          BY <3>1, <4>1
        <4> QED
          BY <4>1, <4>2 DEF Browser
      <3>6. ASSUME NEW b \in Browsers, Good(stored[b], UserOf[b]) PROVE Good(stored[b], UserOf[b])'
        BY <3>1, <3>4, <3>6
      <3> HIDE DEF Pending, Good
      <3> QED
        BY <3>1, <3>5, <3>6
    <2>16. CASE DeleteSessions(r)
      <3>1. /\ pc[r] = "leaving" /\ pc' = [pc EXCEPT ![r] = "left"]
            /\ \A k \in Tokens : session'[k] = IF k = carried[r] THEN None ELSE session[k]
            /\ UNCHANGED <<carried, stored, aged, again, gone, signedIn, excused>>
        BY <2>16 DEF DeleteSessions, Goto, local, history, client
      <3>2. Browser(r) \in excused
        BY <3>1 DEF StagesOK
      <3>3. ASSUME NEW b \in Browsers \ excused, Good(stored[b], UserOf[b])
            PROVE  Good(stored[b], UserOf[b])'
        <4>1. stored[b] # carried[r] /\ stored[b] \in Tokens
          BY <3>2, <3>3 DEF Apart, Tokens
        <4> QED
          BY <3>1, <3>3, <4>1
      <3>4. \A b \in Browsers : Pending(b) => Pending(b)'
        BY <3>1 DEF Browser
      <3> HIDE DEF Pending, Good
      <3> QED
        BY <3>1, <3>3, <3>4
    <2> QED
      BY <1>4, <2>1, <2>2, <2>3, <2>4, <2>5, <2>6, <2>7, <2>8, <2>9, <2>10, <2>11, <2>12,
       <2>13, <2>14, <2>15, <2>16
  <1>5. ASSUME NEW u \in Users, ResetPassword(u)
       PROVE  KeepsToken'
    <2>1. /\ \A k \in Tokens : session'[k] = IF session[k] = u THEN None ELSE session[k]
          /\ \A b \in Browsers \ excused' : b \notin excused /\ UserOf[b] # u
          /\ UNCHANGED <<pc, carried, stored, aged, again, gone, signedIn>>
      BY <1>5 DEF ResetPassword, local, client
    <2>2. ASSUME NEW b \in Browsers \ excused', Good(stored[b], UserOf[b])
          PROVE  Good(stored[b], UserOf[b])'
      <3>1. stored[b] \in Tokens /\ UserOf[b] # u
        BY <2>1, <2>2 DEF Tokens
      <3> QED
        BY <2>1, <2>2, <3>1
    <2>3. \A b \in Browsers : Pending(b) => Pending(b)'
      BY <2>1 DEF Browser
    <2> HIDE DEF Pending, Good
    <2> QED
      BY <2>1, <2>2, <2>3
  <1>6. ASSUME NEW t \in Tabs, AccessExpires(t)
       PROVE  KeepsToken'
    BY <1>6 DEF AccessExpires, server, client, local, history, bounds
  <1>7. ASSUME NEW t \in Tabs, MeFails(t)
       PROVE  KeepsToken'
    BY <1>7 DEF MeFails, Clear, Excuse, server, client, local, history, bounds
  <1>8. ASSUME NEW b \in Browsers, KeptExpires(b)
       PROVE  KeepsToken'
    BY <1>8 DEF KeptExpires, server, client, local, history, bounds
  <1>9. ASSUME NEW k \in Tokens, SessionExpires(k)
       PROVE  KeepsToken'
    BY <1>9 DEF SessionExpires, TokensOK, server, client, local, history, bounds
  <1> QED
    BY <1>4, <1>5, <1>6, <1>7, <1>8, <1>9 DEF Next, Serve

\* Every step keeps the invariant, ...
LEMMA InvStep ==
    ASSUME SessInv, [Next]_vars
    PROVE  SessInv'
  <1>1. CASE Next
    BY <1>1, TypeStep, TokensStep, ResetStep, StagesStep, ApartStep, ExchangeStep, KeepsStep
    DEF SessInv
  <1>2. CASE UNCHANGED vars
    <2>1. /\ UNCHANGED <<session, aged, issued, epoch, access, kept, stored, pc>>
          /\ UNCHANGED <<kind, carried, seen, again, gone>>
          /\ UNCHANGED <<exchanged, born, raced, signedIn, excused>>
      BY <1>2 DEF vars, server, client, local, history
    <2>2. TypesOK' /\ TokensOK'
      BY <2>1 DEF SessInv, TypesOK, TypeOK, TokensOK
    <2>3. Watched' /\ ResetEndsSessions'
      BY <2>1 DEF SessInv, Watched, ResetEndsSessions
    <2>4. StagesOK' /\ Apart' /\ NewTokens'
      BY <2>1 DEF SessInv, StagesOK, Apart, NewTokens, Exchanging
    <2>5. OneExchange' /\ KeepsToken'
      BY <2>1 DEF SessInv, OneExchange, KeepsToken, Exchanging, Good, Pending
    <2> QED
      BY <2>2, <2>3, <2>4, <2>5 DEF SessInv
  <1> QED
    BY <1>1, <1>2

\* ... and it holds in every reachable state.
LEMMA Invariance == Spec => []SessInv
  <1> QED
    BY InitInv, InvStep, PTL DEF Spec

-----------------------------------------------------------------------------
(***************************************************************************)
(* What follows from it.                                                   *)
(***************************************************************************)
\* The rows, localStorage and the tabs' memories always hold values of their
\* types: no request and no browser holds a token that was not issued.
THEOREM TypeCorrect == Spec => []TypeOK
  <1>1. SessInv => TypeOK
    BY DEF SessInv, TypesOK
  <1> QED
    BY <1>1, Invariance, PTL

\* However many calls of however many tabs present a refresh token at once, it
\* is exchanged for one session.
THEOREM TokensAreExchangedOnce == Spec => []OneSessionPerToken
  <1>1. SessInv => OneSessionPerToken
    BY DEF SessInv, TokensOK, OneSessionPerToken
  <1> QED
    BY <1>1, Invariance, PTL

\* A session made under an old password exists only if the last reset overtook
\* its call between the check and the insert.
THEOREM AResetEndsSessions == Spec => []ResetEndsSessions
  <1>1. SessInv => ResetEndsSessions
    BY DEF SessInv
  <1> QED
    BY <1>1, Invariance, PTL

\* A browser that was signed in, has no reason to be signed out and nothing under
\* way holds the token of a live session of its user.
THEOREM BrowsersStaySignedIn == Spec => []StaysSignedIn
  <1>1. SessInv => StaysSignedIn
    <2> SUFFICES ASSUME SessInv, NEW b \in signedIn \ excused, InFlight(b) = {}
                 PROVE  stored[b] # NoToken /\ session[stored[b]] = UserOf[b]
      BY DEF StaysSignedIn
    <2>1. b \in Browsers
      BY DEF SessInv, TypesOK
    <2>2. \A r \in Of(b) : pc[r] = "idle"
      BY DEF InFlight
    <2>3. ~Pending(b)
      BY <2>2 DEF Pending
    <2>4. Good(stored[b], UserOf[b])
      BY <2>1, <2>3 DEF SessInv, KeepsToken
    <2> QED
      BY <2>4 DEF Good
  <1> QED
    BY <1>1, Invariance, PTL

-----------------------------------------------------------------------------
(* Subscriptions.                                                          *)

\* A call asks for what it may ask for.
CallsAllowed == \A r \in Handlers : call[r] \in CallsOf[r]

\* The steps at which a runner is at a row, and those that may renew it.
OnRow == {"charging", "charged", "refused", "queued"}
Charging == {"charging", "charged", "refused"}

\* A runner that is at a row knows which, and a row has a plan.
RunnersAtRow == \A w \in Runners : step[w] \in OnRow => cur[w] \in Subs

RowsHavePlans == \A s \in Subs : status[s] # "none" => plan[s] \in Plans

\* How far a call can be whose subscription has no row.
Rowless(r) ==
    CASE call[r].op = "subscribe" -> {"new", "checked", "failed"} \cup Paying
      [] call[r].op = "topUp" -> {"new", "credited", "done"}
      [] OTHER -> {"new", "failed"}

\* Nothing is known of a subscription before its row is there.
NothingBeforeRow ==
    \A s \in Subs : status[s] = "none" =>
        /\ vm[s] = "none" /\ ~overdue[s]
        /\ \A j \in queue : j.sub # s
        /\ \A w \in Runners : cur[w] # s
        /\ \A r \in Handlers : Sub(r) = s => stage[r] \in Rowless(r)

\* A subscribe that is under way has no row yet.
RowIsNew ==
    \A r \in Handlers :
        call[r].op = "subscribe" /\ stage[r] \in {"checked"} \cup Paying => status[Sub(r)] = "none"

\* A subscription is going once its grace is over: its VM will be deleted.
Leaving(s) ==
    overdue[s] \/ vm[s] = "deleted" \/ \E j \in queue : j.sub = s /\ j.kind = "delete"

\* ActiveKeepsVm, and that nobody is about to renew what is leaving.
LeavingIsFinal ==
    \A s \in Subs : Leaving(s) =>
        status[s] # "active" /\ \A w \in Runners : cur[w] = s => step[w] \notin Charging

\* What a refund has read, and has credited, is in the total of the credits.
RefundsKnown ==
    \A r \in Handlers : call[r].op = "refund" =>
        /\ stage[r] = "found" => former[r] <= credited[Sub(r)]
        /\ stage[r] \in {"credited", "resumed"} =>
              former[r] + call[r].amount <= credited[Sub(r)]

\* The inductive invariant.
SubInv ==
    /\ SubTypeOK /\ CallsAllowed /\ RunnersAtRow /\ RowsHavePlans
    /\ NothingBeforeRow /\ RowIsNew /\ LeavingIsFinal
    /\ RefundsKnown /\ RefundsBacked /\ ChargesAccountedFor

\* Who takes a step: a call, a runner, time, or a job.
HandlerStep(r) ==
    Subscribe(r) \/ CheckCancel(r) \/ Cancel(r) \/ ChangePlan(r) \/ Refund(r)
RunnerStep(w) == Tick(w) \/ BreakTick(w)
TimeStep(s) == PeriodEnds(s) \/ GraceElapses(s)
JobStep(j) == FinishJob(j) \/ FailJob(j)

-----------------------------------------------------------------------------
\* What a call asks for, and the numbers it brings.
LEMMA CallTypes ==
    ASSUME CallsAllowed, NEW r \in Handlers
    PROVE  /\ call[r].op \in {"subscribe", "cancel", "adminCancel", "changePlan", "refund", "topUp"}
           /\ call[r].sub \in Subs /\ Sub(r) \in Subs /\ Payer(r) \in Customers
           /\ call[r].plan \in Plans /\ Price[call[r].plan] \in Nat /\ Cores[call[r].plan] \in Nat
           /\ call[r].amount \in Nat /\ call[r].amount > 0
           /\ Owner[Sub(r)] \in Customers /\ Sub(r) \in Pools
  <1>1. call[r] \in [op : {"subscribe", "cancel", "adminCancel", "changePlan", "refund", "topUp"},
                     sub : Subs, plan : Plans, amount : Nat \ {0}]
    BY SubsAssumption DEF CallsAllowed
  <1> QED
    BY <1>1, SubsAssumption DEF Sub, Payer, Pools

\* Counting one more, of one subscription.
LEMMA AddTypes ==
    ASSUME NEW f \in [Subs -> Nat], NEW s
    PROVE  /\ Add(f, s) \in [Subs -> Nat]
           /\ \A t \in Subs : Add(f, s)[t] = IF t = s THEN f[t] + 1 ELSE f[t]
  <1>1. Add(f, s) = [t \in Subs |-> IF t = s THEN f[t] + 1 ELSE f[t]]
    BY DEF Add
  <1> QED
    BY <1>1

\* A step of a call keeps the types.
LEMMA HandlerTypes ==
    ASSUME SubInv, NEW r \in Handlers, HandlerStep(r)
    PROVE  SubTypeOK'
  <1>1. SubTypeOK /\ CallsAllowed
    BY DEF SubInv
  <1>2. /\ Sub(r) \in Subs /\ Payer(r) \in Customers /\ call[r].plan \in Plans
        /\ Price[call[r].plan] \in Nat /\ Cores[call[r].plan] \in Nat
        /\ call[r].amount \in Nat /\ Sub(r) \in Pools
    BY <1>1, CallTypes
  <1>3. RowsHavePlans
    BY DEF SubInv
  <1>4. CASE CheckPlan(r)
    BY <1>4, <1>1, <1>2 DEF CheckPlan, At, Reach, SubTypeOK, Statuses, VmStatuses, Paying,
       rows, pools, tally, ticks, locals
  <1>5. CASE PayFirstPeriod(r)
    BY <1>5, <1>1, <1>2 DEF PayFirstPeriod, At, Reach, Debit, Covered, Add, SubTypeOK,
       Statuses, VmStatuses, Paying, rows, pools, ticks, locals
  <1>6. CASE RefuseSubscribe(r)
    BY <1>6, <1>1, <1>2 DEF RefuseSubscribe, At, Reach, Fail, SubTypeOK, Statuses,
       VmStatuses, Paying, rows, pools, tally, ticks, locals
  <1>7. CASE TakePool(r)
    <2>1. Existing(Payer(r)) \subseteq Pools
      BY <1>2 DEF Existing, OfUser, Pools
    <2>2. pool' \in [Handlers -> Pools \cup {Absent}]
      BY <1>1, <1>2, <2>1, <1>7 DEF TakePool, SubTypeOK
    <2>3. total' \in [Pools -> Nat]
      BY <1>1, <1>2, <1>7 DEF TakePool, SubTypeOK
    <2> QED
      BY <1>1, <2>2, <2>3, <1>7 DEF TakePool, At, Reach, SubTypeOK, Paying, rows, tally, ticks
  <1>8. CASE LockPool(r)
    BY <1>8, <1>1, <1>2 DEF LockPool, At, Reach, SubTypeOK, Statuses, VmStatuses, Paying,
       rows, tally, ticks, locals
  <1>9. CASE Admit(r)
    BY <1>9, <1>1, <1>2 DEF Admit, At, Reach, SubTypeOK, Statuses, VmStatuses, Paying, rows,
       pools, tally, ticks
  <1>10. CASE LosePayment(r)
    BY <1>10, <1>1, <1>2 DEF LosePayment, Reach, Fail, Unlock, Add, Paying, SubTypeOK,
       Statuses, VmStatuses, rows, ticks, locals
  <1>11. CASE CreateSubscription(r)
    BY <1>11, <1>1, <1>2 DEF CreateSubscription, At, Reach, Unlock, Add, SubTypeOK, Statuses,
       VmStatuses, Paying, ticks, locals
  <1>12. CASE QueueCreate(r)
    BY <1>12, <1>1, <1>2 DEF QueueCreate, At, Reach, Job, SubTypeOK, Statuses, VmStatuses,
       Paying, rows, pools, ticks, locals
  <1>13. CASE CheckCancel(r)
    BY <1>13, <1>1, <1>2 DEF CheckCancel, At, Reach, SubTypeOK, Statuses, VmStatuses, Paying,
       rows, pools, tally, ticks, locals
  <1>14. CASE Cancel(r)
    BY <1>14, <1>1, <1>2 DEF Cancel, At, Reach, SubTypeOK, Statuses, VmStatuses, Paying,
       pools, tally, ticks, locals
  <1>15. CASE ReadPlan(r)
    <2>1. former' \in [Handlers -> Nat]
      <3>1. CASE status[Sub(r)] = "active" /\ former' = [former EXCEPT ![r] = Price[plan[Sub(r)]]]
        <4>1. plan[Sub(r)] \in Plans
          BY <1>2, <1>3, <3>1 DEF RowsHavePlans
        <4>2. Price[plan[Sub(r)]] \in Nat
          BY <4>1, SubsAssumption
        <4> QED
          BY <1>1, <3>1, <4>2 DEF SubTypeOK
      <3>2. CASE UNCHANGED former
        BY <1>1, <3>2 DEF SubTypeOK
      <3> QED
        BY <3>1, <3>2, <1>15 DEF ReadPlan, Fail, locals
    <2>2. /\ stage' \in [Handlers -> {"new", "checked", "created", "found", "written", "credited",
                                      "resumed", "done", "failed"} \cup Paying]
          /\ call' = call
      BY <1>1, <1>15 DEF ReadPlan, Reach, Fail, SubTypeOK, Paying
    <2>3. UNCHANGED <<pool, ip>>
      BY <1>15 DEF ReadPlan, Fail, locals
    <2> QED
      BY <1>1, <2>1, <2>2, <2>3, <1>15 DEF ReadPlan, SubTypeOK, rows, pools, tally, ticks
  <1>16. CASE PayDifference(r)
    <2>1. balance' \in [Customers -> Nat]
      <3>1. former[r] \in Nat /\ Price[call[r].plan] - former[r] \in Int
        BY <1>1, <1>2 DEF SubTypeOK
      <3>2. ASSUME NEW d \in Int, Debit(Payer(r), d)
            PROVE  balance' \in [Customers -> Nat]
        BY <1>1, <1>2, <3>2 DEF Debit, Covered, SubTypeOK
      <3>3. CASE UNCHANGED balance
        BY <1>1, <3>3 DEF SubTypeOK
      <3> QED
        BY <3>1, <3>2, <3>3, <1>16 DEF PayDifference
    <2>2. stage' \in [Handlers -> {"new", "checked", "created", "found", "written", "credited",
                                   "resumed", "done", "failed"} \cup Paying]
      BY <1>1, <1>16 DEF PayDifference, Reach, SubTypeOK, Paying
    <2> QED
      BY <1>1, <2>1, <2>2, <1>16 DEF PayDifference, Reach, SubTypeOK, rows, pools, tally, ticks,
         locals
  <1>17. CASE WritePlan(r)
    BY <1>17, <1>1, <1>2 DEF WritePlan, At, Reach, SubTypeOK, Statuses, VmStatuses, Paying,
       pools, tally, ticks, locals
  <1>18. CASE QueueResize(r)
    BY <1>18, <1>1, <1>2 DEF QueueResize, At, Reach, Job, SubTypeOK, Statuses, VmStatuses,
       Paying, rows, pools, tally, ticks, locals
  <1>19. CASE ReadRefunded(r)
    BY <1>19, <1>1, <1>2 DEF ReadRefunded, At, Reach, SubTypeOK, Statuses, VmStatuses,
       Paying, rows, pools, tally, ticks
  <1>20. CASE CreditWallet(r)
    BY <1>20, <1>1, <1>2 DEF CreditWallet, At, Reach, Credit, SubTypeOK, Statuses,
       VmStatuses, Paying, rows, pools, ticks, locals
  <1>21. CASE AutoResume(r)
    BY <1>21, <1>1, <1>2 DEF AutoResume, Reach, Job, OfUser, SubTypeOK, Statuses, VmStatuses,
       Paying, rows, pools, ticks, locals
  <1>22. CASE WriteRefunded(r)
    BY <1>22, <1>1, <1>2 DEF WriteRefunded, At, Reach, SubTypeOK, Statuses, VmStatuses,
       Paying, pools, tally, ticks, locals
  <1>23. CASE AbortRefund(r)
    BY <1>23, <1>1, <1>2 DEF AbortRefund, Reach, Fail, SubTypeOK, Statuses, VmStatuses,
       Paying, rows, pools, ticks, locals
  <1> QED
    BY <1>4, <1>5, <1>6, <1>7, <1>8, <1>9, <1>10, <1>11, <1>12, <1>13, <1>14, <1>15,
       <1>16, <1>17, <1>18, <1>19, <1>20, <1>21, <1>22, <1>23 DEF HandlerStep, Subscribe,
       ChangePlan, Refund

\* A step of a runner keeps the types.
LEMMA RunnerTypes ==
    ASSUME SubInv, NEW w \in Runners, RunnerStep(w)
    PROVE  SubTypeOK'
  <1>1. SubTypeOK /\ RunnersAtRow /\ RowsHavePlans
    BY DEF SubInv
  <1>2. CASE StartRenewals(w)
    BY <1>2, <1>1 DEF StartRenewals, StartTick, IsDue, SubTypeOK, Statuses, VmStatuses,
       Paying, rows, pools, tally, locals, requests
  <1>3. CASE ReadDue(w)
    <2>1. PICK s \in todo[w] :
             \/ IsDue(s) /\ At2(w, "charging", s) /\ bill' = [bill EXCEPT ![w] = RenewalPrice(s)]
             \/ Drop(w, s)
      BY <1>3 DEF ReadDue
    <2>2. s \in Subs
      BY <1>1 DEF SubTypeOK
    <2>3. bill' \in [Runners -> Nat]
      <3>1. CASE IsDue(s) /\ bill' = [bill EXCEPT ![w] = RenewalPrice(s)]
        <4>1. plan[s] \in Plans
          BY <1>1, <2>2, <3>1 DEF RowsHavePlans, IsDue
        <4>2. Price[plan[s]] \in Nat /\ Discount[s] \in Nat
          BY <2>2, <4>1, SubsAssumption
        <4>3. RenewalPrice(s) \in Nat
          BY <4>2 DEF RenewalPrice, Max0
        <4> QED
          BY <1>1, <3>1, <4>3 DEF SubTypeOK
      <3>2. CASE Drop(w, s)
        BY <1>1, <3>2 DEF Drop, SubTypeOK
      <3> QED
        BY <2>1, <3>1, <3>2
    <2>4. /\ todo' \in [Runners -> SUBSET Subs] /\ cur' \in [Runners -> Subs \cup {Absent}]
          /\ step' \in [Runners -> {"idle", "renewing", "charging", "charged", "refused",
                                    "expiring", "queued"}]
      <3>1. CASE At2(w, "charging", s)
        BY <1>1, <2>2, <3>1 DEF At2, SubTypeOK
      <3>2. CASE Drop(w, s)
        BY <1>1, <2>2, <3>2 DEF Drop, SubTypeOK
      <3> QED
        BY <2>1, <3>1, <3>2
    <2> QED
      BY <1>1, <2>3, <2>4, <1>3 DEF ReadDue, SubTypeOK, rows, pools, tally, locals, requests
  <1>4. CASE ChargeRenewal(w)
    <2>1. cur[w] \in Subs
      BY <1>1, <1>4 DEF ChargeRenewal, RunnersAtRow, OnRow
    <2>2. Owner[cur[w]] \in Customers /\ bill[w] \in Nat
      BY <1>1, <2>1, SubsAssumption DEF SubTypeOK
    <2>3. balance' \in [Customers -> Nat] /\ paid' \in [Subs -> Nat]
      BY <1>1, <2>1, <2>2, <1>4 DEF ChargeRenewal, Debit, Covered, Add, SubTypeOK
    <2> QED
      BY <1>1, <2>1, <2>3, <1>4 DEF ChargeRenewal, At2, SubTypeOK, rows, pools, locals, requests
  <1>5. CASE RefuseRenewal(w)
    BY <1>5, <1>1 DEF RefuseRenewal, At2, SubTypeOK, Statuses, VmStatuses, Paying, rows,
       pools, locals, requests
  <1>6. CASE Renew(w)
    <2>1. cur[w] \in Subs
      BY <1>1, <1>6 DEF Renew, RunnersAtRow, OnRow
    <2>2. granted' \in [Subs -> Nat] /\ wasted' \in [Subs -> Nat]
      <3>1. \/ granted' = Add(granted, cur[w]) /\ wasted' = wasted
            \/ wasted' = Add(wasted, cur[w]) /\ granted' = granted
        BY <1>6 DEF Renew
      <3>2. QED
        <4>1. granted \in [Subs -> Nat] /\ wasted \in [Subs -> Nat]
          BY <1>1 DEF SubTypeOK
        <4> QED
          BY <3>1, <4>1, AddTypes
    <2>3. due' \in [Subs -> BOOLEAN] /\ status' \in [Subs -> Statuses]
      BY <1>1, <2>1, <1>6 DEF Renew, SubTypeOK, Statuses
    <2>4. /\ todo' \in [Runners -> SUBSET Subs] /\ cur' \in [Runners -> Subs \cup {Absent}]
          /\ step' \in [Runners -> {"idle", "renewing", "charging", "charged", "refused",
                                    "expiring", "queued"}]
          /\ bill' \in [Runners -> Nat]
      BY <1>1, <2>1, <1>6 DEF Renew, Drop, SubTypeOK
    <2> QED
      BY <1>1, <2>2, <2>3, <2>4, <1>6 DEF Renew, SubTypeOK, pools, locals, requests
  <1>7. CASE EnterGrace(w)
    BY <1>7, <1>1 DEF EnterGrace, Drop, SubTypeOK, Statuses, VmStatuses, Paying, pools,
       tally, locals, requests
  <1>8. CASE StartGrace(w)
    BY <1>8, <1>1 DEF StartGrace, StartTick, SubTypeOK, Statuses, VmStatuses, Paying, rows,
       pools, tally, locals, requests
  <1>9. CASE QueueDelete(w)
    <2>1. PICK s \in todo[w] :
             \/ /\ queue' = queue \cup {Job(s, "delete", 0)}
                /\ At2(w, "queued", s) /\ UNCHANGED bill
             \/ Drop(w, s) /\ UNCHANGED queue
      BY <1>9 DEF QueueDelete
    <2>2. s \in Subs
      BY <1>1 DEF SubTypeOK
    <2>3. Job(s, "delete", 0) \in
             [sub : Subs, kind : {"create", "resize", "resume", "delete"}, cores : Nat]
      BY <2>2 DEF Job
    <2>4. queue' \subseteq
             [sub : Subs, kind : {"create", "resize", "resume", "delete"}, cores : Nat]
      BY <1>1, <2>1, <2>3 DEF SubTypeOK
    <2>5. /\ todo' \in [Runners -> SUBSET Subs] /\ cur' \in [Runners -> Subs \cup {Absent}]
          /\ step' \in [Runners -> {"idle", "renewing", "charging", "charged", "refused",
                                    "expiring", "queued"}]
          /\ bill' \in [Runners -> Nat]
      <3>1. CASE At2(w, "queued", s) /\ UNCHANGED bill
        BY <1>1, <2>2, <3>1 DEF At2, SubTypeOK
      <3>2. CASE Drop(w, s)
        BY <1>1, <2>2, <3>2 DEF Drop, SubTypeOK
      <3> QED
        BY <2>1, <3>1, <3>2
    <2> QED
      BY <1>1, <2>4, <2>5, <1>9 DEF QueueDelete, SubTypeOK, rows, pools, tally, locals, requests
  <1>10. CASE Expire(w)
    BY <1>10, <1>1 DEF Expire, Drop, SubTypeOK, Statuses, VmStatuses, Paying, pools, tally,
       locals, requests
  <1>11. CASE BreakTick(w)
    <2>1. wasted' \in [Subs -> Nat]
      BY <1>1, <1>11 DEF BreakTick, Add, SubTypeOK, RunnersAtRow, OnRow
    <2> QED
      BY <1>1, <2>1, <1>11 DEF BreakTick, SubTypeOK, rows, pools, locals, requests
  <1> QED
    BY <1>2, <1>3, <1>4, <1>5, <1>6, <1>7, <1>8, <1>9, <1>10, <1>11 DEF RunnerStep,
       Tick

\* The passing of time keeps the types.
LEMMA TimeTypes ==
    ASSUME SubInv, NEW s \in Subs, TimeStep(s)
    PROVE  SubTypeOK'
  <1>1. SubTypeOK
    BY DEF SubInv
  <1>2. CASE PeriodEnds(s)
    BY <1>2, <1>1 DEF PeriodEnds, SubTypeOK, Statuses, VmStatuses, Paying, pools, tally,
       ticks, locals, requests
  <1>3. CASE GraceElapses(s)
    BY <1>3, <1>1 DEF GraceElapses, SubTypeOK, Statuses, VmStatuses, Paying, pools, tally,
       ticks, locals, requests
  <1> QED
    BY <1>2, <1>3 DEF TimeStep

\* A job keeps the types.
LEMMA JobTypes ==
    ASSUME SubInv, NEW j \in queue, JobStep(j)
    PROVE  SubTypeOK'
  <1>1. SubTypeOK
    BY DEF SubInv
  <1>2. CASE FinishJob(j)
    <2>1. j.sub \in Subs /\ j.cores \in Nat
      BY <1>1 DEF SubTypeOK
    <2>2. vm' \in [Subs -> VmStatuses]
      BY <1>1, <2>1, <1>2 DEF FinishJob, SubTypeOK, VmStatuses
    <2>3. home' \in [Subs -> Pools \cup {Absent}]
      BY <1>1, <2>1, <1>2 DEF FinishJob, SubTypeOK
    <2>4. size' \in [Subs -> Nat]
      BY <1>1, <2>1, <1>2 DEF FinishJob, SubTypeOK
    <2> QED
      BY <1>1, <2>2, <2>3, <2>4, <1>2 DEF FinishJob, SubTypeOK, rows, tally, ticks, locals,
         requests
  <1>3. CASE FailJob(j)
    BY <1>3, <1>1 DEF FailJob, SubTypeOK, Statuses, VmStatuses, Paying, rows, pools, tally,
       ticks, locals, requests
  <1> QED
    BY <1>2, <1>3 DEF JobStep

-----------------------------------------------------------------------------
\* What a step of a call leaves alone: the calls, the ticks, and how far the
\* other calls are.
LEMMA HandlerMoves ==
    ASSUME SubTypeOK, NEW r \in Handlers, HandlerStep(r)
    PROVE  /\ call' = call /\ UNCHANGED <<due, overdue, ticks>>
           /\ \A q \in Handlers : q # r => stage'[q] = stage[q] /\ former'[q] = former[q]
  <1>1. CASE CheckPlan(r)
    BY <1>1 DEF CheckPlan, Reach, SubTypeOK, rows, ticks, locals
  <1>2. CASE PayFirstPeriod(r)
    BY <1>2 DEF PayFirstPeriod, Reach, SubTypeOK, rows, ticks, locals
  <1>3. CASE RefuseSubscribe(r)
    BY <1>3 DEF RefuseSubscribe, Fail, Reach, SubTypeOK, rows, ticks, locals
  <1>4. CASE TakePool(r)
    BY <1>4 DEF TakePool, Reach, SubTypeOK, rows, ticks
  <1>5. CASE LockPool(r)
    BY <1>5 DEF LockPool, Reach, SubTypeOK, rows, ticks, locals
  <1>6. CASE Admit(r)
    BY <1>6 DEF Admit, Reach, SubTypeOK, rows, ticks
  <1>7. CASE LosePayment(r)
    BY <1>7 DEF LosePayment, Fail, Reach, SubTypeOK, rows, ticks, locals
  <1>8. CASE CreateSubscription(r)
    BY <1>8 DEF CreateSubscription, Reach, SubTypeOK, ticks, locals
  <1>9. CASE QueueCreate(r)
    BY <1>9 DEF QueueCreate, Reach, SubTypeOK, rows, ticks, locals
  <1>10. CASE CheckCancel(r)
    BY <1>10 DEF CheckCancel, Reach, SubTypeOK, rows, ticks, locals
  <1>11. CASE Cancel(r)
    BY <1>11 DEF Cancel, Reach, SubTypeOK, ticks, locals
  <1>12. CASE ReadPlan(r)
    BY <1>12 DEF ReadPlan, Fail, Reach, SubTypeOK, rows, ticks, locals
  <1>13. CASE PayDifference(r)
    BY <1>13 DEF PayDifference, Reach, SubTypeOK, rows, ticks, locals
  <1>14. CASE WritePlan(r)
    BY <1>14 DEF WritePlan, Reach, SubTypeOK, ticks, locals
  <1>15. CASE QueueResize(r)
    BY <1>15 DEF QueueResize, Reach, SubTypeOK, rows, ticks, locals
  <1>16. CASE ReadRefunded(r)
    BY <1>16 DEF ReadRefunded, Reach, SubTypeOK, rows, ticks
  <1>17. CASE CreditWallet(r)
    BY <1>17 DEF CreditWallet, Reach, SubTypeOK, rows, ticks, locals
  <1>18. CASE AutoResume(r)
    BY <1>18 DEF AutoResume, Reach, SubTypeOK, rows, ticks, locals
  <1>19. CASE WriteRefunded(r)
    BY <1>19 DEF WriteRefunded, Reach, SubTypeOK, ticks, locals
  <1>20. CASE AbortRefund(r)
    BY <1>20 DEF AbortRefund, Fail, Reach, SubTypeOK, rows, ticks, locals
  <1> QED
    BY <1>1, <1>2, <1>3, <1>4, <1>5, <1>6, <1>7, <1>8, <1>9, <1>10, <1>11, <1>12, <1>13,
       <1>14, <1>15, <1>16, <1>17, <1>18, <1>19, <1>20 DEF HandlerStep, Subscribe, ChangePlan,
       Refund

\* What a step of a runner leaves alone: the calls, and the other runners.
LEMMA RunnerMoves ==
    ASSUME SubTypeOK, NEW w \in Runners, RunnerStep(w)
    PROVE  /\ UNCHANGED <<requests, plan, refunded, pools, addr, credited>>
           /\ \A u \in Runners : u # w => step'[u] = step[u] /\ cur'[u] = cur[u]
  <1>1. CASE StartRenewals(w)
    BY <1>1 DEF StartRenewals, StartTick, SubTypeOK, rows, pools, tally, requests
  <1>2. CASE ReadDue(w)
    BY <1>2 DEF ReadDue, At2, Drop, SubTypeOK, rows, pools, tally, requests
  <1>3. CASE ChargeRenewal(w)
    BY <1>3 DEF ChargeRenewal, At2, SubTypeOK, rows, pools, requests
  <1>4. CASE RefuseRenewal(w)
    BY <1>4 DEF RefuseRenewal, At2, SubTypeOK, rows, pools, requests
  <1>5. CASE Renew(w)
    BY <1>5 DEF Renew, Drop, SubTypeOK, pools, requests
  <1>6. CASE EnterGrace(w)
    BY <1>6 DEF EnterGrace, Drop, SubTypeOK, pools, tally, requests
  <1>7. CASE StartGrace(w)
    BY <1>7 DEF StartGrace, StartTick, SubTypeOK, rows, pools, tally, requests
  <1>8. CASE QueueDelete(w)
    BY <1>8 DEF QueueDelete, At2, Drop, SubTypeOK, rows, pools, tally, requests
  <1>9. CASE Expire(w)
    BY <1>9 DEF Expire, Drop, SubTypeOK, pools, tally, requests
  <1>10. CASE BreakTick(w)
    BY <1>10 DEF BreakTick, SubTypeOK, rows, pools, requests
  <1> QED
    BY <1>1, <1>2, <1>3, <1>4, <1>5, <1>6, <1>7, <1>8, <1>9, <1>10 DEF RunnerStep, Tick

\* What the passing of time leaves alone.
LEMMA TimeMoves ==
    ASSUME NEW s \in Subs, TimeStep(s)
    PROVE  UNCHANGED <<balance, status, plan, refunded, vm, pools, addr, queue, requests,
                       ticks, tally>>
    BY DEF TimeStep, PeriodEnds, GraceElapses

\* What a job leaves alone.
LEMMA JobMoves ==
    ASSUME NEW j \in queue, JobStep(j)
    PROVE  /\ UNCHANGED <<rows, requests, ticks, tally>>
           /\ queue' = queue \ {j}
    BY DEF JobStep, FinishJob, FailJob

\* The same call asks for the same.
LEMMA SameCalls == ASSUME call' = call, CallsAllowed
                   PROVE  CallsAllowed' /\ \A q : Sub(q)' = Sub(q) /\ Payer(q)' = Payer(q)
    BY DEF CallsAllowed, Sub, Payer

-----------------------------------------------------------------------------
\* A step of a call but the one that makes the row: the VM keeps its status, no
\* row comes or goes and none becomes active, a plan is one of the plans, and a
\* job that is queued is for a row that exists and deletes nothing.
LEMMA CallKeepsRows ==
    ASSUME SubInv, NEW r \in Handlers, HandlerStep(r), ~CreateSubscription(r)
    PROVE  /\ vm' = vm
           /\ \A s \in Subs : /\ (status'[s] = "none" <=> status[s] = "none")
                              /\ (status'[s] = "active" => status[s] = "active")
                              /\ (plan'[s] = plan[s] \/ plan'[s] \in Plans)
           /\ \A j \in queue' : j \in queue \/ (j.kind # "delete" /\ status[j.sub] # "none")
  <1>1. SubTypeOK /\ Sub(r) \in Subs /\ call[r].plan \in Plans
    BY CallTypes DEF SubInv
  <1>2. ASSUME stage[r] \notin Rowless(r)
        PROVE  status[Sub(r)] # "none"
    BY <1>1, <1>2 DEF SubInv, NothingBeforeRow
  <1>3. CASE CheckPlan(r)
    BY <1>3 DEF CheckPlan, rows
  <1>4. CASE PayFirstPeriod(r)
    BY <1>4 DEF PayFirstPeriod, rows
  <1>5. CASE RefuseSubscribe(r)
    BY <1>5 DEF RefuseSubscribe, rows
  <1>6. CASE TakePool(r)
    BY <1>6 DEF TakePool, rows
  <1>7. CASE LockPool(r)
    BY <1>7 DEF LockPool, rows
  <1>8. CASE Admit(r)
    BY <1>8 DEF Admit, rows
  <1>9. CASE LosePayment(r)
    BY <1>9 DEF LosePayment, rows
  <1>10. CASE QueueCreate(r)
    <2>1. status[Sub(r)] # "none"
      BY <1>1, <1>2, <1>10 DEF QueueCreate, At, Rowless, Paying
    <2> QED
      BY <1>1, <2>1, <1>10 DEF QueueCreate, Job, rows
  <1>11. CASE CheckCancel(r)
    BY <1>11 DEF CheckCancel, rows
  <1>12. CASE Cancel(r)
    <2>1. status[Sub(r)] # "none"
      BY <1>1, <1>2, <1>12 DEF Cancel, At, Rowless, Paying
    <2> QED
      BY <1>1, <2>1, <1>12 DEF Cancel, SubTypeOK
  <1>13. CASE ReadPlan(r)
    BY <1>13 DEF ReadPlan, rows
  <1>14. CASE PayDifference(r)
    BY <1>14 DEF PayDifference, rows
  <1>15. CASE WritePlan(r)
    BY <1>1, <1>15 DEF WritePlan, SubTypeOK
  <1>16. CASE QueueResize(r)
    <2>1. status[Sub(r)] # "none"
      BY <1>1, <1>2, <1>16 DEF QueueResize, At, Rowless, Paying
    <2> QED
      BY <1>1, <2>1, <1>16 DEF QueueResize, Job, rows
  <1>17. CASE ReadRefunded(r)
    BY <1>17 DEF ReadRefunded, rows
  <1>18. CASE CreditWallet(r)
    BY <1>18 DEF CreditWallet, rows
  <1>19. CASE AutoResume(r)
    BY <1>1, <1>19 DEF AutoResume, Job, rows
  <1>20. CASE WriteRefunded(r)
    BY <1>20 DEF WriteRefunded
  <1>21. CASE AbortRefund(r)
    BY <1>21 DEF AbortRefund, rows
  <1> QED
    BY <1>3, <1>4, <1>5, <1>6, <1>7, <1>8, <1>9, <1>10, <1>11, <1>12, <1>13, <1>14,
       <1>15, <1>16, <1>17, <1>18, <1>19, <1>20, <1>21 DEF HandlerStep, Subscribe, ChangePlan,
       Refund

\* The step that makes a row: there was none, and nothing was known of it.
LEMMA RowIsMade ==
    ASSUME SubInv, NEW r \in Handlers, CreateSubscription(r)
    PROVE  /\ status[Sub(r)] = "none" /\ vm[Sub(r)] = "none" /\ ~overdue[Sub(r)]
           /\ status' = [status EXCEPT ![Sub(r)] = "active"]
           /\ vm' = [vm EXCEPT ![Sub(r)] = "provisioning"]
           /\ plan' = [plan EXCEPT ![Sub(r)] = call[r].plan] /\ call[r].plan \in Plans
           /\ Sub(r) \in Subs /\ queue' = queue /\ stage[r] \in Paying
           /\ \A j \in queue : j.sub # Sub(r)
           /\ \A w \in Runners : cur[w] # Sub(r)
  <1>1. Sub(r) \in Subs /\ call[r].plan \in Plans
    BY CallTypes DEF SubInv
  <1>2. status[Sub(r)] = "none" /\ stage[r] \in Paying
    BY DEF SubInv, RowIsNew, CreateSubscription, At, Paying
  <1> QED
    BY <1>1, <1>2 DEF SubInv, NothingBeforeRow, CreateSubscription

\* A runner makes no row and removes none, what it comes to is a row, and the
\* deletions it queues are of rows whose grace is over.
LEMMA RunnerKeepsRows ==
    ASSUME SubInv, NEW w \in Runners, RunnerStep(w)
    PROVE  /\ \A s \in Subs : status'[s] = "none" <=> status[s] = "none"
           /\ step'[w] \in OnRow => cur'[w] \in Subs
           /\ cur'[w] \in Subs => cur'[w] = cur[w] \/ status[cur'[w]] # "none"
           /\ \A s \in Subs : status[s] = "none" => vm'[s] = vm[s]
           /\ \A j \in queue' : j \in queue \/ (overdue[j.sub] /\ status[j.sub] # "none")
  <1>1. SubTypeOK
    BY DEF SubInv
  <1>2. step[w] \in OnRow => cur[w] \in Subs /\ status[cur[w]] # "none"
    BY DEF SubInv, RunnersAtRow, NothingBeforeRow
  <1>3. Absent \notin Subs
    BY SubsAssumption
  <1>4. CASE StartRenewals(w)
    BY <1>4, <1>1, <1>2, <1>3 DEF StartRenewals, StartTick, SubTypeOK, OnRow, rows
  <1>5. CASE ReadDue(w)
    BY <1>5, <1>1, <1>2, <1>3 DEF ReadDue, IsDue, At2, Drop, SubTypeOK, OnRow, rows
  <1>6. CASE ChargeRenewal(w)
    BY <1>6, <1>1, <1>2, <1>3 DEF ChargeRenewal, Debit, Covered, Add, At2, SubTypeOK, OnRow,
       rows
  <1>7. CASE RefuseRenewal(w)
    BY <1>7, <1>1, <1>2, <1>3 DEF RefuseRenewal, At2, SubTypeOK, OnRow, rows
  <1>8. CASE Renew(w)
    <2>1. cur[w] \in Subs /\ status[cur[w]] # "none"
      BY <1>2, <1>8 DEF Renew, OnRow
    <2> QED
      BY <1>1, <1>3, <2>1, <1>8 DEF Renew, Drop, SubTypeOK, OnRow
  <1>9. CASE EnterGrace(w)
    <2>1. cur[w] \in Subs /\ status[cur[w]] # "none"
      BY <1>2, <1>9 DEF EnterGrace, OnRow
    <2> QED
      BY <1>1, <1>3, <2>1, <1>9 DEF EnterGrace, Drop, SubTypeOK, OnRow
  <1>10. CASE StartGrace(w)
    BY <1>10, <1>1, <1>2, <1>3 DEF StartGrace, StartTick, SubTypeOK, OnRow, rows
  <1>11. CASE QueueDelete(w)
    <2>1. PICK s \in todo[w] :
             \/ /\ overdue[s] /\ queue' = queue \cup {Job(s, "delete", 0)}
                /\ At2(w, "queued", s)
             \/ Drop(w, s) /\ UNCHANGED queue
      BY <1>11 DEF QueueDelete
    <2>2. s \in Subs
      BY <1>1 DEF SubTypeOK
    <2>3. UNCHANGED <<status, vm>>
      BY <1>11 DEF QueueDelete, rows
    <2>4. CASE overdue[s] /\ queue' = queue \cup {Job(s, "delete", 0)} /\ At2(w, "queued", s)
      <3>1. status[s] # "none"
        BY <2>2, <2>4 DEF SubInv, NothingBeforeRow
      <3> QED
        BY <1>1, <2>2, <2>3, <2>4, <3>1 DEF At2, Job, SubTypeOK
    <2>5. CASE Drop(w, s) /\ UNCHANGED queue
      <3>1. cur'[w] = Absent /\ step'[w] \notin OnRow /\ Absent \notin Subs
        BY <1>1, <2>5, <1>11, SubsAssumption DEF QueueDelete, Drop, SubTypeOK, OnRow
      <3> QED
        BY <2>3, <2>5, <3>1
    <2> QED
      BY <2>1, <2>4, <2>5
  <1>12. CASE Expire(w)
    <2>1. cur[w] \in Subs /\ status[cur[w]] # "none"
      BY <1>2, <1>12 DEF Expire, OnRow
    <2> QED
      BY <1>1, <1>3, <2>1, <1>12 DEF Expire, Drop, SubTypeOK, OnRow
  <1>13. CASE BreakTick(w)
    BY <1>13, <1>1, <1>2, <1>3 DEF BreakTick, Add, SubTypeOK, OnRow, rows
  <1> QED
    BY <1>4, <1>5, <1>6, <1>7, <1>8, <1>9, <1>10, <1>11, <1>12, <1>13 DEF RunnerStep,
       Tick

-----------------------------------------------------------------------------
\* As long as there is no row a call does not get past its first look, and a
\* subscribe has no row until it makes one.
LEMMA OwnStage ==
    ASSUME SubInv, NEW r \in Handlers, HandlerStep(r), ~CreateSubscription(r)
    PROVE  /\ status[Sub(r)] = "none" => stage'[r] \in Rowless(r)
           /\ call[r].op = "subscribe" /\ stage'[r] \in {"checked"} \cup Paying =>
                 status[Sub(r)] = "none"
  <1>1. /\ stage \in [Handlers -> {"new", "checked", "created", "found", "written", "credited",
                                   "resumed", "done", "failed"} \cup Paying]
        /\ call[r].op \in {"subscribe", "cancel", "adminCancel", "changePlan", "refund", "topUp"}
    BY CallTypes DEF SubInv, SubTypeOK
  <1>2. status[Sub(r)] = "none" => stage[r] \in Rowless(r)
    BY CallTypes DEF SubInv, NothingBeforeRow
  <1>3. call[r].op = "subscribe" /\ stage[r] \in {"checked"} \cup Paying =>
           status[Sub(r)] = "none"
    BY DEF SubInv, RowIsNew
  <1>4. CASE CheckPlan(r)
    BY <1>4, <1>1, <1>2, <1>3 DEF CheckPlan, At, Reach, Rowless, Paying
  <1>5. CASE PayFirstPeriod(r)
    BY <1>5, <1>1, <1>2, <1>3 DEF PayFirstPeriod, At, Reach, Rowless, Paying
  <1>6. CASE RefuseSubscribe(r)
    BY <1>6, <1>1, <1>2, <1>3 DEF RefuseSubscribe, Fail, At, Reach, Rowless, Paying
  <1>7. CASE TakePool(r)
    BY <1>7, <1>1, <1>2, <1>3 DEF TakePool, At, Reach, Rowless, Paying
  <1>8. CASE LockPool(r)
    BY <1>8, <1>1, <1>2, <1>3 DEF LockPool, At, Reach, Rowless, Paying
  <1>9. CASE Admit(r)
    BY <1>9, <1>1, <1>2, <1>3 DEF Admit, At, Reach, Rowless, Paying
  <1>10. CASE LosePayment(r)
    BY <1>10, <1>1, <1>2, <1>3 DEF LosePayment, Fail, Reach, Rowless, Paying
  <1>11. CASE QueueCreate(r)
    BY <1>11, <1>1, <1>2, <1>3 DEF QueueCreate, At, Reach, Rowless, Paying
  <1>12. CASE CheckCancel(r)
    BY <1>12, <1>1, <1>2, <1>3 DEF CheckCancel, At, Reach, Rowless, Paying
  <1>13. CASE Cancel(r)
    BY <1>13, <1>1, <1>2, <1>3 DEF Cancel, At, Reach, Rowless, Paying
  <1>14. CASE ReadPlan(r)
    BY <1>14, <1>1, <1>2, <1>3 DEF ReadPlan, Fail, At, Reach, Rowless, Paying
  <1>15. CASE PayDifference(r)
    BY <1>15, <1>1, <1>2, <1>3 DEF PayDifference, At, Reach, Rowless, Paying
  <1>16. CASE WritePlan(r)
    BY <1>16, <1>1, <1>2, <1>3 DEF WritePlan, At, Reach, Rowless, Paying
  <1>17. CASE QueueResize(r)
    BY <1>17, <1>1, <1>2, <1>3 DEF QueueResize, At, Reach, Rowless, Paying
  <1>18. CASE ReadRefunded(r)
    BY <1>18, <1>1, <1>2, <1>3 DEF ReadRefunded, At, Reach, Rowless, Paying
  <1>19. CASE CreditWallet(r)
    BY <1>19, <1>1, <1>2, <1>3 DEF CreditWallet, At, Reach, Rowless, Paying
  <1>20. CASE AutoResume(r)
    BY <1>20, <1>1, <1>2, <1>3 DEF AutoResume, Reach, Rowless, Paying
  <1>21. CASE WriteRefunded(r)
    BY <1>21, <1>1, <1>2, <1>3 DEF WriteRefunded, At, Reach, Rowless, Paying
  <1>22. CASE AbortRefund(r)
    BY <1>22, <1>1, <1>2, <1>3 DEF AbortRefund, Fail, Reach, Rowless, Paying
  <1> QED
    BY <1>4, <1>5, <1>6, <1>7, <1>8, <1>9, <1>10, <1>11, <1>12, <1>13, <1>14, <1>15,
       <1>16, <1>17, <1>18, <1>19, <1>20, <1>21, <1>22 DEF HandlerStep, Subscribe, ChangePlan,
       Refund

\* A step of a call keeps what is known of the rows.
LEMMA CallKeepsRowInv ==
    ASSUME SubInv, NEW r \in Handlers, HandlerStep(r)
    PROVE  RunnersAtRow' /\ RowsHavePlans' /\ NothingBeforeRow' /\ RowIsNew'
  <1>1. SubTypeOK /\ CallsAllowed /\ NothingBeforeRow /\ RowIsNew /\ RowsHavePlans
    BY DEF SubInv
  <1>2. /\ call' = call /\ UNCHANGED <<due, overdue, todo, step, cur, bill>>
        /\ \A q \in Handlers : q # r => stage'[q] = stage[q]
    BY <1>1, HandlerMoves DEF ticks
  <1>3. \A q \in Handlers : /\ Sub(q)' = Sub(q) /\ Rowless(q)' = Rowless(q)
                            /\ Sub(q) \in Subs
    BY <1>1, <1>2, CallTypes DEF Sub, Rowless
  <1>4. RunnersAtRow'
    BY <1>2 DEF SubInv, RunnersAtRow
  <1>5. CASE CreateSubscription(r)
    <2>1. /\ status[Sub(r)] = "none"
          /\ status' = [status EXCEPT ![Sub(r)] = "active"]
          /\ vm' = [vm EXCEPT ![Sub(r)] = "provisioning"]
          /\ plan' = [plan EXCEPT ![Sub(r)] = call[r].plan] /\ call[r].plan \in Plans
          /\ Sub(r) \in Subs /\ queue' = queue /\ stage[r] \in Paying
      BY <1>5, RowIsMade
    <2>2. stage'[r] = "created" /\ call[r].op = "subscribe"
      BY <1>1, <1>5 DEF CreateSubscription, Reach, At, SubTypeOK
    <2>3. \A s \in Subs : /\ status'[s] = IF s = Sub(r) THEN "active" ELSE status[s]
                          /\ plan'[s] = IF s = Sub(r) THEN call[r].plan ELSE plan[s]
                          /\ (s # Sub(r) => vm'[s] = vm[s])
      BY <1>1, <2>1 DEF SubTypeOK
    <2>4. RowsHavePlans'
      BY <1>1, <2>1, <2>3 DEF RowsHavePlans
    <2>5. NothingBeforeRow'
      <3> SUFFICES ASSUME NEW s \in Subs, status'[s] = "none"
                   PROVE  /\ vm'[s] = "none" /\ ~overdue'[s]
                          /\ \A j \in queue' : j.sub # s
                          /\ \A w \in Runners : cur'[w] # s
                          /\ \A q \in Handlers : Sub(q)' = s => stage'[q] \in Rowless(q)'
        BY DEF NothingBeforeRow
      <3>1. s # Sub(r) /\ status[s] = "none"
        BY <2>3
      <3> QED
        BY <1>1, <1>2, <1>3, <2>1, <2>3, <3>1 DEF NothingBeforeRow
    <2>6. RowIsNew'
      <3> SUFFICES ASSUME NEW q \in Handlers, call'[q].op = "subscribe",
                          stage'[q] \in {"checked"} \cup Paying
                   PROVE  status'[Sub(q)'] = "none"
        BY DEF RowIsNew
      <3>1. q # r /\ stage[q] = stage'[q] /\ call[q].op = "subscribe"
        BY <1>2, <2>2 DEF Paying
      <3>2. call[q] \in CallsOf[q] /\ call[r] \in CallsOf[r]
        BY <1>1 DEF CallsAllowed
      <3>3. Sub(q) # Sub(r)
        BY <2>2, <3>1, <3>2, SubsAssumption DEF Sub
      <3>4. status[Sub(q)] = "none"
        BY <1>1, <3>1 DEF RowIsNew
      <3> QED
        BY <1>3, <2>3, <3>3, <3>4
    <2> QED
      BY <1>4, <2>4, <2>5, <2>6
  <1>6. CASE ~CreateSubscription(r)
    <2>1. /\ vm' = vm
          /\ \A s \in Subs : /\ (status'[s] = "none" <=> status[s] = "none")
                             /\ (plan'[s] = plan[s] \/ plan'[s] \in Plans)
          /\ \A j \in queue' : j \in queue \/ status[j.sub] # "none"
      BY <1>6, CallKeepsRows
    <2>2. RowsHavePlans'
      BY <1>1, <2>1 DEF RowsHavePlans
    <2>3. /\ status[Sub(r)] = "none" => stage'[r] \in Rowless(r)
          /\ call[r].op = "subscribe" /\ stage'[r] \in {"checked"} \cup Paying =>
                status[Sub(r)] = "none"
      BY <1>6, OwnStage
    <2>4. NothingBeforeRow'
      <3> SUFFICES ASSUME NEW s \in Subs, status'[s] = "none"
                   PROVE  /\ vm'[s] = "none" /\ ~overdue'[s]
                          /\ \A j \in queue' : j.sub # s
                          /\ \A w \in Runners : cur'[w] # s
                          /\ \A q \in Handlers : Sub(q)' = s => stage'[q] \in Rowless(q)'
        BY DEF NothingBeforeRow
      <3>1. status[s] = "none"
        BY <2>1
      <3>2. \A q \in Handlers : Sub(q)' = s => stage'[q] \in Rowless(q)'
        BY <1>1, <1>2, <1>3, <2>3, <3>1 DEF NothingBeforeRow
      <3> QED
        BY <1>1, <1>2, <2>1, <3>1, <3>2 DEF NothingBeforeRow
    <2>5. RowIsNew'
      BY <1>1, <1>2, <1>3, <2>1, <2>3 DEF RowIsNew
    <2> QED
      BY <1>4, <2>2, <2>4, <2>5
  <1> QED
    BY <1>5, <1>6

\* Only time makes a grace period overdue.
LEMMA OverdueByTime ==
    ASSUME SubTypeOK, NEW w \in Runners, RunnerStep(w)
    PROVE  \A s \in Subs : overdue'[s] => overdue[s]
  <1>1. CASE StartRenewals(w)
    BY <1>1 DEF StartRenewals, StartTick, rows
  <1>2. CASE ReadDue(w)
    BY <1>2 DEF ReadDue, rows
  <1>3. CASE ChargeRenewal(w)
    BY <1>3 DEF ChargeRenewal, rows
  <1>4. CASE RefuseRenewal(w)
    BY <1>4 DEF RefuseRenewal, rows
  <1>5. CASE Renew(w)
    BY <1>5 DEF Renew
  <1>6. CASE EnterGrace(w)
    BY <1>6 DEF EnterGrace, SubTypeOK
  <1>7. CASE StartGrace(w)
    BY <1>7 DEF StartGrace, StartTick, rows
  <1>8. CASE QueueDelete(w)
    BY <1>8 DEF QueueDelete, rows
  <1>9. CASE Expire(w)
    BY <1>9 DEF Expire
  <1>10. CASE BreakTick(w)
    BY <1>10 DEF BreakTick, rows
  <1> QED
    BY <1>1, <1>2, <1>3, <1>4, <1>5, <1>6, <1>7, <1>8, <1>9, <1>10 DEF RunnerStep, Tick

\* A step of a runner keeps what is known of the rows.
LEMMA RunnerKeepsRowInv ==
    ASSUME SubInv, NEW w \in Runners, RunnerStep(w)
    PROVE  RunnersAtRow' /\ RowsHavePlans' /\ NothingBeforeRow' /\ RowIsNew'
  <1>1. SubTypeOK /\ CallsAllowed /\ NothingBeforeRow /\ RowIsNew /\ RowsHavePlans
    BY DEF SubInv
  <1>2. /\ UNCHANGED <<call, stage, plan>>
        /\ \A u \in Runners : u # w => step'[u] = step[u] /\ cur'[u] = cur[u]
    BY <1>1, RunnerMoves DEF requests
  <1>3. /\ \A s \in Subs : status'[s] = "none" <=> status[s] = "none"
        /\ step'[w] \in OnRow => cur'[w] \in Subs
        /\ cur'[w] \in Subs => cur'[w] = cur[w] \/ status[cur'[w]] # "none"
        /\ \A s \in Subs : status[s] = "none" => vm'[s] = vm[s]
        /\ \A j \in queue' : j \in queue \/ (overdue[j.sub] /\ status[j.sub] # "none")
    BY RunnerKeepsRows
  <1>4. RunnersAtRow'
    BY <1>2, <1>3 DEF SubInv, RunnersAtRow
  <1>5. RowsHavePlans'
    BY <1>1, <1>2, <1>3 DEF RowsHavePlans
  <1>6. \A q \in Handlers : /\ Sub(q)' = Sub(q) /\ Rowless(q)' = Rowless(q)
                            /\ Sub(q) \in Subs
    BY <1>1, <1>2, CallTypes DEF Sub, Rowless
  <1>7. RowIsNew'
    BY <1>1, <1>2, <1>3, <1>6 DEF RowIsNew
  <1>8. \A s \in Subs : overdue'[s] => overdue[s]
    BY <1>1, OverdueByTime
  <1>9. NothingBeforeRow'
    <2> SUFFICES ASSUME NEW s \in Subs, status'[s] = "none"
                 PROVE  /\ vm'[s] = "none" /\ ~overdue'[s]
                        /\ \A j \in queue' : j.sub # s
                        /\ \A u \in Runners : cur'[u] # s
                        /\ \A q \in Handlers : Sub(q)' = s => stage'[q] \in Rowless(q)'
      BY DEF NothingBeforeRow
    <2>1. status[s] = "none"
      BY <1>3
    <2>2. /\ vm[s] = "none" /\ ~overdue[s]
          /\ \A j \in queue : j.sub # s
          /\ \A u \in Runners : cur[u] # s
          /\ \A q \in Handlers : Sub(q) = s => stage[q] \in Rowless(q)
      BY <1>1, <2>1 DEF NothingBeforeRow
    <2>3. \A u \in Runners : cur'[u] # s
      BY <1>2, <1>3, <2>1, <2>2
    <2> QED
      BY <1>2, <1>3, <1>6, <1>8, <2>1, <2>2, <2>3
  <1> QED
    BY <1>4, <1>5, <1>7, <1>9

\* The rest keeps what is known of the rows: time passes for rows, and a job is
\* of a row.
LEMMA OthersKeepRowInv ==
    ASSUME SubInv,
           \/ \E s \in Subs : TimeStep(s)
           \/ \E j \in queue : JobStep(j)
    PROVE  RunnersAtRow' /\ RowsHavePlans' /\ NothingBeforeRow' /\ RowIsNew'
  <1>1. SubTypeOK /\ CallsAllowed /\ NothingBeforeRow /\ RowIsNew /\ RowsHavePlans
        /\ RunnersAtRow
    BY DEF SubInv
  <1>2. UNCHANGED <<call, stage, plan, status, step, cur>> /\ queue' \subseteq queue
    BY TimeMoves, JobMoves DEF rows, requests, ticks
  <1>3. RunnersAtRow' /\ RowsHavePlans' /\ RowIsNew'
    BY <1>1, <1>2 DEF RunnersAtRow, RowsHavePlans, RowIsNew, Sub
  <1>4. ASSUME NEW s \in Subs, status[s] = "none"
        PROVE  vm'[s] = vm[s] /\ (overdue'[s] => overdue[s])
    <2>1. CASE \E t \in Subs : TimeStep(t)
      <3>1. PICK t \in Subs : TimeStep(t)
        BY <2>1
      <3>2. vm' = vm
        BY <3>1, TimeMoves
      <3>3. CASE PeriodEnds(t)
        BY <3>2, <3>3 DEF PeriodEnds
      <3>4. CASE GraceElapses(t)
        <4>1. t # s
          BY <1>4, <3>4 DEF GraceElapses
        <4>2. overdue' = [overdue EXCEPT ![t] = TRUE] /\ overdue \in [Subs -> BOOLEAN]
          BY <1>1, <3>4 DEF GraceElapses, SubTypeOK
        <4>3. overdue'[s] => overdue[s]
          BY <4>1, <4>2
        <4> QED
          BY <3>2, <4>3
      <3> QED
        BY <3>1, <3>3, <3>4 DEF TimeStep
    <2>2. CASE \E j \in queue : JobStep(j)
      <3>1. PICK j \in queue : JobStep(j)
        BY <2>2
      <3>2. overdue' = overdue
        BY <3>1, JobMoves DEF rows
      <3>3. j.sub # s
        BY <1>1, <1>4, <3>1 DEF NothingBeforeRow
      <3>4. vm'[s] = vm[s]
        BY <1>1, <3>1, <3>3 DEF JobStep, FinishJob, FailJob, SubTypeOK
      <3> QED
        BY <3>2, <3>4
    <2> QED
      BY <2>1, <2>2
  <1>5. \A q \in Handlers : Sub(q)' = Sub(q) /\ Rowless(q)' = Rowless(q)
    BY <1>2 DEF Sub, Rowless
  <1>6. NothingBeforeRow'
    BY <1>1, <1>2, <1>4, <1>5 DEF NothingBeforeRow
  <1> QED
    BY <1>3, <1>6

-----------------------------------------------------------------------------
\* A runner makes a row active only after charging for it, and comes to charge
\* only for an active one.
LEMMA RunnerRevives ==
    ASSUME SubInv, NEW w \in Runners, RunnerStep(w)
    PROVE  \A s \in Subs :
              /\ vm'[s] = "deleted" => vm[s] = "deleted"
              /\ status'[s] = "active" =>
                    status[s] = "active" \/ (cur[w] = s /\ step[w] = "charged")
              /\ cur'[w] = s /\ step'[w] \in Charging =>
                    status[s] = "active" \/ (cur[w] = s /\ step[w] \in Charging)
  <1>1. SubTypeOK
    BY DEF SubInv
  <1>2. step[w] \in OnRow => cur[w] \in Subs
    BY DEF SubInv, RunnersAtRow
  <1>3. CASE StartRenewals(w)
    BY <1>3, <1>1, <1>2 DEF StartRenewals, StartTick, SubTypeOK, OnRow, Charging, rows
  <1>4. CASE ReadDue(w)
    <2>1. UNCHANGED <<status, vm>>
      BY <1>4 DEF ReadDue, rows
    <2>2. PICK s \in todo[w] : \/ IsDue(s) /\ At2(w, "charging", s)
                               \/ Drop(w, s)
      BY <1>4 DEF ReadDue
    <2>3. CASE IsDue(s) /\ At2(w, "charging", s)
      BY <1>1, <2>1, <2>3 DEF IsDue, At2, SubTypeOK
    <2>4. CASE Drop(w, s)
      <3>1. cur'[w] = Absent /\ Absent \notin Subs
        BY <1>1, <2>4, SubsAssumption DEF Drop, SubTypeOK
      <3> QED
        BY <2>1, <3>1
    <2> QED
      BY <2>2, <2>3, <2>4
  <1>5. CASE ChargeRenewal(w)
    BY <1>5, <1>1, <1>2 DEF ChargeRenewal, Debit, Covered, Add, At2, SubTypeOK, OnRow,
       Charging, rows
  <1>6. CASE RefuseRenewal(w)
    BY <1>6, <1>1, <1>2 DEF RefuseRenewal, At2, SubTypeOK, OnRow, Charging, rows
  <1>7. CASE Renew(w)
    <2>1. cur[w] \in Subs
      BY <1>2, <1>7 DEF Renew, OnRow
    <2>2. cur'[w] = Absent /\ Absent \notin Subs
      BY <1>1, <1>7, SubsAssumption DEF Renew, Drop, SubTypeOK
    <2> QED
      BY <1>1, <2>1, <2>2, <1>7 DEF Renew, SubTypeOK, Charging
  <1>8. CASE EnterGrace(w)
    <2>1. cur[w] \in Subs
      BY <1>2, <1>8 DEF EnterGrace, OnRow
    <2>2. cur'[w] = Absent /\ Absent \notin Subs
      BY <1>1, <1>8, SubsAssumption DEF EnterGrace, Drop, SubTypeOK
    <2> QED
      BY <1>1, <2>1, <2>2, <1>8 DEF EnterGrace, SubTypeOK, Charging
  <1>9. CASE StartGrace(w)
    BY <1>9, <1>1, <1>2 DEF StartGrace, StartTick, SubTypeOK, OnRow, Charging, rows
  <1>10. CASE QueueDelete(w)
    <2>1. UNCHANGED <<status, vm>>
      BY <1>10 DEF QueueDelete, rows
    <2>2. PICK s \in todo[w] : \/ At2(w, "queued", s)
                               \/ Drop(w, s)
      BY <1>10 DEF QueueDelete
    <2>3. CASE At2(w, "queued", s)
      <3>1. step'[w] = "queued"
        BY <1>1, <2>3 DEF At2, SubTypeOK
      <3> QED
        BY <2>1, <3>1 DEF Charging
    <2>4. CASE Drop(w, s)
      <3>1. cur'[w] = Absent /\ Absent \notin Subs
        BY <1>1, <2>4, SubsAssumption DEF Drop, SubTypeOK
      <3> QED
        BY <2>1, <3>1
    <2> QED
      BY <2>2, <2>3, <2>4
  <1>11. CASE Expire(w)
    <2>1. cur[w] \in Subs
      BY <1>2, <1>11 DEF Expire, OnRow
    <2>2. cur'[w] = Absent /\ Absent \notin Subs
      BY <1>1, <1>11, SubsAssumption DEF Expire, Drop, SubTypeOK
    <2> QED
      BY <1>1, <2>1, <2>2, <1>11 DEF Expire, SubTypeOK, Charging
  <1>12. CASE BreakTick(w)
    <2>1. cur'[w] = Absent /\ Absent \notin Subs
      BY <1>1, <1>12, SubsAssumption DEF BreakTick, SubTypeOK
    <2> QED
      BY <2>1, <1>12 DEF BreakTick, rows
  <1> QED
    BY <1>3, <1>4, <1>5, <1>6, <1>7, <1>8, <1>9, <1>10, <1>11, <1>12 DEF RunnerStep,
       Tick

\* Nobody brings back a subscription whose VM is going.
LEMMA LeavingStays ==
    ASSUME SubInv, SubNext
    PROVE  LeavingIsFinal'
  <1>1. SubTypeOK /\ CallsAllowed /\ NothingBeforeRow /\ RowIsNew /\ LeavingIsFinal
    BY DEF SubInv
  <1>2. ASSUME NEW r \in Handlers, HandlerStep(r)
        PROVE  LeavingIsFinal'
    <2>1. UNCHANGED <<overdue, step, cur>>
      BY <1>1, <1>2, HandlerMoves DEF ticks
    <2>2. CASE CreateSubscription(r)
      <3>1. /\ ~overdue[Sub(r)] /\ Sub(r) \in Subs /\ queue' = queue
            /\ status' = [status EXCEPT ![Sub(r)] = "active"]
            /\ vm' = [vm EXCEPT ![Sub(r)] = "provisioning"]
            /\ \A j \in queue : j.sub # Sub(r)
        BY <2>2, RowIsMade
      <3>2. \A s \in Subs : s # Sub(r) => status'[s] = status[s] /\ vm'[s] = vm[s]
        BY <1>1, <3>1 DEF SubTypeOK
      <3>3. vm'[Sub(r)] = "provisioning"
        BY <1>1, <3>1 DEF SubTypeOK
      <3> QED
        BY <1>1, <2>1, <3>1, <3>2, <3>3 DEF LeavingIsFinal, Leaving
    <2>3. CASE ~CreateSubscription(r)
      <3>1. /\ vm' = vm
            /\ \A s \in Subs : status'[s] = "active" => status[s] = "active"
            /\ \A j \in queue' : j \in queue \/ j.kind # "delete"
        BY <1>2, <2>3, CallKeepsRows
      <3> QED
        BY <1>1, <2>1, <3>1 DEF LeavingIsFinal, Leaving
    <2> QED
      BY <2>2, <2>3
  <1>3. ASSUME NEW w \in Runners, RunnerStep(w)
        PROVE  LeavingIsFinal'
    <2>1. \A u \in Runners : u # w => step'[u] = step[u] /\ cur'[u] = cur[u]
      BY <1>1, <1>3, RunnerMoves
    <2>2. \A s \in Subs :
              /\ vm'[s] = "deleted" => vm[s] = "deleted"
              /\ status'[s] = "active" =>
                    status[s] = "active" \/ (cur[w] = s /\ step[w] = "charged")
              /\ cur'[w] = s /\ step'[w] \in Charging =>
                    status[s] = "active" \/ (cur[w] = s /\ step[w] \in Charging)
      BY <1>3, RunnerRevives
    <2>3. \A s \in Subs : overdue'[s] => overdue[s]
      BY <1>1, <1>3, OverdueByTime
    <2>4. \A j \in queue' : j \in queue \/ overdue[j.sub]
      BY <1>3, RunnerKeepsRows
    <2> SUFFICES ASSUME NEW s \in Subs, Leaving(s)'
                 PROVE  /\ status'[s] # "active"
                        /\ \A u \in Runners : cur'[u] = s => step'[u] \notin Charging
      BY DEF LeavingIsFinal
    <2>5. Leaving(s)
      BY <2>2, <2>3, <2>4 DEF Leaving
    <2>6. /\ status[s] # "active"
          /\ \A u \in Runners : cur[u] = s => step[u] \notin Charging
      BY <1>1, <2>5 DEF LeavingIsFinal
    <2> QED
      BY <2>1, <2>2, <2>6 DEF Charging
  <1>4. ASSUME NEW t \in Subs, TimeStep(t)
        PROVE  LeavingIsFinal'
    <2>1. UNCHANGED <<status, vm, queue, step, cur>>
      BY <1>4, TimeMoves DEF ticks
    <2>2. CASE PeriodEnds(t)
      BY <1>1, <2>1, <2>2 DEF PeriodEnds, LeavingIsFinal, Leaving
    <2>3. CASE GraceElapses(t)
      <3>1. status[t] # "active" /\ \A w \in Runners : cur[w] # t
        BY <2>3 DEF GraceElapses, Quiet
      <3>2. overdue \in [Subs -> BOOLEAN] /\ overdue' = [overdue EXCEPT ![t] = TRUE]
        BY <1>1, <2>3 DEF GraceElapses, SubTypeOK
      <3>3. \A s \in Subs : s # t => (overdue'[s] => overdue[s])
        BY <3>2
      <3> QED
        BY <1>1, <2>1, <3>1, <3>3 DEF LeavingIsFinal, Leaving
    <2> QED
      BY <1>4, <2>2, <2>3 DEF TimeStep
  <1>5. ASSUME NEW j \in queue, JobStep(j)
        PROVE  LeavingIsFinal'
    <2>1. UNCHANGED <<status, overdue, step, cur>> /\ queue' \subseteq queue
      BY <1>5, JobMoves DEF rows, ticks
    <2>2. ASSUME NEW s \in Subs, vm'[s] = "deleted"
          PROVE  vm[s] = "deleted" \/ (j.sub = s /\ j.kind = "delete")
      BY <1>1, <1>5, <2>2 DEF JobStep, FinishJob, FailJob, SubTypeOK
    <2> QED
      BY <1>1, <2>1, <2>2 DEF LeavingIsFinal, Leaving
  <1> QED
    BY <1>2, <1>3, <1>4, <1>5 DEF SubNext, HandlerStep, RunnerStep, TimeStep, JobStep

-----------------------------------------------------------------------------
\* A step of a call: credits are not taken back, the recorded total stays below
\* them, and a refund knows what it has read and credited.
LEMMA RefundOfCall ==
    ASSUME SubInv, NEW r \in Handlers, HandlerStep(r)
    PROVE  /\ \A s \in Subs : credited[s] <= credited'[s]
           /\ RefundsBacked'
           /\ call[r].op = "refund" =>
                /\ stage'[r] = "found" => former'[r] <= credited'[Sub(r)]
                /\ stage'[r] \in {"credited", "resumed"} =>
                      former'[r] + call[r].amount <= credited'[Sub(r)]
  <1>1. SubTypeOK /\ RefundsKnown /\ RefundsBacked
    BY DEF SubInv
  <1>2. /\ Sub(r) \in Subs /\ call[r].amount \in Nat
        /\ call[r].op \in {"subscribe", "cancel", "adminCancel", "changePlan", "refund", "topUp"}
    BY CallTypes DEF SubInv
  <1>3. CASE CheckPlan(r)
    BY <1>3, <1>1, <1>2 DEF CheckPlan, At, Reach, Paying, rows, tally, locals, SubTypeOK,
       RefundsKnown, RefundsBacked
  <1>4. CASE PayFirstPeriod(r)
    BY <1>4, <1>1, <1>2 DEF PayFirstPeriod, At, Reach, Paying, rows, locals, SubTypeOK,
       RefundsKnown, RefundsBacked
  <1>5. CASE RefuseSubscribe(r)
    BY <1>5, <1>1, <1>2 DEF RefuseSubscribe, Fail, At, Reach, Paying, rows, tally, locals,
       SubTypeOK, RefundsKnown, RefundsBacked
  <1>6. CASE TakePool(r)
    BY <1>6, <1>1, <1>2 DEF TakePool, At, Reach, Paying, rows, tally, SubTypeOK,
       RefundsKnown, RefundsBacked
  <1>7. CASE LockPool(r)
    BY <1>7, <1>1, <1>2 DEF LockPool, At, Reach, Paying, rows, tally, locals, SubTypeOK,
       RefundsKnown, RefundsBacked
  <1>8. CASE Admit(r)
    BY <1>8, <1>1, <1>2 DEF Admit, At, Reach, Paying, rows, tally, SubTypeOK, RefundsKnown,
       RefundsBacked
  <1>9. CASE LosePayment(r)
    BY <1>9, <1>1, <1>2 DEF LosePayment, Fail, Reach, Paying, rows, locals, SubTypeOK,
       RefundsKnown, RefundsBacked
  <1>10. CASE CreateSubscription(r)
    BY <1>10, <1>1, <1>2 DEF CreateSubscription, At, Reach, Paying, locals, SubTypeOK,
       RefundsKnown, RefundsBacked
  <1>11. CASE QueueCreate(r)
    BY <1>11, <1>1, <1>2 DEF QueueCreate, At, Reach, Paying, rows, locals, SubTypeOK,
       RefundsKnown, RefundsBacked
  <1>12. CASE CheckCancel(r)
    BY <1>12, <1>1, <1>2 DEF CheckCancel, At, Reach, Paying, rows, tally, locals, SubTypeOK,
       RefundsKnown, RefundsBacked
  <1>13. CASE Cancel(r)
    BY <1>13, <1>1, <1>2 DEF Cancel, At, Reach, Paying, tally, locals, SubTypeOK,
       RefundsKnown, RefundsBacked
  <1>14. CASE ReadPlan(r)
    BY <1>14, <1>1, <1>2 DEF ReadPlan, Fail, At, Reach, Paying, rows, tally, locals,
       SubTypeOK, RefundsKnown, RefundsBacked
  <1>15. CASE PayDifference(r)
    BY <1>15, <1>1, <1>2 DEF PayDifference, At, Reach, Paying, rows, tally, locals,
       SubTypeOK, RefundsKnown, RefundsBacked
  <1>16. CASE WritePlan(r)
    BY <1>16, <1>1, <1>2 DEF WritePlan, At, Reach, Paying, tally, locals, SubTypeOK,
       RefundsKnown, RefundsBacked
  <1>17. CASE QueueResize(r)
    BY <1>17, <1>1, <1>2 DEF QueueResize, At, Reach, Paying, rows, tally, locals, SubTypeOK,
       RefundsKnown, RefundsBacked
  <1>18. CASE ReadRefunded(r)
    BY <1>18, <1>1, <1>2 DEF ReadRefunded, At, Reach, Paying, rows, tally, SubTypeOK,
       RefundsKnown, RefundsBacked
  <1>19. CASE CreditWallet(r)
    BY <1>19, <1>1, <1>2 DEF CreditWallet, At, Reach, Paying, rows, locals, SubTypeOK,
       RefundsKnown, RefundsBacked
  <1>20. CASE AutoResume(r)
    BY <1>20, <1>1, <1>2 DEF AutoResume, Reach, Paying, rows, locals, SubTypeOK,
       RefundsKnown, RefundsBacked
  <1>21. CASE WriteRefunded(r)
    BY <1>21, <1>1, <1>2 DEF WriteRefunded, At, Reach, Paying, tally, locals, SubTypeOK,
       RefundsKnown, RefundsBacked
  <1>22. CASE AbortRefund(r)
    BY <1>22, <1>1, <1>2 DEF AbortRefund, Fail, Reach, Paying, rows, locals, SubTypeOK,
       RefundsKnown, RefundsBacked
  <1> QED
    BY <1>3, <1>4, <1>5, <1>6, <1>7, <1>8, <1>9, <1>10, <1>11, <1>12, <1>13, <1>14,
       <1>15, <1>16, <1>17, <1>18, <1>19, <1>20, <1>21, <1>22 DEF HandlerStep, Subscribe,
       ChangePlan, Refund

\* The recorded refunds stay below the credits.
LEMMA RefundsStay ==
    ASSUME SubInv, SubNext
    PROVE  RefundsKnown' /\ RefundsBacked'
  <1>1. SubTypeOK /\ CallsAllowed /\ RefundsKnown /\ RefundsBacked
    BY DEF SubInv
  <1>2. ASSUME NEW r \in Handlers, HandlerStep(r)
        PROVE  RefundsKnown' /\ RefundsBacked'
    <2>1. /\ \A s \in Subs : credited[s] <= credited'[s]
          /\ RefundsBacked'
          /\ call[r].op = "refund" =>
               /\ stage'[r] = "found" => former'[r] <= credited'[Sub(r)]
               /\ stage'[r] \in {"credited", "resumed"} =>
                     former'[r] + call[r].amount <= credited'[Sub(r)]
      BY <1>2, RefundOfCall
    <2>2. /\ call' = call
          /\ \A q \in Handlers : q # r => stage'[q] = stage[q] /\ former'[q] = former[q]
      BY <1>1, <1>2, HandlerMoves
    <2>3. SubTypeOK'
      BY <1>2, HandlerTypes
    <2> SUFFICES ASSUME NEW q \in Handlers, call[q].op = "refund"
                 PROVE  /\ stage'[q] = "found" => former'[q] <= credited'[Sub(q)]
                        /\ stage'[q] \in {"credited", "resumed"} =>
                              former'[q] + call[q].amount <= credited'[Sub(q)]
      BY <2>1, <2>2 DEF RefundsKnown, Sub
    <2>4. CASE q = r
      BY <2>1, <2>4
    <2>5. CASE q # r
      <3>1. Sub(q) \in Subs /\ call[q].amount \in Nat
        BY <1>1, CallTypes
      <3>2. credited[Sub(q)] \in Nat /\ credited'[Sub(q)] \in Nat /\ former[q] \in Nat
        BY <1>1, <2>3, <3>1 DEF SubTypeOK
      <3>3. credited[Sub(q)] <= credited'[Sub(q)]
        BY <2>1, <3>1
      <3>4. stage'[q] = stage[q] /\ former'[q] = former[q]
        BY <2>2, <2>5
      <3>5. /\ stage[q] = "found" => former[q] <= credited[Sub(q)]
            /\ stage[q] \in {"credited", "resumed"} =>
                  former[q] + call[q].amount <= credited[Sub(q)]
        BY <1>1 DEF RefundsKnown
      <3> QED
        BY <3>1, <3>2, <3>3, <3>4, <3>5
    <2> QED
      BY <2>4, <2>5
  <1>3. ASSUME UNCHANGED <<call, stage, former, refunded, credited>>
        PROVE  RefundsKnown' /\ RefundsBacked'
    BY <1>1, <1>3 DEF RefundsKnown, RefundsBacked, Sub
  <1>4. ASSUME NEW w \in Runners, RunnerStep(w)
        PROVE  RefundsKnown' /\ RefundsBacked'
    BY <1>1, <1>3, <1>4, RunnerMoves DEF requests, locals
  <1>5. ASSUME NEW s \in Subs, TimeStep(s)
        PROVE  RefundsKnown' /\ RefundsBacked'
    BY <1>3, <1>5, TimeMoves DEF requests, locals, tally
  <1>6. ASSUME NEW j \in queue, JobStep(j)
        PROVE  RefundsKnown' /\ RefundsBacked'
    BY <1>3, <1>6, JobMoves DEF requests, locals, tally, rows
  <1> QED
    BY <1>2, <1>4, <1>5, <1>6 DEF SubNext, HandlerStep, RunnerStep, TimeStep, JobStep

-----------------------------------------------------------------------------
\* The calls and the runners that have charged for s and not yet served it.
Buyers(s) ==
    {r \in Handlers : Sub(r) = s /\ call[r].op = "subscribe" /\ stage[r] \in Paying}
Chargers(s) == {w \in Runners : cur[w] = s /\ step[w] = "charged"}

\* Counting them.
LEMMA BuyingCounts ==
    ASSUME NEW s
    PROVE  /\ Buying(s) = Cardinality(Buyers(s)) + Cardinality(Chargers(s))
           /\ IsFiniteSet(Buyers(s)) /\ Cardinality(Buyers(s)) \in Nat
           /\ IsFiniteSet(Chargers(s)) /\ Cardinality(Chargers(s)) \in Nat
  <1>1. IsFiniteSet(Buyers(s)) /\ IsFiniteSet(Chargers(s))
    BY FS_Subset, SubsAssumption DEF Buyers, Chargers
  <1>2. Buying(s) = Cardinality(Buyers(s)) + Cardinality(Chargers(s))
    BY DEF Buying, Buyers, Chargers
  <1> QED
    BY <1>1, <1>2, FS_CardinalityType

\* The same of the next state.
LEMMA BuyingCountsNext ==
    ASSUME NEW s
    PROVE  /\ Buying(s)' = Cardinality(Buyers(s)') + Cardinality(Chargers(s)')
           /\ IsFiniteSet(Buyers(s)') /\ Cardinality(Buyers(s)') \in Nat
           /\ IsFiniteSet(Chargers(s)') /\ Cardinality(Chargers(s)') \in Nat
  <1>1. IsFiniteSet(Buyers(s)') /\ IsFiniteSet(Chargers(s)')
    BY FS_Subset, SubsAssumption DEF Buyers, Chargers
  <1>2. Buying(s)' = Cardinality(Buyers(s)') + Cardinality(Chargers(s)')
    BY DEF Buying, Buyers, Chargers
  <1> QED
    BY <1>1, <1>2, FS_CardinalityType

\* One more.
LEMMA OneMore ==
    ASSUME NEW S, NEW T, IsFiniteSet(S), NEW e, e \notin S, T = S \cup {e}
    PROVE  Cardinality(T) = Cardinality(S) + 1
    BY FS_AddElement

\* One less.
LEMMA OneLess ==
    ASSUME NEW S, NEW T, IsFiniteSet(S), NEW e \in S, T = S \ {e}
    PROVE  Cardinality(S) = Cardinality(T) + 1
  <1>1. Cardinality(T) = Cardinality(S) - 1
    BY FS_RemoveElement
  <1> QED
    BY <1>1, FS_CardinalityType

\* The other steps of a call charge and serve nobody.
LEMMA NoPayment ==
    ASSUME SubInv, NEW r \in Handlers, HandlerStep(r),
           ~PayFirstPeriod(r), ~LosePayment(r), ~CreateSubscription(r)
    PROVE  /\ UNCHANGED <<paid, granted, wasted>>
           /\ call[r].op = "subscribe" => (stage'[r] \in Paying <=> stage[r] \in Paying)
  <1>1. SubTypeOK
    BY DEF SubInv
  <1>2. call[r].op \in {"subscribe", "cancel", "adminCancel", "changePlan", "refund", "topUp"}
    BY CallTypes DEF SubInv
  <1>3. CASE CheckPlan(r)
    BY <1>3, <1>1, <1>2 DEF CheckPlan, At, Reach, Paying, tally, SubTypeOK
  <1>4. CASE RefuseSubscribe(r)
    BY <1>4, <1>1, <1>2 DEF RefuseSubscribe, Fail, At, Reach, Paying, tally, SubTypeOK
  <1>5. CASE TakePool(r)
    BY <1>5, <1>1, <1>2 DEF TakePool, At, Reach, Paying, tally, SubTypeOK
  <1>6. CASE LockPool(r)
    BY <1>6, <1>1, <1>2 DEF LockPool, At, Reach, Paying, tally, SubTypeOK
  <1>7. CASE Admit(r)
    BY <1>7, <1>1, <1>2 DEF Admit, At, Reach, Paying, tally, SubTypeOK
  <1>8. CASE QueueCreate(r)
    BY <1>8, <1>1, <1>2 DEF QueueCreate, At, Reach, Paying, SubTypeOK
  <1>9. CASE CheckCancel(r)
    BY <1>9, <1>1, <1>2 DEF CheckCancel, At, Reach, Paying, tally, SubTypeOK
  <1>10. CASE Cancel(r)
    BY <1>10, <1>1, <1>2 DEF Cancel, At, Reach, Paying, tally, SubTypeOK
  <1>11. CASE ReadPlan(r)
    BY <1>11, <1>1, <1>2 DEF ReadPlan, Fail, At, Reach, Paying, tally, SubTypeOK
  <1>12. CASE PayDifference(r)
    BY <1>12, <1>1, <1>2 DEF PayDifference, At, Reach, Paying, tally, SubTypeOK
  <1>13. CASE WritePlan(r)
    BY <1>13, <1>1, <1>2 DEF WritePlan, At, Reach, Paying, tally, SubTypeOK
  <1>14. CASE QueueResize(r)
    BY <1>14, <1>1, <1>2 DEF QueueResize, At, Reach, Paying, tally, SubTypeOK
  <1>15. CASE ReadRefunded(r)
    BY <1>15, <1>1, <1>2 DEF ReadRefunded, At, Reach, Paying, tally, SubTypeOK
  <1>16. CASE CreditWallet(r)
    BY <1>16, <1>1, <1>2 DEF CreditWallet, At, Reach, Paying, SubTypeOK
  <1>17. CASE AutoResume(r)
    BY <1>17, <1>1, <1>2 DEF AutoResume, Reach, Paying, SubTypeOK
  <1>18. CASE WriteRefunded(r)
    BY <1>18, <1>1, <1>2 DEF WriteRefunded, At, Reach, Paying, tally, SubTypeOK
  <1>19. CASE AbortRefund(r)
    BY <1>19, <1>1, <1>2 DEF AbortRefund, Fail, Reach, Paying, SubTypeOK
  <1> QED
    BY <1>3, <1>4, <1>5, <1>6, <1>7, <1>8, <1>9, <1>10, <1>11, <1>12, <1>13, <1>14,
       <1>15, <1>16, <1>17, <1>18, <1>19 DEF HandlerStep, Subscribe, ChangePlan, Refund

\* A step of a call accounts for what it charges.
LEMMA CallCharges ==
    ASSUME SubInv, NEW r \in Handlers, HandlerStep(r)
    PROVE  ChargesAccountedFor'
  <1>1. SubTypeOK /\ CallsAllowed /\ ChargesAccountedFor
    BY DEF SubInv
  <1>2. /\ call' = call /\ UNCHANGED <<step, cur>>
        /\ \A q \in Handlers : q # r => stage'[q] = stage[q]
    BY <1>1, HandlerMoves DEF ticks
  <1>3. paid \in [Subs -> Nat] /\ granted \in [Subs -> Nat] /\ wasted \in [Subs -> Nat]
    BY <1>1 DEF SubTypeOK
  <1>4. \A q : Sub(q)' = Sub(q)
    BY <1>2 DEF Sub
  <1> SUFFICES ASSUME NEW s \in Subs
               PROVE  paid'[s] = granted'[s] + wasted'[s] + Buying(s)'
    BY DEF ChargesAccountedFor
  <1>5. paid[s] = granted[s] + wasted[s] + Buying(s)
    BY <1>1 DEF ChargesAccountedFor
  <1>6. Chargers(s)' = Chargers(s)
    BY <1>2 DEF Chargers
  <1>7. ASSUME Sub(r) # s \/ call[r].op # "subscribe"
                    \/ (stage'[r] \in Paying <=> stage[r] \in Paying)
        PROVE  Buyers(s)' = Buyers(s)
    BY <1>2, <1>4, <1>7 DEF Buyers
  <1>8. paid[s] \in Nat /\ granted[s] \in Nat /\ wasted[s] \in Nat
    BY <1>3
  <1>9. CASE PayFirstPeriod(r)
    <2>1. /\ call[r].op = "subscribe" /\ stage[r] = "checked" /\ stage'[r] = "paid"
          /\ paid' = Add(paid, Sub(r)) /\ UNCHANGED <<granted, wasted>>
      BY <1>1, <1>9 DEF PayFirstPeriod, At, Reach, SubTypeOK
    <2>2. paid'[s] = (IF s = Sub(r) THEN paid[s] + 1 ELSE paid[s])
      BY <1>3, <2>1, AddTypes
    <2>3. CASE s = Sub(r)
      <3>1. Buyers(s)' = Buyers(s) \cup {r} /\ r \notin Buyers(s)
        BY <1>2, <1>4, <2>1, <2>3 DEF Buyers, Paying
      <3>2. Cardinality(Buyers(s)') = Cardinality(Buyers(s)) + 1
        BY <3>1, BuyingCounts, OneMore
      <3> QED
        BY <1>5, <1>6, <1>8, <2>1, <2>2, <2>3, <3>2, BuyingCounts, BuyingCountsNext
    <2>4. CASE s # Sub(r)
      BY <1>5, <1>6, <1>7, <2>1, <2>2, <2>4, BuyingCounts, BuyingCountsNext
    <2> QED
      BY <2>3, <2>4
  <1>10. ASSUME call[r].op = "subscribe", stage[r] \in Paying, stage'[r] \notin Paying,
                paid' = paid,
                \/ granted' = Add(granted, Sub(r)) /\ wasted' = wasted
                \/ wasted' = Add(wasted, Sub(r)) /\ granted' = granted
         PROVE  paid'[s] = granted'[s] + wasted'[s] + Buying(s)'
    <2>1. granted'[s] + wasted'[s] =
             granted[s] + wasted[s] + (IF s = Sub(r) THEN 1 ELSE 0)
      <3>1. /\ Add(granted, Sub(r))[s] = (IF s = Sub(r) THEN granted[s] + 1 ELSE granted[s])
            /\ Add(wasted, Sub(r))[s] = (IF s = Sub(r) THEN wasted[s] + 1 ELSE wasted[s])
        BY <1>3, AddTypes
      <3> QED
        BY <1>8, <1>10, <3>1
    <2>2. CASE s = Sub(r)
      <3>1. Buyers(s)' = Buyers(s) \ {r} /\ r \in Buyers(s)
        BY <1>2, <1>4, <1>10, <2>2 DEF Buyers
      <3>2. Cardinality(Buyers(s)) = Cardinality(Buyers(s)') + 1
        BY <3>1, BuyingCounts, OneLess
      <3> QED
        BY <1>5, <1>6, <1>8, <1>10, <2>1, <2>2, <3>2, BuyingCounts, BuyingCountsNext
    <2>3. CASE s # Sub(r)
      BY <1>5, <1>6, <1>7, <1>10, <2>1, <2>3, <1>8, BuyingCounts, BuyingCountsNext
    <2> QED
      BY <2>2, <2>3
  <1>11. CASE LosePayment(r)
    <2>1. /\ call[r].op = "subscribe" /\ stage[r] \in Paying /\ stage'[r] \notin Paying
          /\ wasted' = Add(wasted, Sub(r)) /\ UNCHANGED <<paid, granted>>
      BY <1>1, <1>11 DEF LosePayment, Fail, Reach, SubTypeOK, Paying
    <2> QED
      BY <1>10, <2>1
  <1>12. CASE CreateSubscription(r)
    <2>1. /\ call[r].op = "subscribe" /\ stage[r] \in Paying /\ stage'[r] \notin Paying
          /\ granted' = Add(granted, Sub(r)) /\ UNCHANGED <<paid, wasted>>
      BY <1>1, <1>12 DEF CreateSubscription, At, Reach, SubTypeOK, Paying
    <2> QED
      BY <1>10, <2>1
  <1>13. CASE ~PayFirstPeriod(r) /\ ~LosePayment(r) /\ ~CreateSubscription(r)
    <2>1. /\ UNCHANGED <<paid, granted, wasted>>
          /\ call[r].op = "subscribe" => (stage'[r] \in Paying <=> stage[r] \in Paying)
      BY <1>13, NoPayment
    <2> QED
      BY <1>5, <1>6, <1>7, <2>1, BuyingCounts, BuyingCountsNext
  <1> QED
    BY <1>9, <1>11, <1>12, <1>13

\* The other steps of a runner charge and serve nobody.
LEMMA NoCharge ==
    ASSUME SubInv, NEW w \in Runners, RunnerStep(w),
           ~ChargeRenewal(w), ~Renew(w), ~BreakTick(w)
    PROVE  /\ UNCHANGED <<paid, granted, wasted>>
           /\ step[w] # "charged" /\ step'[w] # "charged"
  <1>1. SubTypeOK
    BY DEF SubInv
  <1>2. CASE StartRenewals(w)
    BY <1>2, <1>1 DEF StartRenewals, StartTick, IsDue, tally, SubTypeOK
  <1>3. CASE ReadDue(w)
    BY <1>3, <1>1 DEF ReadDue, At2, Drop, tally, SubTypeOK
  <1>4. CASE RefuseRenewal(w)
    BY <1>4, <1>1 DEF RefuseRenewal, At2, SubTypeOK
  <1>5. CASE EnterGrace(w)
    BY <1>5, <1>1 DEF EnterGrace, Drop, tally, SubTypeOK
  <1>6. CASE StartGrace(w)
    BY <1>6, <1>1 DEF StartGrace, StartTick, tally, SubTypeOK
  <1>7. CASE QueueDelete(w)
    BY <1>7, <1>1 DEF QueueDelete, At2, Drop, tally, SubTypeOK
  <1>8. CASE Expire(w)
    BY <1>8, <1>1 DEF Expire, Drop, tally, SubTypeOK
  <1> QED
    BY <1>2, <1>3, <1>4, <1>5, <1>6, <1>7, <1>8 DEF RunnerStep, Tick

\* A step of a runner accounts for what it charges.
LEMMA RunnerCharges ==
    ASSUME SubInv, NEW w \in Runners, RunnerStep(w)
    PROVE  ChargesAccountedFor'
  <1>1. SubTypeOK /\ ChargesAccountedFor /\ RunnersAtRow
    BY DEF SubInv
  <1>2. /\ UNCHANGED <<call, stage>>
        /\ \A u \in Runners : u # w => step'[u] = step[u] /\ cur'[u] = cur[u]
    BY <1>1, RunnerMoves DEF requests
  <1>3. paid \in [Subs -> Nat] /\ granted \in [Subs -> Nat] /\ wasted \in [Subs -> Nat]
    BY <1>1 DEF SubTypeOK
  <1> SUFFICES ASSUME NEW s \in Subs
               PROVE  paid'[s] = granted'[s] + wasted'[s] + Buying(s)'
    BY DEF ChargesAccountedFor
  <1>4. paid[s] = granted[s] + wasted[s] + Buying(s)
    BY <1>1 DEF ChargesAccountedFor
  <1>5. Buyers(s)' = Buyers(s)
    BY <1>2 DEF Buyers, Sub
  <1>6. ASSUME (cur'[w] = s /\ step'[w] = "charged") <=> (cur[w] = s /\ step[w] = "charged")
        PROVE  Chargers(s)' = Chargers(s)
    BY <1>2, <1>6 DEF Chargers
  <1>7. paid[s] \in Nat /\ granted[s] \in Nat /\ wasted[s] \in Nat
    BY <1>3
  <1>8. CASE ChargeRenewal(w)
    <2>1. /\ step[w] = "charging" /\ step'[w] = "charged" /\ cur'[w] = cur[w]
          /\ paid' = Add(paid, cur[w]) /\ UNCHANGED <<granted, wasted>>
      BY <1>1, <1>8 DEF ChargeRenewal, At2, SubTypeOK
    <2>2. paid'[s] = (IF s = cur[w] THEN paid[s] + 1 ELSE paid[s])
      BY <1>3, <2>1, AddTypes
    <2>3. CASE s = cur[w]
      <3>1. Chargers(s)' = Chargers(s) \cup {w} /\ w \notin Chargers(s)
        BY <1>2, <2>1, <2>3 DEF Chargers
      <3>2. Cardinality(Chargers(s)') = Cardinality(Chargers(s)) + 1
        BY <3>1, BuyingCounts, OneMore
      <3> QED
        BY <1>4, <1>5, <1>7, <2>1, <2>2, <2>3, <3>2, BuyingCounts, BuyingCountsNext
    <2>4. CASE s # cur[w]
      BY <1>4, <1>5, <1>6, <2>1, <2>2, <2>4, BuyingCounts, BuyingCountsNext
    <2> QED
      BY <2>3, <2>4
  <1>9. ASSUME step[w] = "charged", step'[w] # "charged", paid' = paid,
                \/ granted' = Add(granted, cur[w]) /\ wasted' = wasted
                \/ wasted' = Add(wasted, cur[w]) /\ granted' = granted
         PROVE  paid'[s] = granted'[s] + wasted'[s] + Buying(s)'
    <2>1. granted'[s] + wasted'[s] =
             granted[s] + wasted[s] + (IF s = cur[w] THEN 1 ELSE 0)
      <3>1. /\ Add(granted, cur[w])[s] = (IF s = cur[w] THEN granted[s] + 1 ELSE granted[s])
            /\ Add(wasted, cur[w])[s] = (IF s = cur[w] THEN wasted[s] + 1 ELSE wasted[s])
        BY <1>3, AddTypes
      <3> QED
        BY <1>7, <1>9, <3>1
    <2>2. CASE s = cur[w]
      <3>1. Chargers(s)' = Chargers(s) \ {w} /\ w \in Chargers(s)
        BY <1>2, <1>9, <2>2 DEF Chargers
      <3>2. Cardinality(Chargers(s)) = Cardinality(Chargers(s)') + 1
        BY <3>1, BuyingCounts, OneLess
      <3> QED
        BY <1>4, <1>5, <1>7, <1>9, <2>1, <2>2, <3>2, BuyingCounts, BuyingCountsNext
    <2>3. CASE s # cur[w]
      BY <1>4, <1>5, <1>6, <1>7, <1>9, <2>1, <2>3, BuyingCounts, BuyingCountsNext
    <2> QED
      BY <2>2, <2>3
  <1>10. CASE Renew(w)
    <2>1. step[w] = "charged" /\ step'[w] # "charged" /\ paid' = paid
      BY <1>1, <1>10 DEF Renew, Drop, SubTypeOK
    <2>2. \/ granted' = Add(granted, cur[w]) /\ wasted' = wasted
          \/ wasted' = Add(wasted, cur[w]) /\ granted' = granted
      BY <1>10 DEF Renew
    <2> QED
      BY <1>9, <2>1, <2>2
  <1>11. CASE BreakTick(w)
    <2>1. /\ step'[w] = "idle" /\ UNCHANGED <<paid, granted>>
          /\ wasted' = IF step[w] = "charged" THEN Add(wasted, cur[w]) ELSE wasted
      BY <1>1, <1>11 DEF BreakTick, SubTypeOK
    <2>2. CASE step[w] = "charged"
      BY <1>9, <2>1, <2>2
    <2>3. CASE step[w] # "charged"
      BY <1>4, <1>5, <1>6, <2>1, <2>3, BuyingCounts, BuyingCountsNext
    <2> QED
      BY <2>2, <2>3
  <1>12. CASE ~ChargeRenewal(w) /\ ~Renew(w) /\ ~BreakTick(w)
    <2>1. /\ UNCHANGED <<paid, granted, wasted>>
          /\ step[w] # "charged" /\ step'[w] # "charged"
      BY <1>12, NoCharge
    <2> QED
      BY <1>4, <1>5, <1>6, <2>1, BuyingCounts, BuyingCountsNext
  <1> QED
    BY <1>8, <1>10, <1>11, <1>12

-----------------------------------------------------------------------------
\* A sum of natural numbers is one.
LEMMA NaturalSum ==
    ASSUME NEW S, IsFiniteSet(S), NEW f, \A x \in S : f[x] \in Nat
    PROVE  SumOver(f, S) \in Nat
  <1> DEFINE zero == [x \in S |-> 0]
  <1>1. SumOver(zero, S) = 0
    BY SumOfZeros
  <1>2. SumOver(zero, S) <= SumOver(f, S)
    <2>1. \A x \in S : zero[x] \in Int /\ f[x] \in Int /\ zero[x] <= f[x]
      OBVIOUS
    <2> HIDE DEF zero
    <2> QED BY <2>1, SumMonotonic
  <1>3. SumOver(f, S) \in Int
    BY SumType
  <1> HIDE DEF zero
  <1> QED BY <1>1, <1>2, <1>3

\* The initial state satisfies the invariant.
LEMMA SubInitInv == ASSUME SubInit PROVE SubInv
  <1>1. \A s \in Subs : /\ status[s] = (IF s \in Old THEN "active" ELSE "none")
                        /\ plan[s] \in Plans \cup {Absent}
                        /\ (plan[s] = Absent <=> status[s] = "none")
                        /\ (status[s] # "none" => plan[s] \in Plans)
    BY DEF SubInit
  <1>2. /\ size = [s \in Subs |-> IF status[s] = "none" THEN 0 ELSE Cores[plan[s]]]
        /\ size \in [Subs -> Nat]
    <2>1. \A s \in Subs : status[s] # "none" => Cores[plan[s]] \in Nat
      BY <1>1, SubsAssumption
    <2> QED
      BY <2>1 DEF SubInit
  <1>3. home \in [Subs -> Pools \cup {Absent}]
    BY SubsAssumption DEF SubInit, Pools
  <1>4. total \in [Pools -> Nat]
    <2>1. \A p : SumOver(size, {s \in Subs : home[s] = p}) + Spare \in Nat
      <3> SUFFICES ASSUME NEW p
                   PROVE  SumOver(size, {s \in Subs : home[s] = p}) + Spare \in Nat
        OBVIOUS
      <3>1. IsFiniteSet({s \in Subs : home[s] = p})
        BY FS_Subset, SubsAssumption
      <3>2. SumOver(size, {s \in Subs : home[s] = p}) \in Nat
        BY <1>2, <3>1, NaturalSum
      <3> QED
        BY <3>2, SubsAssumption
    <2> DEFINE Total(p) == IF \E s \in Subs : home[s] = p
                           THEN SumOver(size, {s \in Subs : home[s] = p}) + Spare ELSE 0
    <2>2. total = [p \in Pools |-> Total(p)]
      BY DEF SubInit
    <2>3. \A p \in Pools : Total(p) \in Nat
      BY <2>1
    <2> HIDE DEF Total
    <2> QED
      BY <2>2, <2>3
  <1>5. /\ call \in [Handlers -> Calls] /\ stage = [r \in Handlers |-> "new"]
        /\ step = [w \in Runners |-> "idle"] /\ cur = [w \in Runners |-> Absent]
        /\ queue = {} /\ overdue = [s \in Subs |-> FALSE]
        /\ refunded = [s \in Subs |-> 0] /\ credited = [s \in Subs |-> 0]
        /\ vm = [s \in Subs |-> IF status[s] = "none" THEN "none" ELSE "running"]
        /\ paid = [s \in Subs |-> IF status[s] = "none" THEN 0 ELSE 1]
        /\ granted = paid /\ wasted = [s \in Subs |-> 0]
    BY DEF SubInit
  <1>6. SubTypeOK
    <2>1. /\ status \in [Subs -> Statuses] /\ plan \in [Subs -> Plans \cup {Absent}]
          /\ vm \in [Subs -> VmStatuses]
      BY <1>5 DEF SubInit, Statuses, VmStatuses
    <2>2. balance \in [Customers -> Nat]
      BY SubsAssumption DEF SubInit
    <2>3. paid \in [Subs -> Nat] /\ granted \in [Subs -> Nat] /\ wasted \in [Subs -> Nat]
      BY <1>5
    <2>4. /\ due \in [Subs -> BOOLEAN] /\ overdue \in [Subs -> BOOLEAN]
          /\ refunded \in [Subs -> Nat] /\ credited \in [Subs -> Nat] /\ breaks \in Nat
          /\ poolHolder \in [Pools -> Handlers \cup {Absent}]
          /\ addr \in [Ips -> Subs \cup {Absent}]
      BY DEF SubInit
    <2>5. /\ stage \in [Handlers -> {"new", "checked", "created", "found", "written",
                                     "credited", "resumed", "done", "failed"} \cup Paying]
          /\ pool \in [Handlers -> Pools \cup {Absent}] /\ former \in [Handlers -> Nat]
          /\ ip \in [Handlers -> Ips \cup {Absent}]
      BY DEF SubInit
    <2>6. /\ todo \in [Runners -> SUBSET Subs]
          /\ step \in [Runners -> {"idle", "renewing", "charging", "charged", "refused",
                                   "expiring", "queued"}]
          /\ cur \in [Runners -> Subs \cup {Absent}] /\ bill \in [Runners -> Nat]
      BY DEF SubInit
    <2> QED
      BY <1>2, <1>3, <1>4, <1>5, <2>1, <2>2, <2>3, <2>4, <2>5, <2>6 DEF SubTypeOK
  <1>7. CallsAllowed
    BY DEF SubInit, CallsAllowed
  <1>8. RunnersAtRow /\ RowsHavePlans
    BY <1>1, <1>5 DEF RunnersAtRow, RowsHavePlans, OnRow
  <1>9. NothingBeforeRow
    <2>1. \A r \in Handlers : "new" \in Rowless(r)
      BY DEF Rowless
    <2>2. Absent \notin Subs
      BY SubsAssumption
    <2> QED
      BY <1>5, <2>1, <2>2 DEF NothingBeforeRow
  <1>10. RowIsNew /\ RefundsKnown
    BY <1>5 DEF RowIsNew, RefundsKnown, Paying
  <1>11. LeavingIsFinal /\ RefundsBacked
    BY <1>5 DEF LeavingIsFinal, Leaving, RefundsBacked
  <1>12. ChargesAccountedFor
    <2> SUFFICES ASSUME NEW s \in Subs
                 PROVE  paid[s] = granted[s] + wasted[s] + Buying(s)
      BY DEF ChargesAccountedFor
    <2>1. Buyers(s) = {} /\ Chargers(s) = {}
      BY <1>5 DEF Buyers, Chargers, Paying
    <2>2. Buying(s) = 0
      BY <2>1, BuyingCounts, FS_EmptySet
    <2>3. wasted[s] = 0 /\ granted[s] = paid[s] /\ paid[s] \in Nat
      BY <1>5
    <2> QED
      BY <2>2, <2>3
  <1> QED
    BY <1>6, <1>7, <1>8, <1>9, <1>10, <1>11, <1>12 DEF SubInv

\* So does a state in which nothing has happened.
LEMMA SubStutterInv == ASSUME SubInv, UNCHANGED subVars PROVE SubInv'
  <1>1. UNCHANGED <<balance, status, plan, due, overdue, refunded, vm, total, home, size,
                    poolHolder, addr, queue, call, stage, pool, ip, former, todo, step, cur,
                    bill, paid, granted, wasted, credited, breaks>>
    BY DEF subVars, rows, pools, tally, ticks, locals, requests
  <1>2. SubTypeOK'
    BY <1>1 DEF SubInv, SubTypeOK
  <1>3. CallsAllowed' /\ RunnersAtRow' /\ RowsHavePlans' /\ RefundsBacked'
    BY <1>1 DEF SubInv, CallsAllowed, RunnersAtRow, RowsHavePlans, RefundsBacked
  <1>4. NothingBeforeRow' /\ RowIsNew' /\ LeavingIsFinal' /\ RefundsKnown'
    BY <1>1 DEF SubInv, NothingBeforeRow, RowIsNew, LeavingIsFinal, RefundsKnown, Leaving,
       Rowless, Sub
  <1>5. ChargesAccountedFor'
    BY <1>1 DEF SubInv, ChargesAccountedFor, Buying, Sub
  <1> QED
    BY <1>2, <1>3, <1>4, <1>5 DEF SubInv

\* Every step keeps the invariant.
LEMMA SubInvStep == ASSUME SubInv, [SubNext]_subVars PROVE SubInv'
  <1>1. CASE UNCHANGED subVars
    BY <1>1, SubStutterInv
  <1>2. CASE SubNext
    <2>1. SubTypeOK /\ CallsAllowed /\ ChargesAccountedFor
      BY DEF SubInv
    <2>2. LeavingIsFinal' /\ RefundsKnown' /\ RefundsBacked'
      BY <1>2, LeavingStays, RefundsStay
    <2>3. ASSUME NEW r \in Handlers, HandlerStep(r)
          PROVE  SubInv'
      <3>1. CallsAllowed'
        BY <2>1, <2>3, HandlerMoves, SameCalls
      <3> QED
        BY <2>2, <2>3, <3>1, HandlerTypes, CallKeepsRowInv, CallCharges DEF SubInv
    <2>4. ASSUME NEW w \in Runners, RunnerStep(w)
          PROVE  SubInv'
      <3>1. CallsAllowed'
        BY <2>1, <2>4, RunnerMoves, SameCalls DEF requests
      <3> QED
        BY <2>2, <2>4, <3>1, RunnerTypes, RunnerKeepsRowInv, RunnerCharges DEF SubInv
    <2>5. ASSUME \/ \E s \in Subs : TimeStep(s)
                 \/ \E j \in queue : JobStep(j)
          PROVE  SubInv'
      <3>1. SubTypeOK'
        BY <2>5, TimeTypes, JobTypes
      <3>2. UNCHANGED <<call, stage, step, cur, paid, granted, wasted>>
        BY <2>5, TimeMoves, JobMoves DEF requests, ticks, tally
      <3>3. CallsAllowed'
        BY <2>1, <3>2, SameCalls
      <3>4. ChargesAccountedFor'
        BY <2>1, <3>2 DEF ChargesAccountedFor, Buying, Sub
      <3> QED
        BY <2>2, <2>5, <3>1, <3>3, <3>4, OthersKeepRowInv DEF SubInv
    <2> QED
      BY <1>2, <2>3, <2>4, <2>5 DEF SubNext, HandlerStep, RunnerStep, TimeStep, JobStep
  <1> QED
    BY <1>1, <1>2

\* The invariant holds in every reachable state.
LEMMA SubInvariance == SubSpec => []SubInv
  <1>1. SubInit => SubInv
    BY SubInitInv
  <1>2. SubInv /\ [SubNext]_subVars => SubInv'
    BY SubInvStep
  <1> QED
    BY <1>1, <1>2, PTL DEF SubSpec

\* Every variable holds a value of the column or local variable it stands for.
THEOREM SubscriptionsTypes == SubSpec => []SubTypeOK
  <1>1. SubInv => SubTypeOK
    BY DEF SubInv
  <1> QED
    BY SubInvariance, <1>1, PTL

\* Every charge for a period has bought exactly one period, or is about to, or
\* is lost in a counted way, with any number of calls, ticks and failures.
THEOREM SubscriptionsChargesAccountedFor == SubSpec => []ChargesAccountedFor
  <1>1. SubInv => ChargesAccountedFor
    BY DEF SubInv
  <1> QED
    BY SubInvariance, <1>1, PTL

\* The recorded total of an administrator's refunds never exceeds the credits.
THEOREM SubscriptionsRefundsBacked == SubSpec => []RefundsBacked
  <1>1. SubInv => RefundsBacked
    BY DEF SubInv
  <1> QED
    BY SubInvariance, <1>1, PTL

\* The VM of an active subscription is neither deleted nor about to be.
THEOREM SubscriptionsActiveKeepsVm == SubSpec => []ActiveKeepsVm
  <1>1. SubInv => ActiveKeepsVm
    <2> SUFFICES ASSUME SubInv, NEW s \in Subs, status[s] = "active"
                 PROVE  vm[s] # "deleted" /\ Job(s, "delete", 0) \notin queue
      BY DEF ActiveKeepsVm
    <2>1. ~Leaving(s)
      BY DEF SubInv, LeavingIsFinal
    <2>2. Job(s, "delete", 0).sub = s /\ Job(s, "delete", 0).kind = "delete"
      BY DEF Job
    <2> QED
      BY <2>1, <2>2 DEF Leaving
  <1> QED
    BY SubInvariance, <1>1, PTL
=============================================================================
