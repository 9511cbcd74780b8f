------------------------------ MODULE Sessions ------------------------------
(***************************************************************************)
(* Sessions: AuthService (login, verify2fa, refreshToken, logout,          *)
(* resetPassword) and the web client that keeps the tokens it hands out.   *)
(*                                                                         *)
(* The tabs of a browser share its localStorage; each has an access token  *)
(* in memory.  A call that is answered 401 exchanges the refresh token the *)
(* browser holds at that moment, once, and is then sent again; when the    *)
(* exchange fails the tab is signed out.  Any number of calls may do so at *)
(* the same time.  Refresh tokens are numbered in the order of issue.      *)
(***************************************************************************)
EXTENDS Naturals, FiniteSets

CONSTANTS Users, Browsers, Tabs, Requests,
          UserOf,      \* who uses a browser
          BrowserOf,   \* the browser of a tab
          TabOf,       \* the tab that sends a request
          TotpUsers,   \* users with totpEnabled
          MaxCalls, MaxResets, MaxFaults, \* bounds of the exploration
          None

ASSUME SessionsAssumption ==
    /\ UserOf \in [Browsers -> Users] /\ BrowserOf \in [Tabs -> Browsers]
    /\ TabOf \in [Requests -> Tabs]
    /\ MaxCalls \in Nat /\ MaxResets \in Nat /\ MaxFaults \in Nat
    /\ None \notin Users

Tokens == 1..MaxCalls
NoToken == 0

VARIABLES
    session,      \* the rows: the user of a refresh token
    aged,         \* tokens whose expiresAt has passed
    issued,       \* how many tokens were issued
    epoch,        \* the version of a user's password
    access,       \* a tab's access token in memory
    kept,         \* the access token in localStorage
    stored,       \* the refresh token in localStorage
    pc, kind,     \* requests
    carried,      \* the refresh token a request carries, then brings
    seen,         \* the password's version when the server looked
    again,        \* requests with _retry set
    gone,         \* requests whose page was left
    exchanged,    \* history: sessions made in exchange for a token
    born,         \*   the password's version a session was made under
    raced,        \*   requests, and tokens they made, that the last reset overtook
    signedIn,     \*   browsers that have been signed in
    excused,      \*   browsers with a reason to be signed out
    calls, faults

server == <<session, aged, issued, epoch>>
client == <<access, kept, stored>>
local == <<kind, carried, seen, again, gone>>
history == <<exchanged, born, raced, signedIn, excused>>
bounds == <<calls, faults>>
vars == <<server, client, pc, local, history, bounds>>

Access == {"none", "fresh", "stale"}

Init ==
    /\ session = [k \in Tokens |-> None]
    /\ aged = {} /\ issued = 0
    /\ epoch = [u \in Users |-> 0]
    /\ access = [t \in Tabs |-> "none"]
    /\ kept = [b \in Browsers |-> "none"]
    /\ stored = [b \in Browsers |-> NoToken]
    /\ pc = [r \in Requests |-> "idle"]
    /\ kind = [r \in Requests |-> "call"]
    /\ carried = [r \in Requests |-> NoToken]
    /\ seen = [r \in Requests |-> 0]
    /\ again = {} /\ gone = {}
    /\ exchanged = [k \in Tokens |-> 0]
    /\ born = [k \in Tokens |-> 0]
    /\ raced = {} /\ signedIn = {} /\ excused = {}
    /\ calls = 0 /\ faults = 0

Browser(r) == BrowserOf[TabOf[r]]
User(r) == UserOf[Browser(r)]
Of(b) == {r \in Requests : Browser(r) = b}
InFlight(b) == {r \in Of(b) : pc[r] # "idle"}

Refreshing == {"refreshing", "found", "deleted", "answered"}
\* The server has looked at the password or the session and not yet answered.
Looked == {"second", "passed", "found", "deleted"}

Goto(r, phase) == pc' = [pc EXCEPT ![r] = phase]
\* The locals of a call that has ended are nobody's.
Reset(f, r, value) == [f EXCEPT ![r] = value]
Finish(r, left) ==
    /\ Goto(r, "idle")
    /\ kind' = Reset(kind, r, "call") /\ carried' = Reset(carried, r, NoToken)
    /\ seen' = Reset(seen, r, 0)
    /\ again' = again \ {r} /\ gone' = (gone \cup left) \ {r}
Excuse(b) == excused' = excused \cup {b}

(***************************************************************************)
(* The client starts a call                                                *)
(***************************************************************************)
Start(r, what, phase) ==
    /\ pc[r] = "idle" /\ calls < MaxCalls
    /\ calls' = calls + 1
    /\ kind' = Reset(kind, r, what)
    /\ Goto(r, phase)

\* login: a tab that has no token sends the password.
Login(r) ==
    /\ access[TabOf[r]] = "none"
    /\ Start(r, "login", "password")
    /\ seen' = [seen EXCEPT ![r] = epoch[User(r)]]
    /\ UNCHANGED <<server, client, carried, again, gone, history, faults>>

\* A call with a token that is not good any more is answered 401; the others
\* are answered at once and change nothing here.
Send(r) ==
    /\ access[TabOf[r]] # "fresh"
    /\ Start(r, "call", "denied")
    /\ UNCHANGED <<server, client, carried, seen, again, gone, history, faults>>

\* logout reads the refresh token first.
Logout(r) ==
    /\ access[TabOf[r]] # "none"
    /\ Start(r, "logout", "leaving")
    /\ carried' = [carried EXCEPT ![r] = stored[Browser(r)]]
    /\ Excuse(Browser(r))
    /\ UNCHANGED <<server, client, seen, again, gone, exchanged, born, raced, signedIn, faults>>

\* The page is loaded again: it takes the access token from localStorage and
\* asks for /auth/me.  What the tab had under way is nobody's any more.
Load(r) ==
    LET t == TabOf[r]  b == Browser(r) IN
    /\ pc[r] = "idle" /\ calls < MaxCalls /\ calls' = calls + 1
    /\ access' = [access EXCEPT ![t] = kept[b]]
    /\ gone' = gone \cup {q \in InFlight(b) : TabOf[q] = t}
    /\ IF kept[b] = "stale" THEN Goto(r, "denied") ELSE UNCHANGED pc
    /\ excused' = IF \E q \in InFlight(b) : TabOf[q] = t /\ pc[q] \in Refreshing
                  THEN excused \cup {b} ELSE excused   \* an answer is lost
    /\ UNCHANGED <<server, kept, stored, kind, carried, seen, again, exchanged, born, raced, signedIn, faults>>

(***************************************************************************)
(* The interceptor                                                         *)
(***************************************************************************)
\* Mutant: _retry is not set.
ExchangeAgain(r) ==
    /\ pc[r] = "denied" /\ r \notin gone /\ stored[Browser(r)] # NoToken
    /\ again' = again \cup {r}
    /\ carried' = [carried EXCEPT ![r] = stored[Browser(r)]]
    /\ Excuse(Browser(r))
    /\ Goto(r, "refreshing")
    /\ UNCHANGED <<server, client, kind, seen, gone, exchanged, born, raced, signedIn, bounds>>

\* The 401 arrives.  A second one is handed on to the caller.
ExchangeToken(r) ==
    /\ pc[r] = "denied" /\ r \notin again \cup gone /\ stored[Browser(r)] # NoToken
    /\ again' = again \cup {r}
    /\ carried' = [carried EXCEPT ![r] = stored[Browser(r)]]
    /\ excused' = IF \E q \in Of(Browser(r)) : pc[q] \in Refreshing
                  THEN excused \cup {Browser(r)} ELSE excused
    /\ Goto(r, "refreshing")
    /\ UNCHANGED <<server, client, kind, seen, gone, exchanged, born, raced, signedIn, bounds>>

\* Mutant: the new refresh token is not kept.
AdoptAccess(r) ==
    LET t == TabOf[r]  b == Browser(r) IN
    /\ pc[r] = "answered" /\ r \notin gone
    /\ access' = [access EXCEPT ![t] = "fresh"]
    /\ signedIn' = signedIn \cup {b}
    /\ Finish(r, {})
    /\ UNCHANGED <<server, kept, stored, exchanged, born, raced, excused, bounds>>

\* The answer of an exchange or a login: both tokens are kept, and the call is
\* sent again (a wrong password stays wrong) or followed by /auth/me.  An
\* exchange leaves the access token of localStorage as it was.
Adopt(r) ==
    LET t == TabOf[r]  b == Browser(r) IN
    /\ pc[r] = "answered" /\ r \notin gone
    /\ access' = [access EXCEPT ![t] = "fresh"]
    /\ stored' = [stored EXCEPT ![b] = carried[r]]
    /\ kept' = IF kind[r] = "login" /\ r \notin again THEN [kept EXCEPT ![b] = "fresh"] ELSE kept
    /\ signedIn' = signedIn \cup {b}
    /\ IF kind[r] = "login" /\ r \in again
       THEN Goto(r, "denied") /\ carried' = Reset(carried, r, NoToken)
            /\ UNCHANGED <<kind, seen, again, gone>>
       ELSE Finish(r, {})
    /\ UNCHANGED <<server, exchanged, born, raced, excused, bounds>>

Clear(t) ==
    /\ access' = [access EXCEPT ![t] = "none"]
    /\ kept' = [kept EXCEPT ![BrowserOf[t]] = "none"]
    /\ stored' = [stored EXCEPT ![BrowserOf[t]] = NoToken]

\* No token to exchange, or the exchange was refused: the tokens go, and the
\* page too unless it is the login page.
SignOut(r) ==
    /\ \/ pc[r] = "refused"
       \/ pc[r] = "denied" /\ r \notin again /\ stored[Browser(r)] = NoToken
    /\ r \notin gone
    /\ Clear(TabOf[r])
    /\ Finish(r, IF kind[r] = "login" THEN {}
                 ELSE {q \in InFlight(Browser(r)) : TabOf[q] = TabOf[r]})
    /\ UNCHANGED <<server, history, bounds>>

\* The answer reaches nobody, or is an error the caller shows.
Discard(r) ==
    /\ \/ pc[r] \in {"denied", "refused", "answered"} /\ r \in gone
       \/ pc[r] = "denied" /\ r \in again
       \/ pc[r] = "failed"
    /\ Finish(r, {})
    /\ UNCHANGED <<server, client, history, bounds>>

LeaveAfterLogout(r) ==
    /\ pc[r] = "left"
    /\ IF r \in gone THEN UNCHANGED client ELSE Clear(TabOf[r])
    /\ Finish(r, {})
    /\ UNCHANGED <<server, history, bounds>>

(***************************************************************************)
(* AuthService                                                             *)
(***************************************************************************)
\* The password as it was typed; a wrong one is answered 401 as well.
CheckPassword(r) ==
    /\ pc[r] = "password"
    /\ Goto(r, IF seen[r] # epoch[User(r)] THEN "denied"
               ELSE IF User(r) \in TotpUsers THEN "second" ELSE "passed")
    /\ UNCHANGED <<server, client, local, history, bounds>>

VerifyTotp(r) ==
    /\ pc[r] = "second"
    /\ \/ Goto(r, "passed") \/ Goto(r, "denied")
    /\ UNCHANGED <<server, client, local, history, bounds>>

FindSession(r) ==
    /\ pc[r] = "refreshing"
    /\ Goto(r, IF session[carried[r]] # None /\ carried[r] \notin aged
               THEN "found" ELSE "refused")
    /\ seen' = [seen EXCEPT ![r] = epoch[User(r)]]
    /\ UNCHANGED <<server, client, kind, carried, again, gone, history, bounds>>

\* Mutant: deleteMany, which does not throw.
DeleteSessionIfAny(r) ==
    /\ pc[r] = "found"
    /\ session' = [session EXCEPT ![carried[r]] = None]
    /\ Goto(r, "deleted")
    /\ UNCHANGED <<aged, issued, epoch, client, local, history, bounds>>

\* delete throws when the row is gone.
DeleteSession(r) ==
    /\ pc[r] = "found"
    /\ session' = [session EXCEPT ![carried[r]] = None]
    /\ Goto(r, IF session[carried[r]] # None THEN "deleted" ELSE "refused")
    /\ UNCHANGED <<aged, issued, epoch, client, local, history, bounds>>

GenerateTokens(r) ==
    /\ pc[r] \in {"passed", "deleted"} /\ issued < MaxCalls
    /\ issued' = issued + 1
    /\ session' = [session EXCEPT ![issued'] = User(r)]
    /\ carried' = [carried EXCEPT ![r] = issued']
    /\ born' = [born EXCEPT ![issued'] = seen[r]]
    /\ exchanged' = IF pc[r] = "passed" THEN exchanged
                    ELSE [exchanged EXCEPT ![carried[r]] = @ + 1]
    /\ raced' = IF <<"call", r>> \in raced
                THEN (raced \ {<<"call", r>>}) \cup {<<"token", issued'>>} ELSE raced
    /\ Goto(r, "answered")
    /\ UNCHANGED <<aged, epoch, client, kind, seen, again, gone, signedIn, excused, bounds>>

DeleteSessions(r) ==
    /\ pc[r] = "leaving"
    /\ session' = [k \in Tokens |-> IF k = carried[r] THEN None ELSE session[k]]
    /\ Goto(r, "left")
    /\ UNCHANGED <<aged, issued, epoch, client, local, history, bounds>>

\* Mutant: the sessions stay.
ResetPasswordOnly(u) ==
    /\ epoch[u] < MaxResets
    /\ epoch' = [epoch EXCEPT ![u] = @ + 1]
    /\ excused' = excused \cup {b \in Browsers : UserOf[b] = u}
    /\ UNCHANGED <<session, aged, issued, client, pc, local, exchanged, born, raced, signedIn, bounds>>

\* resetPassword, with the token of a mail: the password and the sessions.
ResetPassword(u) ==
    /\ epoch[u] < MaxResets
    /\ epoch' = [epoch EXCEPT ![u] = @ + 1]
    /\ session' = [k \in Tokens |-> IF session[k] = u THEN None ELSE session[k]]
    /\ raced' = {x \in raced : IF x[1] = "token" THEN session[x[2]] # u ELSE pc[x[2]] \in Looked} \cup
                ({"call"} \X {r \in Requests : User(r) = u /\ pc[r] \in Looked})
    /\ excused' = excused \cup {b \in Browsers : UserOf[b] = u}
    /\ UNCHANGED <<aged, issued, client, pc, local, exchanged, born, signedIn, bounds>>

(***************************************************************************)
(* Time and faults                                                         *)
(***************************************************************************)
AccessExpires(t) ==
    /\ access[t] = "fresh"
    /\ access' = [access EXCEPT ![t] = "stale"]
    /\ UNCHANGED <<server, kept, stored, pc, local, history, bounds>>

KeptExpires(b) ==
    /\ kept[b] = "fresh"
    /\ kept' = [kept EXCEPT ![b] = "stale"]
    /\ UNCHANGED <<server, access, stored, pc, local, history, bounds>>

SessionExpires(k) ==
    /\ session[k] # None /\ k \notin aged
    /\ aged' = aged \cup {k}
    /\ excused' = excused \cup {b \in Browsers : UserOf[b] = session[k]}
    /\ UNCHANGED <<session, issued, epoch, client, pc, local, exchanged, born, raced, signedIn, bounds>>

\* The API process or the network fails: the call ends in an error that is not
\* a 401, whatever the server had done by then.
Break(r) ==
    /\ faults < MaxFaults /\ faults' = faults + 1
    /\ \/ pc[r] \in Refreshing /\ r \in again /\ Goto(r, "refused")
       \/ pc[r] \in {"password", "second", "passed", "answered"} /\ r \notin again /\ Goto(r, "failed")
       \/ pc[r] = "leaving" /\ Goto(r, "left")
    /\ Excuse(Browser(r))
    /\ UNCHANGED <<server, client, local, exchanged, born, raced, signedIn, calls>>

\* /auth/me fails for any reason: refreshUser drops the tokens.
MeFails(t) ==
    /\ faults < MaxFaults /\ faults' = faults + 1
    /\ access[t] = "fresh"
    /\ Clear(t)
    /\ Excuse(BrowserOf[t])
    /\ UNCHANGED <<server, pc, local, exchanged, born, raced, signedIn, calls>>

Serve(r) ==
    \/ ExchangeToken(r) \/ Adopt(r) \/ SignOut(r) \/ Discard(r) \/ LeaveAfterLogout(r)
    \/ CheckPassword(r) \/ VerifyTotp(r) \/ FindSession(r) \/ DeleteSession(r)
    \/ GenerateTokens(r) \/ DeleteSessions(r)

Next ==
    \/ \E r \in Requests :
         Login(r) \/ Send(r) \/ Logout(r) \/ Load(r) \/ Serve(r) \/ Break(r)
    \/ \E u \in Users : ResetPassword(u)
    \/ \E t \in Tabs : AccessExpires(t) \/ MeFails(t)
    \/ \E b \in Browsers : KeptExpires(b)
    \/ \E k \in Tokens : SessionExpires(k)

Spec == Init /\ [][Next]_vars
\* A call goes on until it is answered, and its promise settles.
FairSpec == Spec /\ \A r \in Requests : WF_vars(Serve(r))

----------------------------------------------------------------------------
(***************************************************************************)
(* Properties                                                              *)
(***************************************************************************)
\* The variables hold what columns, storage and memory can hold.
TypeOK ==
    /\ session \in [Tokens -> Users \cup {None}] /\ aged \subseteq Tokens
    /\ issued \in 0..MaxCalls /\ epoch \in [Users -> 0..MaxResets]
    /\ access \in [Tabs -> Access] /\ kept \in [Browsers -> Access]
    /\ stored \in [Browsers -> 0..issued] /\ carried \in [Requests -> 0..issued]
    /\ pc \in [Requests -> Refreshing \cup Looked \cup
                 {"idle", "password", "denied", "refused", "failed", "leaving", "left"}]
    /\ again \subseteq Requests /\ gone \subseteq Requests

\* However many calls present the same refresh token at once, it is exchanged
\* for one session (refreshToken: the delete that throws decides).
OneSessionPerToken == \A k \in Tokens : exchanged[k] <= 1

\* After a reset of the password a session made under the old one exists only
\* if its call was between its check and its insert when the reset committed;
\* the next reset ends that one too.
ResetEndsSessions ==
    \A k \in Tokens :
        session[k] # None /\ born[k] < epoch[session[k]] => <<"token", k>> \in raced

\* A browser that was signed in and has nothing under way holds the token of a
\* live session, unless it logged out, its session was ended or aged, an answer
\* was lost, or two of its calls exchanged the same token.
StaysSignedIn ==
    \A b \in signedIn \ excused :
        InFlight(b) = {} => stored[b] # NoToken /\ session[stored[b]] = UserOf[b]

\* Every call comes to an end: a 401 leads to one exchange and not to a loop.
EveryCallSettles == \A r \in Requests : pc[r] # "idle" ~> pc[r] = "idle"
=============================================================================
