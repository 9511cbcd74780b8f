------------------------------ MODULE Accounts ------------------------------
(***************************************************************************)
(* Accounts: AuthService (register, verifyEmail, forgotPassword,           *)
(* resetPassword), PasskeysService, OAuthService and the administrator's   *)
(* operations on accounts and roles.                                       *)
(*                                                                         *)
(* What they share is the secret that works once.  A user's row has one    *)
(* column for the link of a mail, be it to verify the address or to reset  *)
(* the password, and one for the challenge of a passkey, be it to register *)
(* or to sign in; an OAuth code has a row of its own.  Every handler reads *)
(* the secret in one statement and spends it in a later one, and nothing   *)
(* holds the row in between.  Secrets are numbered in the order of issue.  *)
(***************************************************************************)
EXTENDS Naturals, FiniteSets

CONSTANTS People,    \* the ids of users
          Clients,   \* the ids of OAuth clients
          Handlers,  \* the calls that run concurrently
          MaxSecrets, MaxRoles, MaxCalls, MaxFaults, \* bounds of the exploration
          None

ASSUME AccountsAssumption ==
    /\ MaxSecrets \in Nat /\ MaxRoles \in Nat \ {0}
    /\ MaxCalls \in Nat /\ MaxFaults \in Nat
    /\ None \notin People \cup Clients

Secrets == 1..MaxSecrets
Roles == 1..MaxRoles
Slots == {"mail", "challenge"}
Kinds == {"verify", "reset", "create", "get", "code"}
NoSecret == 0
NoRole == 0

VARIABLES
    account,    \* a user's row
    roleName,   \* the rows of Role
    holds,      \* the rows of UserRole
    column,     \* emailVerifyToken and currentChallenge
    passkeys,   \* credentials, each known by the challenge it was made for
    client,     \* the rows of OAuthClient
    codes, used, aged, \* OAuth codes: rows, marked, past expiresAt
    issued,     \* how many secrets were made
    kind, owner, \* of a secret
    delivered,  \* secrets that reached their user
    stage, who, secret, role, first, key, \* calls: how far, user or client, locals
    uses,       \* history: answers that said the secret was good
    overlapped, \*   secrets two calls had accepted before either spent them
    latest,     \*   the last secret to reach a user
    excused,    \*   users whose last secret was lost in a race or a failure
    removed,    \*   an administrator took or renamed the role
    calls, faults

identity == <<account, roleName, holds>>
oauth == <<client, codes, used, aged>>
secrets == <<issued, kind, owner, delivered>>
local == <<who, secret, role, first, key>>
history == <<uses, overlapped, latest, excused, removed>>
bounds == <<calls, faults>>
accVars == <<identity, column, passkeys, oauth, secrets, stage, local, history, bounds>>

AccInit ==
    /\ account = [u \in People |-> "none"]
    /\ roleName = [n \in Roles |-> "none"] /\ holds = {}
    /\ column = [s \in Slots |-> [u \in People |-> NoSecret]]
    /\ passkeys = {}
    /\ client = [c \in Clients |-> "none"]
    /\ codes = {} /\ used = {} /\ aged = {}
    /\ issued = 0
    /\ kind = [s \in Secrets |-> "code"] /\ owner = [s \in Secrets |-> None]
    /\ delivered = {}
    /\ stage = [r \in Handlers |-> "idle"] /\ who = [r \in Handlers |-> None]
    /\ secret = [r \in Handlers |-> NoSecret] /\ role = [r \in Handlers |-> NoRole]
    /\ first = [r \in Handlers |-> FALSE] /\ key = [r \in Handlers |-> NoSecret]
    /\ uses = [s \in Secrets |-> 0] /\ overlapped = {}
    /\ latest = [s \in Slots |-> [u \in People |-> NoSecret]]
    /\ excused = {} /\ removed = FALSE
    /\ calls = 0 /\ faults = 0

Accounts == {u \in People : account[u] # "none"}
Admins == {u \in People : \E n \in Roles : roleName[n] = "admin" /\ <<u, n>> \in holds}

Reach(r, phase) == stage' = [stage EXCEPT ![r] = phase]
\* The locals of a call that has ended are nobody's.
Finish(r) ==
    /\ Reach(r, "idle")
    /\ who' = [who EXCEPT ![r] = None]
    /\ secret' = [secret EXCEPT ![r] = NoSecret] /\ key' = [key EXCEPT ![r] = NoSecret]
    /\ role' = [role EXCEPT ![r] = NoRole] /\ first' = [first EXCEPT ![r] = FALSE]

Start(r, x, phase) ==
    /\ stage[r] = "idle" /\ calls < MaxCalls
    /\ calls' = calls + 1
    /\ who' = [who EXCEPT ![r] = x]
    /\ Reach(r, phase)

\* randomBytes: a secret nobody has.
Make(k, x) ==
    /\ issued < MaxSecrets
    /\ issued' = issued + 1
    /\ kind' = [kind EXCEPT ![issued'] = k]
    /\ owner' = [owner EXCEPT ![issued'] = x]

\* A secret reaches its user; the column may hold another one by then.
Deliver(slot, u, s) ==
    /\ delivered' = delivered \cup {s}
    /\ latest' = [latest EXCEPT ![slot][u] = s]
    /\ excused' = IF column'[slot][u] = s THEN excused \ {<<slot, u>>}
                  ELSE excused \cup {<<slot, u>>}

(***************************************************************************)
(* register                                                                *)
(***************************************************************************)
\* The address is looked up; one that is taken is refused.
Register(r, u) ==
    /\ account[u] = "none"
    /\ Start(r, u, "registering")
    /\ UNCHANGED <<identity, column, passkeys, oauth, secrets, secret, role, first, key, history,
                   faults>>

\* The role named admin is made when there is none.
UpsertRole(r) ==
    /\ stage[r] = "registering"
    /\ \E n \in Roles :
         /\ IF \E m \in Roles : roleName[m] = "admin" THEN roleName[n] = "admin"
            ELSE roleName[n] = "none" /\ \A m \in 1..(n - 1) : roleName[m] # "none"
         /\ roleName' = [roleName EXCEPT ![n] = "admin"]
         /\ role' = [role EXCEPT ![r] = n]
    /\ Reach(r, "counting")
    /\ UNCHANGED <<account, holds, column, passkeys, oauth, secrets, who, secret, first, key,
                   history, bounds>>

\* Mutant: a registration under way counts as a user.
CountClaims(r) ==
    /\ stage[r] = "counting"
    /\ first' = [first EXCEPT ![r] = Accounts = {} /\ \A q \in Handlers : stage[q] # "creating"]
    /\ Reach(r, "creating")
    /\ UNCHANGED <<identity, column, passkeys, oauth, secrets, who, secret, role, key, history,
                   bounds>>

\* The transaction counts the users that are committed.
CountUsers(r) ==
    /\ stage[r] = "counting"
    /\ first' = [first EXCEPT ![r] = Accounts = {}]
    /\ Reach(r, "creating")
    /\ UNCHANGED <<identity, column, passkeys, oauth, secrets, who, secret, role, key, history,
                   bounds>>

\* It inserts the user and the roles, and commits: a unique address, or none.
CreateUser(r) ==
    /\ stage[r] = "creating"
    /\ IF account[who[r]] # "none" THEN Finish(r) /\ UNCHANGED identity
       ELSE /\ account' = [account EXCEPT ![who[r]] = IF first[r] THEN "verified" ELSE "unverified"]
            /\ holds' = IF first[r] THEN holds \cup {<<who[r], role[r]>>} ELSE holds
            /\ Reach(r, "created")
            /\ UNCHANGED <<roleName, local>>
    /\ UNCHANGED <<column, passkeys, oauth, secrets, history, bounds>>

\* After the commit: the first user is verified, the others get a link.
StoreVerifyToken(r) ==
    /\ stage[r] = "created"
    /\ IF first[r]
       THEN /\ account' = [account EXCEPT ![who[r]] = "verified"]
            /\ Finish(r)
            /\ UNCHANGED <<column, secrets>>
       ELSE /\ Make("verify", who[r])
            /\ column' = [column EXCEPT !["mail"][who[r]] = issued']
            /\ secret' = [secret EXCEPT ![r] = issued']
            /\ Reach(r, "mailing")
            /\ UNCHANGED <<account, delivered, who, role, first, key>>
    /\ UNCHANGED <<roleName, holds, passkeys, oauth, history, bounds>>

(***************************************************************************)
(* forgotPassword and the mails                                            *)
(***************************************************************************)
ForgotPassword(r, u) ==
    /\ account[u] # "none"
    /\ Start(r, u, "forgotten")
    /\ UNCHANGED <<identity, column, passkeys, oauth, secrets, secret, role, first, key, history,
                   faults>>

\* The link of a reset takes the column of the link that verifies.
StoreResetToken(r) ==
    /\ stage[r] = "forgotten"
    /\ Make("reset", who[r])
    /\ column' = [column EXCEPT !["mail"][who[r]] = issued']
    /\ secret' = [secret EXCEPT ![r] = issued']
    /\ Reach(r, "mailing")
    /\ UNCHANGED <<identity, passkeys, oauth, delivered, who, role, first, key, history, bounds>>

Mail(r) ==
    /\ stage[r] = "mailing"
    /\ UNCHANGED column
    /\ Deliver("mail", who[r], secret[r])
    /\ Finish(r)
    /\ UNCHANGED <<identity, passkeys, oauth, issued, kind, owner, uses, overlapped, removed,
                   bounds>>

(***************************************************************************)
(* Challenges of passkeys and OAuth codes                                  *)
(***************************************************************************)
\* generateRegistrationOptions of a user who is signed in, and
\* generateAuthenticationOptions for an address.
GenerateOptions(u, k) ==
    /\ calls < MaxCalls /\ calls' = calls + 1
    /\ k = "create" => account[u] = "verified"
    /\ account[u] # "none"
    /\ Make(k, u)
    /\ column' = [column EXCEPT !["challenge"][u] = issued']
    /\ Deliver("challenge", u, issued')
    /\ UNCHANGED <<identity, passkeys, oauth, stage, local, uses, overlapped, removed, faults>>

DeletePasskey(s) ==
    /\ s \in passkeys
    /\ calls < MaxCalls /\ calls' = calls + 1
    /\ passkeys' = passkeys \ {s}
    /\ UNCHANGED <<identity, column, oauth, secrets, stage, local, history, faults>>

RegisterClient(c) ==
    /\ client[c] = "none" /\ \E u \in People : account[u] = "verified"
    /\ client' = [client EXCEPT ![c] = "live"]
    /\ UNCHANGED <<identity, column, passkeys, codes, used, aged, secrets, stage, local, history,
                   bounds>>

\* approveConsent reads the client, then inserts the code: its foreign key
\* refuses a client that has gone.
ApproveConsent(r, c) ==
    /\ client[c] = "live"
    /\ Start(r, c, "approving")
    /\ UNCHANGED <<identity, column, passkeys, oauth, secrets, secret, role, first, key, history,
                   faults>>

CreateCode(r) ==
    /\ stage[r] = "approving"
    /\ IF client[who[r]] = "live"
       THEN /\ Make("code", who[r])
            /\ codes' = codes \cup {issued'} /\ delivered' = delivered \cup {issued'}
       ELSE UNCHANGED <<codes, secrets>>
    /\ Finish(r)
    /\ UNCHANGED <<identity, column, passkeys, client, used, aged, history, bounds>>

DeleteClient(r, c) ==
    /\ client[c] = "live"
    /\ Start(r, c, "withdrawing")
    /\ UNCHANGED <<identity, column, passkeys, oauth, secrets, secret, role, first, key, history,
                   faults>>

CodesOf(c) == {s \in codes : owner[s] = c}

DeleteCodes(r) ==
    /\ stage[r] = "withdrawing"
    /\ codes' = codes \ CodesOf(who[r])
    /\ Reach(r, "withdrawn")
    /\ UNCHANGED <<identity, column, passkeys, client, used, aged, secrets, local, history, bounds>>

\* A client that has got a new code cannot be deleted.
DeleteClientRow(r) ==
    /\ stage[r] = "withdrawn"
    /\ client' = IF CodesOf(who[r]) = {} THEN [client EXCEPT ![who[r]] = "gone"] ELSE client
    /\ Finish(r)
    /\ UNCHANGED <<identity, column, passkeys, codes, used, aged, secrets, history, bounds>>

(***************************************************************************)
(* A secret is presented and spent                                         *)
(***************************************************************************)
\* What the handler reads says that the secret is good.
Accepts(s) ==
    CASE kind[s] = "verify" -> column["mail"][owner[s]] = s /\ account[owner[s]] = "unverified"
      [] kind[s] = "reset" -> column["mail"][owner[s]] = s
      [] kind[s] = "create" -> column["challenge"][owner[s]] = s /\ s \notin passkeys
      [] kind[s] = "get" -> column["challenge"][owner[s]] = s
      [] kind[s] = "code" -> s \in codes \ (used \cup aged) /\ client[owner[s]] = "live"

\* verifyEmail, resetPassword, verifyRegistration, verifyAuthentication (with
\* one of the user's passkeys) and token, up to the transaction.
Present(r, s, p) ==
    /\ s \in delivered /\ Accepts(s)
    /\ IF kind[s] = "get" THEN p \in passkeys /\ owner[p] = owner[s] ELSE p = NoSecret
    /\ Start(r, owner[s], "accepted")
    /\ secret' = [secret EXCEPT ![r] = s] /\ key' = [key EXCEPT ![r] = p]
    /\ overlapped' = IF \E q \in Handlers : stage[q] # "idle" /\ secret[q] = s
                     THEN overlapped \cup {s} ELSE overlapped
    /\ UNCHANGED <<identity, column, passkeys, oauth, secrets, role, first, uses, latest, excused,
                   removed, faults>>

Answer(r) == uses' = [uses EXCEPT ![secret[r]] = @ + 1] /\ Finish(r)

\* The column is emptied whatever it holds by now.
Empty(r, slot) ==
    /\ column' = [column EXCEPT ![slot][who[r]] = NoSecret]
    /\ excused' = IF column[slot][who[r]] = secret[r] THEN excused
                  ELSE excused \cup {<<slot, who[r]>>}

VerifyEmail(r) ==
    /\ stage[r] = "accepted" /\ kind[secret[r]] = "verify"
    /\ account' = [account EXCEPT ![who[r]] = "verified"]
    /\ Empty(r, "mail")
    /\ Answer(r)
    /\ UNCHANGED <<roleName, holds, passkeys, oauth, secrets, overlapped, latest, removed, bounds>>

\* Mutant: the challenge of a passkey goes as well.
ResetBoth(r) ==
    /\ stage[r] = "accepted" /\ kind[secret[r]] = "reset"
    /\ column' = [s \in Slots |-> [column[s] EXCEPT ![who[r]] = NoSecret]]
    /\ Answer(r)
    /\ UNCHANGED <<identity, passkeys, oauth, secrets, overlapped, latest, excused, removed,
                   bounds>>

\* Mutant: the link of a reset stays in its column.
ResetKeepingLink(r) ==
    /\ stage[r] = "accepted" /\ kind[secret[r]] = "reset"
    /\ Answer(r)
    /\ UNCHANGED <<identity, column, passkeys, oauth, secrets, overlapped, latest, excused,
                   removed, bounds>>

ResetPassword(r) ==
    /\ stage[r] = "accepted" /\ kind[secret[r]] = "reset"
    /\ Empty(r, "mail")
    /\ Answer(r)
    /\ UNCHANGED <<identity, passkeys, oauth, secrets, overlapped, latest, removed, bounds>>

\* The statements on passkeys commit one by one: the insert of a credential
\* that is there throws, and so does the counter of one that has gone.
StorePasskey(r) ==
    /\ stage[r] = "accepted" /\ kind[secret[r]] = "create"
    /\ passkeys' = passkeys \cup {secret[r]}
    /\ IF secret[r] \in passkeys THEN Finish(r) ELSE Reach(r, "stored") /\ UNCHANGED local
    /\ UNCHANGED <<identity, column, oauth, secrets, history, bounds>>

UpdateCounter(r) ==
    /\ stage[r] = "accepted" /\ kind[secret[r]] = "get"
    /\ IF key[r] \in passkeys THEN Reach(r, "stored") /\ UNCHANGED local ELSE Finish(r)
    /\ UNCHANGED <<identity, column, passkeys, oauth, secrets, history, bounds>>

ClearChallenge(r) ==
    /\ stage[r] = "stored"
    /\ Empty(r, "challenge")
    /\ Answer(r)
    /\ UNCHANGED <<identity, passkeys, oauth, secrets, overlapped, latest, removed, bounds>>

\* A code whose row has gone cannot be marked.
MarkCodeUsed(r) ==
    /\ stage[r] = "accepted" /\ kind[secret[r]] = "code"
    /\ IF secret[r] \in codes THEN used' = used \cup {secret[r]} /\ Answer(r)
       ELSE Finish(r) /\ UNCHANGED <<used, uses>>
    /\ UNCHANGED <<identity, column, passkeys, client, codes, aged, secrets,
                   overlapped, latest, excused, removed, bounds>>

CodeExpires(s) ==
    /\ s \in codes \ aged
    /\ aged' = aged \cup {s}
    /\ UNCHANGED <<identity, column, passkeys, client, codes, used, secrets, stage, local,
                   history, bounds>>

(***************************************************************************)
(* The administrator                                                       *)
(***************************************************************************)
\* updateUser sets emailVerified to what it is told.
UpdateUser(u) ==
    /\ Admins # {} /\ account[u] # "none"
    /\ calls < MaxCalls /\ calls' = calls + 1
    /\ \E state \in {"verified", "unverified"} : account' = [account EXCEPT ![u] = state]
    /\ UNCHANGED <<roleName, holds, column, passkeys, oauth, secrets, stage, local, history,
                   faults>>

\* assignRole, removeRole and updateRole for the role named admin.
AssignRole(u) ==
    /\ Admins # {} /\ account[u] # "none" /\ u \notin Admins
    /\ calls < MaxCalls /\ calls' = calls + 1
    /\ holds' = holds \cup {<<u, n>> : n \in {m \in Roles : roleName[m] = "admin"}}
    /\ UNCHANGED <<account, roleName, column, passkeys, oauth, secrets, stage, local, history,
                   faults>>

RemoveRole(u) ==
    /\ u \in Admins
    /\ calls < MaxCalls /\ calls' = calls + 1
    /\ holds' = {h \in holds : h[1] # u \/ roleName[h[2]] # "admin"}
    /\ removed' = TRUE
    /\ UNCHANGED <<account, roleName, column, passkeys, oauth, secrets, stage, local,
                   uses, overlapped, latest, excused, faults>>

UpdateRole(n) ==
    /\ Admins # {} /\ roleName[n] = "admin"
    /\ calls < MaxCalls /\ calls' = calls + 1
    /\ roleName' = [roleName EXCEPT ![n] = "other"]
    /\ removed' = TRUE
    /\ UNCHANGED <<account, holds, column, passkeys, oauth, secrets, stage, local,
                   uses, overlapped, latest, excused, faults>>

(***************************************************************************)
(* A statement, the mail or the process fails                              *)
(***************************************************************************)
Break(r) ==
    /\ stage[r] # "idle"
    /\ faults < MaxFaults /\ faults' = faults + 1
    /\ excused' = IF stage[r] = "mailing" THEN excused \cup {<<"mail", who[r]>>} ELSE excused
    /\ Finish(r)
    /\ UNCHANGED <<identity, column, passkeys, oauth, secrets, uses, overlapped, latest, removed,
                   calls>>

Handle(r) ==
    \/ UpsertRole(r) \/ CountUsers(r) \/ CreateUser(r) \/ StoreVerifyToken(r)
    \/ StoreResetToken(r) \/ Mail(r)
    \/ CreateCode(r) \/ DeleteCodes(r) \/ DeleteClientRow(r)
    \/ VerifyEmail(r) \/ ResetPassword(r) \/ StorePasskey(r) \/ UpdateCounter(r)
    \/ ClearChallenge(r) \/ MarkCodeUsed(r)

AccNext ==
    \/ \E r \in Handlers : Handle(r) \/ Break(r)
    \/ \E r \in Handlers, u \in People : Register(r, u) \/ ForgotPassword(r, u)
    \/ \E r \in Handlers, c \in Clients : ApproveConsent(r, c) \/ DeleteClient(r, c)
    \/ \E r \in Handlers, s \in Secrets, p \in Secrets \cup {NoSecret} : Present(r, s, p)
    \/ \E u \in People, k \in {"create", "get"} : GenerateOptions(u, k)
    \/ \E u \in People : UpdateUser(u) \/ AssignRole(u) \/ RemoveRole(u)
    \/ \E s \in Secrets : DeletePasskey(s) \/ CodeExpires(s)
    \/ \E c \in Clients : RegisterClient(c)
    \/ \E n \in Roles : UpdateRole(n)

AccSpec == AccInit /\ [][AccNext]_accVars

----------------------------------------------------------------------------
(***************************************************************************)
(* Properties                                                              *)
(***************************************************************************)
\* The variables hold what the columns can hold.
AccTypeOK ==
    /\ account \in [People -> {"none", "unverified", "verified"}]
    /\ roleName \in [Roles -> {"none", "admin", "other"}] /\ holds \subseteq People \X Roles
    /\ column \in [Slots -> [People -> 0..issued]] /\ passkeys \subseteq 1..issued
    /\ client \in [Clients -> {"none", "live", "gone"}]
    /\ codes \subseteq 1..issued /\ used \subseteq 1..issued /\ aged \subseteq 1..issued
    /\ issued \in 0..MaxSecrets /\ delivered \subseteq 1..issued
    /\ kind \in [Secrets -> Kinds] /\ owner \in [Secrets -> People \cup Clients \cup {None}]
    /\ who \in [Handlers -> People \cup Clients \cup {None}] /\ secret \in [Handlers -> 0..issued]

\* Whoever registers first, at the same time as whom, and whatever fails on the
\* way: when there are accounts one of them is an administrator's, unless an
\* administrator took the role from someone or renamed it.
AdminExists == Accounts # {} /\ ~removed => Admins # {}

\* A link, a challenge or a code is good once; only calls that had all read it
\* before one of them spent it may succeed together.
SecretsUsedOnce == \A s \in Secrets : uses[s] <= 1 \/ s \in overlapped

\* The last link, or challenge, that reached a user works until it is used,
\* unless a mail was lost or two calls of that user crossed: the two kinds that
\* share a column replace each other and never take each other away.
LastSecretWorks ==
    \A slot \in Slots, u \in People :
        \/ latest[slot][u] = NoSecret \/ <<slot, u>> \in excused
        \/ \E r \in Handlers : who[r] = u
        \/ uses[latest[slot][u]] > 0
        \/ column[slot][u] = latest[slot][u]
=============================================================================
