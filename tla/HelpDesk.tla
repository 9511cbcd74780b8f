------------------------------ MODULE HelpDesk ------------------------------
(***************************************************************************)
(* Users and what is theirs: roles, keys, subusers, notifications, tickets *)
(* and the knowledge base.  The rows are those of Tables.                  *)
(***************************************************************************)
EXTENDS Tables

(***************************************************************************)
(* AdminService: users and roles                                           *)
(***************************************************************************)
UpdateUser(r) == \E x \in Live("user") : Switch(r, x)
DeactivateUser(r) == \E x \in Live("user") : Close(r, x)
ActivateUser(r) == \E x \in Live("user") : Open(r, x)
\* The wallet's side of the first is in Wallet.  The other two leave an audit
\* row and nothing else; those of all other calls are left out.
CreditUserWallet(r) == Live("user") # {} /\ Create(r, "transaction", {}, 0)
ImpersonateUser(r) == Live("user") # {} /\ Create(r, "auditLog", {}, 0)
GetVncUrl(r) == Live("vm") # {} /\ Create(r, "auditLog", {}, 0)
UserCalls(r) ==
    \/ UpdateUser(r) \/ DeactivateUser(r) \/ ActivateUser(r)
    \/ CreditUserWallet(r) \/ ImpersonateUser(r)
UserRows(r) == At(r, {"user"}) /\ (SetOff(r) \/ SetOn(r))
LedgerRows(r) == At(r, {"transaction"}) /\ Insert(r)
AuditLogRows(r) == At(r, {"auditLog"}) /\ Insert(r)

CreateRole(r) == \E w \in Names : ~Taken("role", w) /\ Create(r, "role", {}, w)
UpdateRole(r) ==
    \E x \in Live("role"), w \in Names : (w # name[x] => ~Taken("role", w)) /\ Change(r, x, {}, w)
\* The role named admin, here the first of the names, is kept; no one looks at
\* who has the role and what it permits.
AdminName == CHOOSE w \in Names : \A v \in Names : w <= v
DeleteRole(r) == \E x \in Live("role") : name[x] # AdminName /\ Delete(r, x)
AssignRole(r) ==
    \E u \in Live("user"), x \in Live("role") : Create(r, "userRole", {u, x}, 0)
AddRolePermission(r) ==
    \E x \in Live("role"), p \in Live("permission") : Create(r, "grant", {x, p}, 0)
RemoveRolePermission(r) == \E x \in Live("grant") : Delete(r, x)
RoleCalls(r) ==
    \/ CreateRole(r) \/ UpdateRole(r) \/ DeleteRole(r)
    \/ AssignRole(r) \/ AddRolePermission(r) \/ RemoveRolePermission(r)
RoleRows(r) == At(r, {"role"}) /\ (Insert(r) \/ Update(r) \/ Remove(r))
UserRoleRows(r) == At(r, {"userRole"}) /\ Insert(r)
RolePermissionRows(r) == At(r, {"grant"}) /\ (Insert(r) \/ Remove(r))

(***************************************************************************)
(* Tickets: SupportService for their users, AdminService for the staff     *)
(***************************************************************************)
CreateTicket(r) == Create(r, "ticket", {}, 0)

Answer(r, x) == \E m \in NextNew("message") : Begin(r, "reply", {m}, {<<m, x>>}, 0)
\* Mutant: a closed ticket takes replies.
ReplyAnyway(r) == \E x \in Live("ticket") : Answer(r, x)
Reply(r) == \E x \in Live("ticket") \ off : Answer(r, x)
AddAttachment(r) == \E x \in Live("message") : Create(r, "attachment", {x}, 0)
SupportCalls(r) == CreateTicket(r) \/ Reply(r) \/ AddAttachment(r)
\* The ticket is opened, whatever it is by now.
InsertReply(r) == Write(r, "reply") /\ Add(r) /\ off' = off \ Parents(r)
SupportRows(r) ==
    At(r, {"ticket", "message", "attachment"}) /\ (Insert(r) \/ InsertReply(r))

AdminReplyTicket(r) == \E x \in Live("ticket") \ off : Answer(r, x)
AdminCloseTicket(r) == \E x \in Live("ticket") \ off : Close(r, x)
AdminReopenTicket(r) == \E x \in Live("ticket") \cap off : Open(r, x)
TicketCalls(r) == AdminReplyTicket(r) \/ AdminCloseTicket(r) \/ AdminReopenTicket(r)
TicketRows(r) == At(r, {"ticket", "message"}) /\ (InsertReply(r) \/ SetOff(r) \/ SetOn(r))

(***************************************************************************)
(* KnowledgeBaseService: topics are its categories; nothing is looked up   *)
(* but an article that is changed.                                         *)
(***************************************************************************)
CreateTopic(r) == \E w \in Names : Create(r, "topic", {}, w)
UpdateTopic(r) == \E x \in Live("topic"), w \in Names : Change(r, x, {}, w)
DeleteTopic(r) == \E x \in Live("topic") : Delete(r, x)
CreateArticle(r) == \E c \in Live("topic"), w \in Names : Create(r, "article", {c}, w)
UpdateArticle(r) ==
    \E x \in Live("article"), c \in Choices({"topic"}), w \in Names \cup {0} : Change(r, x, c, w)
DeleteArticle(r) == \E x \in Live("article") : Delete(r, x)
Vote(r) == \E x \in Live("article") : Change(r, x, {}, 0)
TopicRows(r) == At(r, {"topic"}) /\ (Insert(r) \/ Update(r) \/ Remove(r))
ArticleRows(r) == At(r, {"article"}) /\ (Insert(r) \/ Update(r) \/ Remove(r))
KnowledgeBaseCalls(r) ==
    \/ CreateTopic(r) \/ UpdateTopic(r) \/ DeleteTopic(r)
    \/ CreateArticle(r) \/ UpdateArticle(r) \/ DeleteArticle(r) \/ Vote(r)

(***************************************************************************)
(* SSH keys, which are deleted softly; API keys                            *)
(***************************************************************************)
CreateSshKey(r) == \E u \in Live("user") : Create(r, "sshKey", {u}, 0)
DeleteSshKey(r) == \E x \in Live("sshKey") : Close(r, x)
RestoreSshKey(r) == \E x \in Live("sshKey") \cap off : Open(r, x)
HardDeleteSshKey(r) == \E x \in Live("sshKey") : Delete(r, x)
SshKeyCalls(r) ==
    CreateSshKey(r) \/ DeleteSshKey(r) \/ RestoreSshKey(r) \/ HardDeleteSshKey(r)
SshKeyRows(r) ==
    At(r, {"sshKey"}) /\ (Insert(r) \/ SetOff(r) \/ SetOn(r) \/ Remove(r))

CreateApiKey(r) == \E u \in Live("user") : Create(r, "apiKey", {u}, 0)
UpdateApiKey(r) == \E x \in Live("apiKey") : Change(r, x, {}, 0)
DeleteApiKey(r) == \E x \in Live("apiKey") : Delete(r, x)
\* It writes lastUsedAt, and fails when the key is deleted in between.
Authenticate(r) == \E x \in Live("apiKey") : Change(r, x, {}, 0)
ApiKeyCalls(r) == CreateApiKey(r) \/ UpdateApiKey(r) \/ DeleteApiKey(r) \/ Authenticate(r)
ApiKeyRows(r) == At(r, {"apiKey"}) /\ (Insert(r) \/ Update(r) \/ Remove(r))

(***************************************************************************)
(* Subusers of a VM                                                        *)
(***************************************************************************)
AddSubuser(r) ==
    \E v \in Live("vm"), u \in Live("user") :
        /\ \A x \in Live("subuser") : Targets(x, link) # {v, u}
        /\ Create(r, "subuser", {v, u}, 0)
UpdatePermissions(r) == \E x \in Live("subuser") : Change(r, x, {}, 0)
RemoveSubuser(r) == \E x \in Live("subuser") : Delete(r, x)
SubuserCalls(r) == AddSubuser(r) \/ UpdatePermissions(r) \/ RemoveSubuser(r)
SubuserRows(r) == At(r, {"subuser"}) /\ (Insert(r) \/ Update(r) \/ Remove(r))

(***************************************************************************)
(* Notifications, preferences and billing profiles                         *)
(***************************************************************************)
CreateNotification(r) == \E u \in Live("user") : Create(r, "notification", {u}, 0)
MarkRead(r) == \E x \in Live("notification") : Close(r, x)
\* One statement: those that are there.
MarkAllRead(r) == Begin(r, "close", Live("notification"), {}, 0)
\* To one user, or to those there are.
Broadcast(r) ==
    \E us \in {Live("user")} \cup {{u} : u \in Live("user")} :
        \E xs \in SUBSET New("notification"), f \in [us -> New("notification")] :
            /\ Cardinality(xs) = Cardinality(us) /\ xs = {f[u] : u \in us}
            /\ us # {} /\ Begin(r, "create", xs, {<<f[u], u>> : u \in us}, 0)
NotificationCalls(r) == CreateNotification(r) \/ MarkRead(r) \/ MarkAllRead(r)
NotificationRows(r) == At(r, {"notification"}) /\ (Insert(r) \/ SetOff(r))

\* Upserts: the row is created when its user has none; else the fields change.
UpsertProfile(r) == \E u \in Live("user") : Create(r, "profile", {u}, 0)
ProfileRows(r) == At(r, {"profile"}) /\ Insert(r)
UpdatePreference(r) == \E u \in Live("user") : Create(r, "preference", {u}, 0)
PreferenceRows(r) == At(r, {"preference"}) /\ Insert(r)
=============================================================================
