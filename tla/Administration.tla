--------------------------- MODULE Administration ---------------------------
(***************************************************************************)
(* The calls of the catalogue, of the users and of the administrators at   *)
(* the same time, with a reader of their lists, the settings, and the      *)
(* gateways of sockets.                                                    *)
(***************************************************************************)
EXTENDS Catalogue, HelpDesk, Lists, Settings, Gateways

vars == <<tableVars, listVars, settingVars, gatewayVars>>

Init == \E s \in Scenes : InitTables(s) /\ InitLists(s) /\ InitSettings(s) /\ InitGateways(s)

\* VMs come and go with the jobs of VmLifecycle; here, a row.
CreateVm(r) == \E ps \in Choices({"template", "node"}) : Create(r, "vm", ps, 0)
DeleteVm(r) == \E x \in Live("vm") : Delete(r, x)
UpdateVm(r) == \E x \in Live("vm"), w \in Names : Change(r, x, {}, w)
RenameVm(r) == \E x \in Live("vm"), w \in Names : Change(r, x, {}, w)
SetDnsConfig(r) == \E x \in Live("vm") : Change(r, x, {}, 0)
VmRows(r) == At(r, {"vm"}) /\ (Insert(r) \/ Update(r) \/ Remove(r))
VmCalls(r) ==
    CreateVm(r) \/ DeleteVm(r) \/ UpdateVm(r) \/ SetDnsConfig(r) \/ GetVncUrl(r)

\* AdminController: the calls that queue no job.
AdminCalls(r) ==
    \/ UserCalls(r) \/ RoleCalls(r) \/ TicketCalls(r) \/ Broadcast(r)
    \/ NodeCalls(r) \/ TemplateCalls(r) \/ AdminVoucherCalls(r) \/ RenameVm(r)

Handle(r) ==
    \/ AdminCalls(r) \/ PlanCalls(r) \/ Subscribe(r)
    \/ PackageCalls(r) \/ VoucherCalls(r) \/ GenerateCode(r)
    \/ LocationCalls(r) \/ IpPoolCalls(r)
    \/ SupportCalls(r) \/ KnowledgeBaseCalls(r)
    \/ SshKeyCalls(r) \/ ApiKeyCalls(r) \/ SubuserCalls(r)
    \/ NotificationCalls(r) \/ UpsertProfile(r) \/ UpdatePreference(r)
    \/ VmCalls(r)
Store(r) ==
    \/ CategoryRows(r) \/ PlanRows(r) \/ CouponRows(r) \/ SubscriptionRows(r)
    \/ PackageRows(r) \/ VoucherRows(r) \/ AdminVoucherRows(r) \/ ReferralRows(r)
    \/ LocationRows(r) \/ IpPoolRows(r) \/ NodeRows(r) \/ TemplateRows(r)
    \/ UserRows(r) \/ LedgerRows(r) \/ AuditLogRows(r)
    \/ RoleRows(r) \/ UserRoleRows(r) \/ RolePermissionRows(r)
    \/ SupportRows(r) \/ TicketRows(r) \/ TopicRows(r) \/ ArticleRows(r)
    \/ SshKeyRows(r) \/ ApiKeyRows(r) \/ SubuserRows(r)
    \/ NotificationRows(r) \/ ProfileRows(r) \/ PreferenceRows(r) \/ VmRows(r)
    \/ Refused(r)

Next ==
    \/ \E r \in Requests :
          /\ \/ pc[r] = "idle" /\ calls > 0 /\ Handle(r)
             \/ pc[r] = "checked" /\ Store(r)
          /\ Disturb /\ UNCHANGED <<settingVars, gatewayVars>>
    \/ ListsNext /\ UNCHANGED <<tableVars, settingVars, gatewayVars>>
    \/ SettingsNext /\ UNCHANGED <<tableVars, listVars, gatewayVars>>
    \/ GatewaysNext /\ UNCHANGED <<tableVars, listVars, settingVars>>

Spec == Init /\ [][Next]_vars

(***************************************************************************)
(* Properties                                                              *)
(***************************************************************************)
\* Whatever overlaps, no reference dangles, no row lacks one it cannot be
\* without, and a deletion that counted what refers to the row (a category, a
\* location, a pool of addresses) cuts no reference that was there to count.
ReferencesHold ==
    /\ \A e \in link : e[1] \in live /\ e[2] \in live
    /\ \A x \in live : \A t \in Required : t[1] = tableOf[x] =>
          \E p \in Targets(x, link) : tableOf[p] = t[2]
    /\ \A e \in torn : tableOf[e[2]] \notin {"category", "location", "ipPool"}

\* No two rows have the same unique name, or are the one row of the same rows.
\* The name of a category has no unique index: two share one only if neither
\* was there when the other's was looked up, or an update gave it.
NamesDistinct ==
    \A x, y \in live : x # y /\ tableOf[x] = tableOf[y] =>
        /\ tableOf[x] \in Unique /\ name[x] # 0 => name[x] # name[y]
        /\ tableOf[x] \in OneFor => Targets(x, link) # Targets(y, link)
        /\ tableOf[x] = "category" /\ name[x] = name[y] =>
              y \in renamed \/ x \notin knew[y] \/ x \in renamed

\* The rows satisfy what the schema and the checks of the handlers promise,
\* whichever calls overlap.
RowsConsistent == ReferencesHold /\ NamesDistinct

\* What was closed, voided, read or deleted softly stays so, unless a call is
\* made to undo it, or a reply to a ticket that was open when it was looked up.
StaysOff ==
    [][\A x \in live \cap live' : x \in off /\ x \notin off' =>
          \E r \in Requests :
             /\ pc[r] = "checked" /\ pc'[r] = "idle"
             /\ \/ op[r] = "open" /\ x \in items[r]
                \/ op[r] = "reply" /\ x \notin sawOff[r]]_vars
=============================================================================
