----------------------------- MODULE Catalogue -----------------------------
(***************************************************************************)
(* What is for sale and what it runs on: plans, their categories and       *)
(* coupons, resource packages, vouchers, referral codes, locations, nodes, *)
(* templates and pools of addresses.  An action is what a handler checks   *)
(* before its transaction; a handler that refuses changes nothing.         *)
(***************************************************************************)
EXTENDS Tables

Given == Names \cup {0}   \* a field that may be left out

(***************************************************************************)
(* PlansService                                                            *)
(***************************************************************************)
CreateCategory(r) ==
    \E w \in Names : ~Taken("category", w) /\ Create(r, "category", {}, w)
UpdateCategory(r) == \E x \in Live("category"), w \in Given : Change(r, x, {}, w)
\* Mutant: its plans are not counted.
DeleteCategoryAnyway(r) == \E x \in Live("category") : Delete(r, x)
DeleteCategory(r) == \E x \in Live("category") : Children(x) = {} /\ Delete(r, x)

CreatePlan(r) == \E ps \in Choices({"category", "template"}) : Create(r, "plan", ps, 0)
UpdatePlan(r) ==
    \E x \in Live("plan"), ps \in Choices({"category", "template"}) : Change(r, x, ps, 0)
DeletePlan(r) == \E x \in Live("plan") : Delete(r, x)

CreateCoupon(r) ==
    \E p \in Live("plan"), w \in Names : ~Taken("coupon", w) /\ Create(r, "coupon", {p}, w)
UpdateCoupon(r) == \E x \in Live("coupon"), w \in Given : Change(r, x, {}, w)
DeleteCoupon(r) == \E x \in Live("coupon") : Delete(r, x)

PlanCalls(r) ==
    \/ CreateCategory(r) \/ UpdateCategory(r) \/ DeleteCategory(r)
    \/ CreatePlan(r) \/ UpdatePlan(r) \/ DeletePlan(r)
    \/ CreateCoupon(r) \/ UpdateCoupon(r) \/ DeleteCoupon(r)
CategoryRows(r) == At(r, {"category"}) /\ (Insert(r) \/ Update(r) \/ Remove(r))
PlanRows(r) == At(r, {"plan"}) /\ (Insert(r) \/ Update(r) \/ Remove(r))
CouponRows(r) == At(r, {"coupon"}) /\ (Insert(r) \/ Update(r) \/ Remove(r))

\* A subscription to a plan, with or without a coupon of the plan; the other
\* things that subscribing does are in Subscriptions.
Subscribe(r) ==
    \E p \in Live("plan"), c \in SUBSET Live("coupon") :
        /\ Cardinality(c) <= 1 /\ \A k \in c : <<k, p>> \in link
        /\ Create(r, "subscription", {p} \cup c, 0)
SubscriptionRows(r) == At(r, {"subscription"}) /\ Insert(r)

(***************************************************************************)
(* ResourcePackagesService, VoucherService, ReferralsService               *)
(***************************************************************************)
CreatePackage(r) == Create(r, "package", {}, 0)
UpdatePackage(r) == \E x \in Live("package") : Switch(r, x)
\* The check looks for purchases by the user whose id is the package's: there
\* are none, and it is the foreign key that keeps the purchases.
DeletePackage(r) == \E x \in Live("package") : Delete(r, x)
PackageCalls(r) == CreatePackage(r) \/ UpdatePackage(r) \/ DeletePackage(r)
PackageRows(r) ==
    At(r, {"package"}) /\ (Insert(r) \/ SetOff(r) \/ SetOn(r) \/ Remove(r))

CreateVoucher(r) == \E w \in Names : ~Taken("voucher", w) /\ Create(r, "voucher", {}, w)
DeactivateVoucher(r) == \E x \in Live("voucher") : Close(r, x)
VoucherCalls(r) == CreateVoucher(r) \/ DeactivateVoucher(r)
VoucherRows(r) == At(r, {"voucher"}) /\ (Insert(r) \/ SetOff(r))

GenerateCode(r) ==
    \E u \in Live("user"), w \in Names :
        /\ \A c \in Live("referralCode") : <<c, u>> \notin link
        /\ ~Taken("referralCode", w)
        /\ Create(r, "referralCode", {u}, w)
ReferralRows(r) == At(r, {"referralCode"}) /\ Insert(r)

(***************************************************************************)
(* LocationsService, IpPoolService                                         *)
(***************************************************************************)
CreateLocation(r) == Create(r, "location", {}, 0)
UpdateLocation(r) == \E x \in Live("location") : Switch(r, x)
DeleteLocation(r) == \E x \in Live("location") : Children(x) = {} /\ Delete(r, x)
LocationCalls(r) == CreateLocation(r) \/ UpdateLocation(r) \/ DeleteLocation(r)
LocationRows(r) ==
    At(r, {"location"}) /\ (Insert(r) \/ SetOff(r) \/ SetOn(r) \/ Remove(r))

CreateIpPool(r) == Create(r, "ipPool", {}, 0)
UpdateIpPool(r) == \E x \in Live("ipPool") : Change(r, x, {}, 0)
DeleteIpPool(r) == \E x \in Live("ipPool") : Children(x) = {} /\ Delete(r, x)
AddIp(r) ==
    \E p \in Live("ipPool"), w \in Names : ~Taken("address", w) /\ Create(r, "address", {p}, w)
Assigned(x) == \E v \in Live("vm") : <<x, v>> \in link
RemoveIp(r) == \E x \in Live("address") : ~Assigned(x) /\ Delete(r, x)
SetPtrRecord(r) == \E x \in Live("address") : Change(r, x, {}, 0)
IpPoolCalls(r) ==
    \/ CreateIpPool(r) \/ UpdateIpPool(r) \/ DeleteIpPool(r)
    \/ AddIp(r) \/ RemoveIp(r) \/ SetPtrRecord(r)
IpPoolRows(r) == At(r, {"ipPool", "address"}) /\ (Insert(r) \/ Update(r) \/ Remove(r))

(***************************************************************************)
(* AdminService: nodes, templates, vouchers                                *)
(***************************************************************************)
CreateNode(r) == \E w \in Names : ~Taken("node", w) /\ Create(r, "node", {}, w)
UpdateNode(r) == \E x \in Live("node") : Switch(r, x)
\* The location is not looked up.
UpdateNodeStatus(r) ==
    \E x \in Live("node"), ps \in Choices({"location"}) : Change(r, x, ps, 0)
ToggleNodeMaintenance(r) == \E x \in Live("node") : Switch(r, x)
NodeCalls(r) ==
    CreateNode(r) \/ UpdateNode(r) \/ UpdateNodeStatus(r) \/ ToggleNodeMaintenance(r)
NodeRows(r) == At(r, {"node"}) /\ (Insert(r) \/ Update(r) \/ SetOff(r) \/ SetOn(r))

CreateTemplate(r) == \E w \in Names : Create(r, "template", {}, w)
UpdateTemplate(r) ==
    \E x \in Live("template") : Switch(r, x) \/ \E w \in Names : Change(r, x, {}, w)
DeleteTemplate(r) == \E x \in Live("template") : Delete(r, x)
TemplateCalls(r) == CreateTemplate(r) \/ UpdateTemplate(r) \/ DeleteTemplate(r)
TemplateRows(r) ==
    At(r, {"template"}) /\ (Insert(r) \/ Update(r) \/ SetOff(r) \/ SetOn(r) \/ Remove(r))

AdminCreateVoucher(r) ==
    \E w \in Names : ~Taken("voucher", w) /\ Create(r, "voucher", {}, w)
\* createMany: all of them or none; the codes are random.
BatchCreateVouchers(r) ==
    New("voucher") # {} /\ Begin(r, "create", New("voucher"), {}, 0)
VoidVoucher(r) == \E x \in Live("voucher") \ off : Close(r, x)
AdminVoucherCalls(r) == AdminCreateVoucher(r) \/ BatchCreateVouchers(r) \/ VoidVoucher(r)
AdminVoucherRows(r) == At(r, {"voucher"}) /\ (Insert(r) \/ SetOff(r))
=============================================================================
