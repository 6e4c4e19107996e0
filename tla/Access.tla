------------------------------- MODULE Access -------------------------------
(***************************************************************************)
(* Who may do what, and where: the permissions of each role (security.     *)
(* rolePermissions), what a principal may reach (CanAccessStore,           *)
(* StoreScope), and for each route behind a permission how its service     *)
(* narrows it to the caller's stores.  Pure operators; Sessions runs the   *)
(* requests.                                                               *)
(***************************************************************************)

NoRole == ""

\* staffReq's oneof, and the CHECK on users.role.
StaffRoles == {"kitchen", "counter", "finance", "store_manager", "admin", "owner"}

Roles == StaffRoles \cup {"customer"}

CustomerPermissions ==
  {"order.create", "order.view.own", "order.cancel.own", "payment.proof.upload",
   "profile.manage"}

AdminPermissions ==
  {"order.view.store", "order.cancel.staff", "kitchen.board", "kitchen.ticket.print",
   "order.status.kitchen", "order.status.handover",
   "payment.queue.view", "payment.verify", "payment.refund", "finance.reconciliation",
   "store.schedule.manage", "store.capacity.manage", "store.manage",
   "store.bank.read", "store.bank.manage",
   "menu.manage", "menu.availability.manage", "menu.86", "menu.price.override",
   "promotion.manage", "staff.manage", "parameters.manage",
   "reports.store", "reports.group", "audit.view"}

\* The matrix; init() gives the owner what the admin has.
PermissionsOf(role) ==
  CASE role = "customer" -> CustomerPermissions
    [] role = "kitchen" ->
         {"order.view.store", "kitchen.board", "kitchen.ticket.print",
          "order.status.kitchen", "menu.86"}
    [] role = "counter" ->
         {"order.view.store", "kitchen.board", "kitchen.ticket.print",
          "order.status.handover", "order.cancel.staff"}
    [] role = "finance" ->
         {"order.view.store", "payment.queue.view", "payment.verify", "payment.refund",
          "finance.reconciliation", "reports.store", "store.bank.read"}
    [] role = "store_manager" ->
         {"order.view.store", "order.cancel.staff", "kitchen.board",
          "kitchen.ticket.print", "order.status.kitchen", "order.status.handover",
          "store.schedule.manage", "store.capacity.manage", "menu.availability.manage",
          "menu.86", "payment.queue.view", "finance.reconciliation", "reports.store",
          "audit.view"}
    [] role \in {"admin", "owner"} -> AdminPermissions
    [] OTHER -> {}

\* Principal.Can.
Can(role, permission) == role # NoRole /\ permission \in PermissionsOf(role)

\* Principal.IsUnscoped: the flag counts for every role.
IsUnscoped(role, groupScope) == role \in {"admin", "owner"} \/ groupScope

\* Principal.CanAccessStore; StoreScope gives the repositories the same set.
CanAccessStore(role, groupScope, assigned, store) ==
  IsUnscoped(role, groupScope) \/ store \in assigned

-----------------------------------------------------------------------------
(* Routes.  scope says how the service narrows the permission:             *)
(*   "STORE"  the store the request names must be the caller's             *)
(*   "ROWS"   it reaches the rows of the caller's stores                   *)
(*   "OWN"    it reaches the rows of the caller, a customer                *)
(*   "ANY"    nothing is asked                                             *)

Route(op, needs, scope) == [op |-> op, needs |-> needs, scope |-> scope]

CustomerRoutes ==
  {Route("updateProfile", {"profile.manage"}, "OWN"),
   Route("createOrder", {"order.create"}, "OWN"),
   Route("listOrders", {"order.view.own"}, "OWN"),
   Route("trackOrder", {"order.view.own"}, "OWN"),
   Route("getOrder", {"order.view.own"}, "OWN"),
   Route("cancelOwnOrder", {"order.cancel.own"}, "OWN"),
   Route("reorder", {"order.view.own"}, "OWN"),
   Route("uploadProof", {"payment.proof.upload"}, "OWN")}

FinanceRoutes ==
  {Route("paymentQueue", {"payment.queue.view"}, "ROWS"),
   Route("paymentProof", {"payment.queue.view"}, "ROWS"),
   Route("verifyPayment", {"payment.verify"}, "ROWS"),
   Route("rejectPayment", {"payment.verify"}, "ROWS"),
   Route("refundPayment", {"payment.refund"}, "ROWS"),
   Route("reconciliation", {"finance.reconciliation"}, "ROWS")}

OpsRoutes ==
  {Route("opsBoard", {"order.view.store"}, "ROWS"),
   Route("opsUnpaid", {"order.view.store"}, "ROWS"),
   Route("opsAffected", {"order.view.store"}, "STORE"),
   Route("opsTicket", {"kitchen.ticket.print"}, "ROWS"),
   Route("opsCancel", {"order.cancel.staff"}, "ROWS"),
   Route("opsCancelBulk", {"order.cancel.staff"}, "ROWS"),
   Route("opsProduction", {"kitchen.board"}, "STORE")}

\* opsAdvance: the route asks for one permission, the service for a second that
\* depends on the state asked for.
AdvanceRoutes ==
  {Route("opsAdvance", {"order.view.store", "order.status.kitchen"}, "ROWS"),
   Route("opsAdvance", {"order.view.store", "order.status.handover"}, "ROWS")}

AdminRoutes ==
  {Route("adminListStores", {"order.view.store"}, "ROWS"),
   Route("adminCreateStore", {"store.manage"}, "ANY"),
   Route("adminUpdateStore", {"store.manage"}, "STORE"),
   Route("adminActivateStore", {"store.manage"}, "ANY"),
   Route("adminDeactivateStore", {"store.manage"}, "ANY"),
   Route("adminSetModes", {"store.manage"}, "STORE"),
   Route("adminBankAccounts", {"store.bank.read"}, "STORE"),
   Route("adminSaveBankAccount", {"store.bank.manage"}, "STORE"),
   Route("adminSaveCategory", {"menu.manage"}, "ANY"),
   Route("adminSaveItem", {"menu.manage"}, "ANY"),
   Route("adminItemPhoto", {"menu.manage"}, "ANY"),
   Route("adminStoreOverride", {"menu.availability.manage"}, "STORE"),
   Route("adminAdd86", {"menu.86"}, "STORE"),
   Route("adminLift86", {"menu.86"}, "STORE"),
   Route("adminDailyStock", {"menu.availability.manage"}, "STORE"),
   Route("adminParameters", {"parameters.manage"}, "ANY"),
   Route("adminSetParameter", {"parameters.manage"}, "ANY"),
   Route("adminDeleteParameter", {"parameters.manage"}, "ANY"),
   Route("adminStoreParameters", {"store.capacity.manage"}, "STORE"),
   Route("adminSetStoreParameter", {"store.capacity.manage"}, "STORE"),
   Route("adminListStaff", {"staff.manage"}, "ANY"),
   Route("adminCreateStaff", {"staff.manage"}, "ANY"),
   Route("adminUpdateStaff", {"staff.manage"}, "ANY"),
   Route("adminDeactivateStaff", {"staff.manage"}, "ANY"),
   Route("adminAudit", {"audit.view"}, "ROWS")}
  \cup
  {Route(op, {"store.schedule.manage"}, "STORE")
     : op \in {"adminHours", "adminReplaceHours", "adminDateOverrides",
               "adminSaveDateOverride", "adminDeleteDateOverride", "adminBlackouts",
               "adminAddBlackout", "adminRemoveBlackout"}}

\* adminStoreOverride with a price asks for one permission more.
PriceRoutes ==
  {Route("adminStoreOverride", {"menu.availability.manage", "menu.price.override"},
         "STORE")}

Routes == CustomerRoutes \cup FinanceRoutes \cup OpsRoutes \cup AdvanceRoutes
            \cup AdminRoutes \cup PriceRoutes
=============================================================================
