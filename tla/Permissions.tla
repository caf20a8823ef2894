------------------------------ MODULE Permissions ------------------------------
(***************************************************************************)
(* Role-based access control, lib/permissions.ts: the routes enforce it and *)
(* the pages hide what it refuses.  Only the permissions of operations that *)
(* a module of this project models are listed.                              *)
(***************************************************************************)

Floor == {"ADMIN", "STORE_MANAGER", "WAREHOUSE_OPERATOR"}

Role == Floor \cup {"ACCOUNTS", "MANAGEMENT"}

\* PERMISSION_ROLES
Holders(permission) ==
    CASE permission \in {"ledger.reverse", "po.manage", "adjustment.approve"} ->
            {"ADMIN", "STORE_MANAGER"}
      [] permission \in {"opening.post", "master.manage"} -> {"ADMIN"}
      [] permission \in {"grn.create", "dispatch.create", "return.create",
                         "adjustment.request", "transfer.create"} -> Floor
      [] permission = "invoice.manage" -> {"ADMIN", "STORE_MANAGER", "ACCOUNTS"}
      [] permission \in {"po.view", "grn.view", "invoice.view", "dispatch.view", "return.view",
                         "adjustment.view", "ledger.view", "transfer.view", "stock.view",
                         "dashboard.view", "master.view"} -> Role

Can(role, permission) == role \in Holders(permission)
==============================================================================
