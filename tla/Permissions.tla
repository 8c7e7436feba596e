---------------------------- MODULE Permissions -----------------------------
(***************************************************************************)
(* The role to permission map.  A server action reads the caller's role    *)
(* once, with the session, and refuses when the role lacks the permission. *)
(***************************************************************************)

CanView == {"org.view", "systems.view", "automations.view", "executions.view",
            "analytics.view", "reports.view", "agents.view", "knowledge.view",
            "evals.view"}

CanOperate == {"systems.operate", "automations.run", "approvals.view",
               "approvals.decide", "reports.generate", "integrations.view",
               "evals.run"}

CanManage == {"org.update", "members.invite", "systems.manage",
              "automations.manage", "billing.view", "integrations.manage",
              "agents.manage", "knowledge.manage"}

CanTrade == {"commercial.view", "commercial.manage"}

AllPermissions ==
    CanView \cup CanOperate \cup CanManage \cup CanTrade
        \cup {"billing.manage", "platform.admin"}

PermissionsOf ==
    [ platform_owner    |-> AllPermissions,
      automsp_admin     |-> AllPermissions \ {"platform.admin"},
      automsp_operator  |-> CanView \cup CanOperate \cup CanTrade
                                \cup {"automations.manage"},
      automsp_analyst   |-> CanView \cup {"commercial.view"},
      customer_owner    |-> CanView \cup CanOperate \cup CanManage
                                \cup {"billing.manage"},
      customer_admin    |-> CanView \cup CanOperate \cup CanManage,
      customer_member   |-> CanView \cup CanOperate,
      customer_viewer   |-> CanView ]

Role == DOMAIN PermissionsOf

HasPermission(role, permission) == permission \in PermissionsOf[role]
=============================================================================
