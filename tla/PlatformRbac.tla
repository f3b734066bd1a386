----------------------------- MODULE PlatformRbac -----------------------------
(***************************************************************************)
(* Platform operator roles and the permissions they grant                  *)
(* (api/platformrbac/permissions.go), and the permission each restore      *)
(* route asks for (api/main.go).  Pure definitions: the modules that       *)
(* model privileged routes extend this one.                                *)
(***************************************************************************)

RoleNames == {"operator", "support", "security_admin", "gm_liveops"}

(* The route permissions; the operator role holds the wildcard "*". *)
Permissions ==
    {"players.read", "characters.read", "backups.read",
     "backups.restore.request", "backups.restore.approve",
     "backups.restore.fulfill", "security.read", "security.write",
     "audit.read", "audit.write", "platform.support.ack", "economy.read",
     "users.delete", "cases.read", "cases.write", "sanctions.write",
     "recovery.write", "appeals.resolve"}

rolePermissions ==
    [role \in RoleNames |->
       CASE role = "operator" -> {"*"}
         [] role = "support" ->
              {"players.read", "characters.read", "backups.read",
               "backups.restore.request", "economy.read", "audit.read",
               "platform.support.ack", "security.read", "cases.read",
               "cases.write", "recovery.write", "appeals.resolve"}
         [] role = "security_admin" ->
              {"security.read", "security.write", "audit.read", "audit.write",
               "players.read", "economy.read", "backups.read",
               "backups.restore.approve", "backups.restore.fulfill",
               "cases.read", "sanctions.write", "appeals.resolve",
               "users.delete"}
         [] role = "gm_liveops" ->
              {"players.read", "characters.read", "cases.read", "cases.write",
               "sanctions.write", "recovery.write", "appeals.resolve",
               "audit.read", "platform.support.ack", "security.read",
               "economy.read"}]

(* An unknown role name grants nothing, as the Go map's zero value does. *)
PermissionsForRole(role) ==
    IF role \in RoleNames THEN rolePermissions[role] ELSE {}

HasPermission(roles, required) ==
    \E role \in roles : {"*", required} \cap PermissionsForRole(role) # {}
================================================================================
