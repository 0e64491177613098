SPECIFICATION ScenarioSpec
CONSTANTS
  root = root
  ann = ann
  master = master
  staff = staff
  extra = extra
  manage = manage
  audit = audit
  keep = keep
  Users = {root, ann}
  Roles = {master, staff, extra}
  Permissions = {manage, audit}
  Names = {staff, extra}
  Critical = {manage, audit}
  Manage = manage
  SystemRoles = {master, staff}
  Seeded <- MCSeeded
  FirstUser = root
  MasterRole = master
  Keep = keep
  Kinds = {"updateRole", "createRole", "deleteRole", "revoke"}
  Overlap = FALSE
  MaxReplaced = 1
INVARIANTS AdministratorRemains NamesDiffer SessionFollowsRole
CHECK_DEADLOCK FALSE
