SPECIFICATION Spec
CONSTANTS
  root = root
  ann = ann
  master = master
  staff = staff
  manage = manage
  audit = audit
  keep = keep
  Users = {root, ann}
  Roles = {master, staff}
  Permissions = {manage, audit}
  Names = {master, staff}
  Critical = {manage, audit}
  Manage = manage
  SystemRoles = {master, staff}
  Seeded <- MCSeeded
  FirstUser = root
  MasterRole = master
  Keep = keep
  Kinds = {"updateUser", "createUser"}
  Overlap = TRUE
  MaxReplaced = 1
INVARIANTS AdministratorSurvivesRaces
