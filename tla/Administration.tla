--------------------------- MODULE Administration ---------------------------
(***************************************************************************)
(* Users, roles and sessions: users.service.ts, roles.service.ts, and what *)
(* auth.service.ts, attach-user.ts and session-store.ts do for them.       *)
(*                                                                         *)
(* A request is authorized, reads and checks in its transaction ("asked"), *)
(* and commits later; PostgreSQL runs it at READ COMMITTED, so what others *)
(* commit in between is neither seen by the check nor prevented.  The      *)
(* permissions of a role are rows: replacing them deletes the rows that    *)
(* the statement sees and then inserts the new ones.                       *)
(*                                                                         *)
(* Signing in verifies the password against a user row read before and     *)
(* stores the session when the response ends, without looking at the user  *)
(* again; a change of role deletes the sessions that are stored by then.   *)
(***************************************************************************)
EXTENDS Naturals, FiniteSets

CONSTANTS
  Users, Roles, Permissions,
  Names,         \* the names that are given to roles (a seeded role's name is itself)
  Critical,      \* CRITICAL_ADMIN_PERMISSIONS
  Manage,        \* users:manage, which every request of this module requires
  SystemRoles,   \* the seeded roles, and
  Seeded,        \* the permissions the seed gives each of them
  FirstUser, MasterRole,
  Keep,          \* the input does not mention the field
  Kinds,         \* the kinds of request that are made
  Overlap,       \* whether a request is made while the transaction of another one is under way
  MaxReplaced    \* bound on the replacements of permissions

ASSUME CriticalAssumption == Manage \in Critical /\ Critical \subseteq Permissions
ASSUME SeedAssumption ==
  /\ SystemRoles \subseteq Roles /\ MasterRole \in SystemRoles /\ FirstUser \in Users
  /\ Seeded \in [SystemRoles -> SUBSET Permissions] /\ Critical \subseteq Seeded[MasterRole]
ASSUME KeepAssumption == Keep \notin Roles \cup Names \cup BOOLEAN /\ \A keys \in SUBSET Permissions : Keep # keys
ASSUME FlagsAssumption == Overlap \in BOOLEAN /\ MaxReplaced \in Nat

VARIABLES
  users,      \* user -> whether it exists and is active, and its role
  roles,      \* role -> whether it exists and is active, and its name
  grants,     \* the RolePermission rows: role, permission and the replacement that wrote it
  sessions,   \* user -> the role it had when its password was verified, Keep when it is not signed in
  signing,    \* the same of a sign-in whose session is not stored yet
  escaped,    \* (auxiliary) the users whom a revocation missed, or who were never reached by theirs
  asked,      \* user -> the request it has under way
  replaced    \* how many replacements have been committed

vars == <<users, roles, grants, sessions, signing, escaped, asked, replaced>>
signIns == <<sessions, signing, escaped>>

NoRequest == [kind |-> "none"]

\* The user is signed in, or about to be, as what it is no more.
Stale(u) == {sessions[u], signing[u]} \ {Keep, users[u].role} # {}

\* The permission keys of a role.
Held(r) == {g[2] : g \in {g \in grants : g[1] = r}}

\* roleGrantsFullAdminCapability.
Full(keys) == Critical \subseteq keys

\* countQualifyingAdministrators: the active users whose active role has full capability.
Administrators ==
  {u \in Users : /\ users[u].exists /\ users[u].active
                 /\ roles[users[u].role].active
                 /\ Full(Held(users[u].role))}

\* (A first form, for comparison, of the next: the user itself is counted.)
UserChangeCounted(u, keys) ==
  Full(Held(users[u].role)) /\ ~Full(keys) => Administrators # {}

\* assertUserChangeKeepsAnAdministrator: a user that loses full capability must not be the last.
UserChangeKeeps(u, keys) ==
  Full(Held(users[u].role)) /\ ~Full(keys) => Administrators \ {u} # {}

\* assertRoleChangeKeepsAnAdministrator: the same for all holders of a role.
RoleChangeKeeps(r, keys) ==
  Full(Held(r)) /\ ~Full(keys) => {u \in Administrators : users[u].role # r} # {}

\* (A first form, for comparison, of the next: the roles in use only.)
NameUnused(name, except) ==
  \A r \in Roles \ {except} : roles[r].exists /\ roles[r].active => roles[r].name # name

\* assertNameNotTaken.
NameFree(name, except) == \A r \in Roles \ {except} : roles[r].exists => roles[r].name # name

\* getAssignableRole.
Assignable(r) == roles[r].exists /\ roles[r].active

\* loadSessionUser, requirePermission: what every request of this module passes first.
Authorized(a) ==
  /\ sessions[a] # Keep
  /\ users[a].exists /\ users[a].active /\ roles[users[a].role].active
  /\ Manage \in Held(users[a].role)

-----------------------------------------------------------------------------
Init ==
  /\ users = [u \in Users |-> [exists |-> u = FirstUser, active |-> TRUE, role |-> MasterRole]]
  /\ roles = [r \in Roles |-> [exists |-> r \in SystemRoles, active |-> TRUE,
                               name |-> IF r \in SystemRoles THEN r ELSE Keep]]
  /\ grants = UNION {{<<r, p, 0>> : p \in Seeded[r]} : r \in SystemRoles}
  /\ sessions = [u \in Users |-> Keep] /\ signing = sessions /\ escaped = {}
  /\ asked = [u \in Users |-> NoRequest]
  /\ replaced = 0

\* A request starts when it is authorized and, unless requests overlap, while no transaction is
\* under way; revocations have no transaction and fall into anything.
Asks(a, request) ==
  /\ request.kind \in Kinds
  /\ asked[a] = NoRequest
  /\ Authorized(a)
  /\ Overlap \/ request.kind = "revoke" \/ \A u \in Users : asked[u].kind \in {"none", "revoke"}
  /\ asked' = [asked EXCEPT ![a] = request]
  /\ UNCHANGED <<users, roles, grants, signIns, replaced>>

\* updateUser: the checks of a change of activity, of role, or of both.
UpdateUser(a, u, active, role) ==
  LET moves == role # Keep /\ role # users[u].role
  IN  /\ Asks(a, [kind |-> "updateUser", user |-> u, active |-> active,
                  role |-> IF moves THEN role ELSE Keep])
      /\ users[u].exists
      /\ ~(active = FALSE /\ u = a) /\ ~(role # Keep /\ u = a)
      /\ active = FALSE => UserChangeKeeps(u, {})
      /\ moves => Assignable(role) /\ UserChangeKeeps(u, Held(role))

\* createUser: the role must be assignable.
CreateUser(a, u, role) ==
  /\ ~users[u].exists
  /\ Assignable(role)
  /\ Asks(a, [kind |-> "createUser", user |-> u, role |-> role])

\* updateRole: the checks of a change of name, permissions, activity, or several of these.
UpdateRole(a, r, name, keys, active) ==
  LET differs == keys # Keep /\ keys # Held(r)
  IN  /\ Asks(a, [kind |-> "updateRole", role |-> r, name |-> name, active |-> active,
                  keys |-> IF differs THEN keys ELSE Keep])
      /\ roles[r].exists
      /\ name # Keep /\ name # roles[r].name => NameFree(name, r)
      /\ keys # Keep => RoleChangeKeeps(r, keys)
      /\ active = FALSE /\ roles[r].active => RoleChangeKeeps(r, {})

\* createRole, duplicateRole: a new role with permissions that were submitted, or are a role's.
CreateRole(a, r, name, keys, active) ==
  /\ ~roles[r].exists /\ r \notin SystemRoles
  /\ NameFree(name, r)
  /\ Asks(a, [kind |-> "createRole", role |-> r, name |-> name, keys |-> keys, active |-> active])

DuplicateRole(a, source, r, name, active) ==
  /\ roles[source].exists
  /\ CreateRole(a, r, name, Held(source), active)

\* deleteRole: never a system role, and no role that somebody has.
DeleteRole(a, r) ==
  /\ roles[r].exists /\ r \notin SystemRoles
  /\ \A u \in Users : users[u].exists => users[u].role # r
  /\ Asks(a, [kind |-> "deleteRole", role |-> r])

\* resetUserPassword: the password is written, and the sessions are revoked.
ResetPassword(a, u) ==
  /\ users[u].exists
  /\ Asks(a, [kind |-> "revoke", user |-> u])

-----------------------------------------------------------------------------
\* The request of a ends; Keep stands for what it leaves alone.
Done(a) == asked' = [asked EXCEPT ![a] = NoRequest]

\* (A first form, for comparison, of the next: a change of activity alone writes the role, too.)
ChangedBlindly(u, q) ==
  [exists |-> TRUE,
   active |-> IF q.active = Keep THEN u.active ELSE q.active,
   role |-> q.role]

\* The user u, with the activity and the role that the request q gives it.
Changed(u, q) ==
  [exists |-> TRUE,
   active |-> IF q.active = Keep THEN u.active ELSE q.active,
   role |-> IF q.role = Keep THEN u.role ELSE q.role]

\* (A first form, for comparison: nobody is signed out.)
CommitUserOnly(a) ==
  LET q == asked[a]
  IN  /\ q.kind = "updateUser"
      /\ q.role # Keep => roles[q.role].exists
      /\ users' = [users EXCEPT ![q.user] = Changed(@, q)]
      /\ Done(a)
      /\ UNCHANGED <<roles, grants, signIns, replaced>>

\* The transaction of updateUser is written; a change of role goes on to revoke the sessions.
\* A role that is gone by now fails the foreign key.
CommitUser(a) ==
  LET q == asked[a]
  IN  /\ q.kind = "updateUser"
      /\ q.role # Keep => roles[q.role].exists
      /\ users' = [users EXCEPT ![q.user] = Changed(@, q)]
      /\ IF q.role = Keep THEN Done(a)
         ELSE asked' = [asked EXCEPT ![a] = [kind |-> "revoke", user |-> q.user]]
      /\ UNCHANGED <<roles, grants, signIns, replaced>>

\* invalidateAllSessionsForUser, on a connection of its own: the sessions that are stored.
Revoke(a) ==
  LET u == asked[a].user
  IN  /\ asked[a].kind = "revoke"
      /\ sessions' = [sessions EXCEPT ![u] = Keep]
      /\ escaped' = IF signing[u] \in {Keep, users[u].role} THEN escaped \ {u} ELSE escaped \cup {u}
      /\ Done(a)
      /\ UNCHANGED <<users, roles, grants, signing, replaced>>

CommitNewUser(a) ==
  LET q == asked[a]
  IN  /\ q.kind = "createUser"
      /\ roles[q.role].exists /\ ~users[q.user].exists
      /\ users' = [users EXCEPT ![q.user] = [exists |-> TRUE, active |-> TRUE, role |-> q.role]]
      /\ Done(a)
      /\ UNCHANGED <<roles, grants, signIns, replaced>>

\* deleteMany: the statement sees the rows of the role as they are now.
Replace(a) ==
  LET q == asked[a]
  IN  /\ q.kind = "updateRole" /\ q.keys # Keep
      /\ asked' = [asked EXCEPT ![a] =
                     [kind |-> "replacing", role |-> q.role, name |-> q.name, active |-> q.active,
                      keys |-> q.keys, sees |-> {g \in grants : g[1] = q.role}]]
      /\ UNCHANGED <<users, roles, grants, signIns, replaced>>

\* The rows of a role after a replacement: what it did not see stays.
Remaining(q) == IF q.keys = Keep THEN grants ELSE grants \ q.sees

\* The role r, with the activity and the name that the request q gives it.
Edited(r, q) ==
  [exists |-> TRUE,
   active |-> IF q.active = Keep THEN r.active ELSE q.active,
   name |-> IF q.name = Keep THEN r.name ELSE q.name]

\* updateRole is written, if no inserted row is there already (a unique index) and the role
\* has not been deleted.
CommitRole(a) ==
  LET q == asked[a]
      clash == q.keys # Keep /\ \E g \in Remaining(q) : g[1] = q.role /\ g[2] \in q.keys
  IN  /\ q.kind = "replacing" \/ (q.kind = "updateRole" /\ q.keys = Keep)
      /\ roles[q.role].exists /\ ~clash
      /\ replaced < MaxReplaced
      /\ grants' = Remaining(q) \cup (IF q.keys = Keep THEN {} ELSE {<<q.role, p, replaced + 1>> : p \in q.keys})
      /\ replaced' = IF q.keys = Keep THEN replaced ELSE replaced + 1
      /\ roles' = [roles EXCEPT ![q.role] = Edited(@, q)]
      /\ Done(a)
      /\ UNCHANGED <<users, signIns>>

CommitNewRole(a) ==
  LET q == asked[a]
  IN  /\ q.kind = "createRole" /\ ~roles[q.role].exists
      /\ replaced < MaxReplaced
      /\ roles' = [roles EXCEPT ![q.role] = [exists |-> TRUE, active |-> q.active, name |-> q.name]]
      /\ grants' = grants \cup {<<q.role, p, replaced + 1>> : p \in q.keys}
      /\ replaced' = replaced + 1
      /\ Done(a)
      /\ UNCHANGED <<users, signIns>>

\* The role is deleted and its rows with it; a user who has it by now fails the foreign key.
CommitDelete(a) ==
  LET q == asked[a]
  IN  /\ q.kind = "deleteRole" /\ roles[q.role].exists
      /\ \A u \in Users : users[u].exists => users[u].role # q.role
      /\ roles' = [roles EXCEPT ![q.role] = [exists |-> FALSE, active |-> TRUE, name |-> Keep]]
      /\ grants' = {g \in grants : g[1] # q.role}
      /\ Done(a)
      /\ UNCHANGED <<users, signIns, replaced>>

\* A transaction that fails, or whose process stops, is rolled back; a revocation that fails,
\* or whose process stops, is never made.
Abort(a) ==
  /\ asked[a] # NoRequest
  /\ escaped' = escaped \cup {u \in Users : asked[a] = [kind |-> "revoke", user |-> u] /\ Stale(u)}
  /\ Done(a)
  /\ UNCHANGED <<users, roles, grants, sessions, signing, replaced>>

-----------------------------------------------------------------------------
\* verifyCredentials reads the user and its role and compares the password; argon2, touchLastLogin,
\* the audit log and loadSessionUser are awaited after that.  (A bound: one session of a user.)
Verify(u) ==
  /\ sessions[u] = Keep /\ signing[u] = Keep
  /\ users[u].exists /\ users[u].active /\ roles[users[u].role].active
  /\ signing' = [signing EXCEPT ![u] = users[u].role]
  /\ UNCHANGED <<users, roles, grants, sessions, escaped, asked, replaced>>

\* The response ends and the session is stored, whatever has become of the user.
SaveSession(u) ==
  /\ signing[u] # Keep
  /\ sessions' = [sessions EXCEPT ![u] = signing[u]]
  /\ signing' = [signing EXCEPT ![u] = Keep]
  /\ UNCHANGED <<users, roles, grants, escaped, asked, replaced>>

\* The password is wrong, a statement of the sign-in fails, or its process stops.
SignInFails(u) ==
  /\ signing[u] # Keep
  /\ signing' = [signing EXCEPT ![u] = Keep]
  /\ escaped' = escaped \ {u}
  /\ UNCHANGED <<users, roles, grants, sessions, asked, replaced>>

\* The session of u is destroyed.
Ends(u) ==
  /\ sessions[u] # Keep
  /\ sessions' = [sessions EXCEPT ![u] = Keep]
  /\ escaped' = escaped \ {u}
  /\ UNCHANGED <<users, roles, grants, signing, asked, replaced>>

\* attachUser: a session whose user or role is not active any more is destroyed when it is used.
Dropped(u) == Ends(u) /\ ~(users[u].active /\ roles[users[u].role].active)

\* logout, by a user that attachUser has let in.
SignOut(u) == Ends(u) /\ users[u].active /\ roles[users[u].role].active

Next ==
  \/ \E a \in Users :
       \/ \E u \in Users, active \in {Keep, TRUE, FALSE}, role \in Roles \cup {Keep} : UpdateUser(a, u, active, role)
       \/ \E u \in Users, role \in Roles : CreateUser(a, u, role)
       \/ \E u \in Users : ResetPassword(a, u)
       \/ \E r \in Roles, name \in Names \cup {Keep}, keys \in (SUBSET Permissions) \cup {Keep}, active \in {Keep, TRUE, FALSE} :
            UpdateRole(a, r, name, keys, active)
       \/ \E r \in Roles, name \in Names, keys \in SUBSET Permissions : CreateRole(a, r, name, keys, TRUE)
       \/ \E source, r \in Roles, name \in Names, active \in BOOLEAN : DuplicateRole(a, source, r, name, active)
       \/ \E r \in Roles : DeleteRole(a, r)
       \/ CommitUser(a) \/ Revoke(a) \/ CommitNewUser(a)
       \/ Replace(a) \/ CommitRole(a) \/ CommitNewRole(a) \/ CommitDelete(a)
       \/ Abort(a)
  \/ \E u \in Users : Verify(u) \/ SaveSession(u) \/ SignInFails(u) \/ Dropped(u) \/ SignOut(u)

Spec == Init /\ [][Next]_vars

-----------------------------------------------------------------------------
\* The types of the variables.
TypeOK ==
  /\ users \in [Users -> [exists : BOOLEAN, active : BOOLEAN, role : Roles]]
  /\ roles \in [Roles -> [exists : BOOLEAN, active : BOOLEAN, name : SystemRoles \cup Names \cup {Keep}]]
  /\ grants \subseteq Roles \X Permissions \X (0..MaxReplaced)
  /\ sessions \in [Users -> Roles \cup {Keep}] /\ signing \in [Users -> Roles \cup {Keep}]
  /\ escaped \subseteq Users
  /\ \A u \in Users : users[u].exists => roles[users[u].role].exists

\* There is always an active user whose active role has full administrative capability: no
\* sequence of deactivations, reassignments and permission changes locks everybody out.
AdministratorRemains == Administrators # {}

\* Two roles never have one name.
NamesDiffer ==
  \A r, s \in Roles : roles[r].exists /\ roles[s].exists /\ roles[r].name = roles[s].name => r = s

\* Whoever is given another role has to sign in again: a session, stored or about to be, belongs
\* to the role its user has, or its revocation is under way, or it slipped through one of the two
\* gaps there are: it was verified before the change and not stored yet when the revocation came
\* (auth.routes.ts:80), or the revocation that follows the change failed (users.service.ts:288).
SessionFollowsRole ==
  \A u \in Users :
    Stale(u) => u \in escaped \/ \E a \in Users : asked[a] = [kind |-> "revoke", user |-> u]

=============================================================================
