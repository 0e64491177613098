------------------------ MODULE AdministrationProofs ------------------------
(***************************************************************************)
(* Administration, for any users, roles, names and permissions.  While     *)
(* transactions do not overlap, no sequence of them leaves the system      *)
(* without an administrator.  However requests, sign-ins and revocations   *)
(* overlap and fail, a session goes on under another role than the user's  *)
(* only until its revocation, or through one of two gaps.                  *)
(***************************************************************************)
EXTENDS Administration, TLAPS

\* What the properties need of the variables' types.
Typed ==
  /\ users \in [Users -> [exists : BOOLEAN, active : BOOLEAN, role : Roles]]
  /\ roles \in [Roles -> [exists : BOOLEAN, active : BOOLEAN, name : SystemRoles \cup Names \cup {Keep}]]
  /\ grants \subseteq Roles \X Permissions \X Nat
  /\ replaced \in Nat
  /\ DOMAIN asked = Users

\* No existing user has a role that does not exist.
RolesExist == \A u \in Users : users[u].exists => roles[users[u].role].exists

\* A change of a user that was checked may still be made.
UserChangeSafe(q) ==
  /\ q.user \in Users /\ users[q.user].exists
  /\ q.active \in {Keep, TRUE, FALSE}
  /\ q.role \in Roles \cup {Keep}
  /\ q.active = FALSE => UserChangeKeeps(q.user, {})
  /\ q.role # Keep => roles[q.role].active /\ UserChangeKeeps(q.user, Held(q.role))

\* So may a change of a role.
RoleChangeSafe(q) ==
  /\ q.role \in Roles
  /\ q.name \in Names \cup {Keep}
  /\ q.active \in {Keep, TRUE, FALSE}
  /\ q.keys \in (SUBSET Permissions) \cup {Keep}
  /\ q.keys # Keep => RoleChangeKeeps(q.role, q.keys)
  /\ q.active = FALSE /\ roles[q.role].active => RoleChangeKeeps(q.role, {})

\* What a request under way may rely on, as nobody else has written since it was checked.
Safe(q) ==
  \/ q = NoRequest
  \/ q.kind = "updateUser" /\ UserChangeSafe(q)
  \/ q.kind = "revoke" /\ q.user \in Users
  \/ q.kind = "createUser" /\ q.user \in Users /\ q.role \in Roles
  \/ q.kind = "updateRole" /\ RoleChangeSafe(q)
  \/ q.kind = "replacing" /\ RoleChangeSafe(q) /\ q.keys # Keep /\ q.sees = {g \in grants : g[1] = q.role}
  \/ /\ q.kind = "createRole" /\ q.role \in Roles /\ q.name \in Names /\ q.active \in BOOLEAN
     /\ q.keys \subseteq Permissions
  \/ q.kind = "deleteRole" /\ q.role \in Roles

AllSafe == \A a \in Users : Safe(asked[a])

\* No request is under way, or one that relies on nothing it has read.
Idle(q) == q = NoRequest \/ (q.kind = "revoke" /\ q.user \in Users)

\* One transaction at a time.
OneAsked == \A a, b \in Users : Idle(asked[a]) \/ Idle(asked[b]) \/ a = b

AdminInv == Typed /\ RolesExist /\ AdministratorRemains /\ AllSafe /\ OneAsked

-----------------------------------------------------------------------------
\* No permission at all is not full administrative capability.
LEMMA EmptyNotFull == ~Full({})
  BY CriticalAssumption DEF Full

\* The seed leaves one administrator, the first user.
LEMMA InitAdmin == Init => AdminInv
<1> SUFFICES ASSUME Init PROVE AdminInv
  OBVIOUS
<1> USE DEF Init
<1>1. grants \subseteq Roles \X Permissions \X Nat
  <2> SUFFICES ASSUME NEW g \in grants PROVE g \in Roles \X Permissions \X Nat
    OBVIOUS
  <2>1. PICK r \in SystemRoles, p \in Permissions : p \in Seeded[r] /\ g = <<r, p, 0>>
    BY SeedAssumption
  <2>2. r \in Roles /\ p \in Permissions
    BY <2>1, SeedAssumption
  <2> QED
    BY <2>1, <2>2
<1>2. Typed
  BY <1>1, SeedAssumption DEF Typed
<1>3. RolesExist
  BY SeedAssumption DEF RolesExist
<1>4. AllSafe /\ OneAsked
  BY DEF AllSafe, OneAsked, Safe, Idle, NoRequest
<1>5. Critical \subseteq Held(MasterRole)
  <2> SUFFICES ASSUME NEW p \in Critical PROVE p \in Held(MasterRole)
    OBVIOUS
  <2>1. p \in Seeded[MasterRole]
    BY SeedAssumption
  <2>2. <<MasterRole, p, 0>> \in grants
    BY <2>1, SeedAssumption
  <2>3. <<MasterRole, p, 0>> \in {g \in grants : g[1] = MasterRole}
    BY <2>2
  <2> QED
    BY <2>3 DEF Held
<1>6. FirstUser \in Administrators
  BY <1>5, SeedAssumption DEF Administrators, Full
<1> QED
  BY <1>2, <1>3, <1>4, <1>6 DEF AdminInv, AdministratorRemains

\* What a request may rely on lasts as long as nobody writes.
LEMMA SafeKept ==
  ASSUME NEW q, Safe(q), UNCHANGED <<users, roles, grants>>
  PROVE  Safe(q)'
  BY DEF Safe, UserChangeSafe, RoleChangeSafe, UserChangeKeeps, RoleChangeKeeps, Administrators, Held, Full

\* A request that is checked and written down preserves the invariant.
LEMMA AskKeeps ==
  ASSUME Overlap = FALSE, AdminInv, NEW a \in Users, NEW request, Safe(request), Asks(a, request)
  PROVE  AdminInv'
<1>1. /\ UNCHANGED <<users, roles, grants, replaced>>
      /\ asked' = [asked EXCEPT ![a] = request]
      /\ request.kind = "revoke" \/ \A u \in Users : asked[u].kind \in {"none", "revoke"}
  BY DEF Asks
<1>2. DOMAIN asked = Users /\ AllSafe /\ OneAsked
  BY DEF AdminInv, Typed
<1>3. Typed'
  BY <1>1, <1>2 DEF AdminInv, Typed
<1>4. RolesExist' /\ AdministratorRemains'
  BY <1>1 DEF AdminInv, RolesExist, AdministratorRemains, Administrators, Held, Full
<1>5. asked'[a] = request /\ \A b \in Users \ {a} : asked'[b] = asked[b]
  BY <1>1, <1>2
<1>6. OneAsked'
  <2>1. CASE request.kind = "revoke"
    <3>1. Idle(asked'[a])
      BY <1>5, <2>1 DEF Safe, Idle
    <3> QED
      BY <1>2, <1>5, <3>1 DEF OneAsked, Idle
  <2>2. CASE \A u \in Users : asked[u].kind \in {"none", "revoke"}
    <3>1. ASSUME NEW u \in Users PROVE Idle(asked[u])
      BY <1>2, <2>2 DEF AllSafe, Safe, Idle
    <3> QED
      BY <1>5, <3>1 DEF OneAsked, Idle
  <2> QED
    BY <1>1, <2>1, <2>2
<1>7. AllSafe'
  <2> SUFFICES ASSUME NEW b \in Users PROVE Safe(asked[b])'
    BY DEF AllSafe
  <2>1. PICK q : q = asked'[b]
    OBVIOUS
  <2>2. Safe(q)
    BY <1>2, <1>5, <2>1 DEF AllSafe
  <2>3. Safe(q)'
    BY <1>1, <2>2, SafeKept
  <2> QED
    BY <2>1, <2>3 DEF Safe, UserChangeSafe, RoleChangeSafe
<1> QED
  BY <1>3, <1>4, <1>6, <1>7 DEF AdminInv

\* When a transaction is written, its sender has at most the revocation left, and nobody else more.
LEMMA WrittenKeeps ==
  ASSUME AdminInv, NEW a \in Users, asked[a] # NoRequest, asked[a].kind # "revoke",
         NEW rest, Idle(rest), asked' = [asked EXCEPT ![a] = rest]
  PROVE  AllSafe' /\ OneAsked' /\ DOMAIN asked' = Users
<1>1. DOMAIN asked = Users
  BY DEF AdminInv, Typed
<1>2. ASSUME NEW b \in Users PROVE Idle(asked'[b])
  BY <1>1 DEF AdminInv, OneAsked, Idle
<1>3. AllSafe'
  <2> SUFFICES ASSUME NEW b \in Users PROVE Safe(asked[b])'
    BY DEF AllSafe
  <2> QED
    BY <1>2 DEF Safe, Idle
<1> QED
  BY <1>1, <1>2, <1>3 DEF OneAsked, Idle

LEMMA DoneKeeps ==
  ASSUME AdminInv, NEW a \in Users, asked[a] # NoRequest, asked[a].kind # "revoke", Done(a)
  PROVE  AllSafe' /\ OneAsked' /\ DOMAIN asked' = Users
  BY WrittenKeeps DEF Done, Idle

\* A user's change is written: an administrator it takes away was not the last one.
LEMMA CommitUserKeeps ==
  ASSUME AdminInv, NEW a \in Users, CommitUser(a)
  PROVE  AdminInv'
<1> DEFINE q == asked[a]
           u == q.user
           active == IF q.active = Keep THEN users[u].active ELSE q.active
           role == IF q.role = Keep THEN users[u].role ELSE q.role
<1>1. q.kind = "updateUser" /\ q # NoRequest
  BY DEF CommitUser, NoRequest
<1>2. UserChangeSafe(q)
  BY <1>1 DEF AdminInv, AllSafe, Safe, NoRequest
<1>3. u \in Users /\ active \in BOOLEAN /\ role \in Roles
  BY <1>2, KeepAssumption DEF UserChangeSafe, AdminInv, Typed
<1>4. users' = [users EXCEPT ![u] = [exists |-> TRUE, active |-> active, role |-> role]]
  BY DEF CommitUser, Changed
<1>5. /\ users' \in [Users -> [exists : BOOLEAN, active : BOOLEAN, role : Roles]]
      /\ \A v \in Users \ {u} : users'[v] = users[v]
      /\ users'[u].exists /\ users'[u].active = active /\ users'[u].role = role
  <2>1. users \in [Users -> [exists : BOOLEAN, active : BOOLEAN, role : Roles]]
    BY DEF AdminInv, Typed
  <2> HIDE DEF u, active, role
  <2> QED
    BY <1>3, <1>4, <2>1
<1>6. UNCHANGED <<roles, grants, replaced>>
  BY DEF CommitUser
<1>7. AllSafe' /\ OneAsked' /\ DOMAIN asked' = Users
  <2>1. Done(a) \/ asked' = [asked EXCEPT ![a] = [kind |-> "revoke", user |-> u]]
    BY DEF CommitUser
  <2> QED
    BY <1>1, <1>3, <2>1, DoneKeeps, WrittenKeeps DEF Idle
<1>8. Typed'
  BY <1>5, <1>6, <1>7 DEF AdminInv, Typed
<1>9. RolesExist'
  BY <1>2, <1>3, <1>5, <1>6 DEF AdminInv, RolesExist, CommitUser, UserChangeSafe
<1>10. AdministratorRemains'
  <2>1. \A v \in Administrators : v # u => v \in Administrators'
    BY <1>5, <1>6 DEF Administrators, Held, Full
  <2>2. CASE Administrators \ {u} # {}
    BY <2>1, <2>2 DEF AdministratorRemains
  <2>3. CASE Administrators \ {u} = {}
    <3>1. u \in Administrators
      BY <2>3 DEF AdminInv, AdministratorRemains
    <3>2. Full(Held(users[u].role)) /\ roles[users[u].role].active /\ users[u].exists /\ users[u].active
      BY <3>1 DEF Administrators
    <3>3. q.active # FALSE
      BY <1>2, <2>3, <3>2, EmptyNotFull DEF UserChangeSafe, UserChangeKeeps
    <3>4. active = TRUE
      BY <1>2, <3>2, <3>3 DEF UserChangeSafe
    <3>5. q.role # Keep => roles[q.role].active /\ Full(Held(q.role))
      BY <1>2, <2>3, <3>2 DEF UserChangeSafe, UserChangeKeeps
    <3>6. roles[role].active /\ Full(Held(role))
      BY <3>2, <3>5
    <3>7. u \in Administrators'
      BY <1>3, <1>5, <1>6, <3>2, <3>4, <3>6 DEF Administrators, Held, Full
    <3> QED
      BY <3>7 DEF AdministratorRemains
  <2> QED
    BY <2>2, <2>3
<1> QED
  BY <1>7, <1>8, <1>9, <1>10 DEF AdminInv

\* A new user takes nothing away from the others.
LEMMA CommitNewUserKeeps ==
  ASSUME AdminInv, NEW a \in Users, CommitNewUser(a)
  PROVE  AdminInv'
<1> DEFINE q == asked[a]
           u == q.user
           new == [exists |-> TRUE, active |-> TRUE, role |-> q.role]
<1>1. q.kind = "createUser" /\ q # NoRequest
  BY DEF CommitNewUser, NoRequest
<1>2. u \in Users /\ q.role \in Roles
  BY <1>1 DEF AdminInv, AllSafe, Safe, NoRequest
<1>3. users' = [users EXCEPT ![u] = new] /\ ~users[u].exists /\ roles[q.role].exists
  BY DEF CommitNewUser
<1>4. UNCHANGED <<roles, grants, replaced>>
  BY DEF CommitNewUser
<1>5. /\ users' \in [Users -> [exists : BOOLEAN, active : BOOLEAN, role : Roles]]
      /\ \A v \in Users \ {u} : users'[v] = users[v]
      /\ users'[u] = new
  BY <1>2, <1>3 DEF AdminInv, Typed
<1>6. AllSafe' /\ OneAsked' /\ DOMAIN asked' = Users
  BY <1>1, DoneKeeps DEF CommitNewUser
<1>7. Typed'
  BY <1>4, <1>5, <1>6 DEF AdminInv, Typed
<1>8. RolesExist'
  BY <1>3, <1>4, <1>5 DEF AdminInv, RolesExist
<1>9. \A v \in Administrators : v \in Administrators'
  BY <1>3, <1>4, <1>5 DEF Administrators, Held, Full
<1> QED
  BY <1>6, <1>7, <1>8, <1>9 DEF AdminInv, AdministratorRemains

\* After a replacement has deleted the rows it sees, it still may be made.
LEMMA ReplaceKeeps ==
  ASSUME AdminInv, NEW a \in Users, Replace(a)
  PROVE  AdminInv'
<1> DEFINE q == asked[a]
           sees == {g \in grants : g[1] = q.role}
           next == [kind |-> "replacing", role |-> q.role, name |-> q.name, active |-> q.active,
                    keys |-> q.keys, sees |-> sees]
<1>1. q.kind = "updateRole" /\ q.keys # Keep /\ q # NoRequest
  BY DEF Replace, NoRequest
<1>2. RoleChangeSafe(q)
  BY <1>1 DEF AdminInv, AllSafe, Safe, NoRequest
<1>3. asked' = [asked EXCEPT ![a] = next] /\ UNCHANGED <<users, roles, grants, replaced>>
  BY DEF Replace
<1>4. DOMAIN asked = Users
  BY DEF AdminInv, Typed
<1>5. asked'[a] = next /\ \A b \in Users \ {a} : Idle(asked'[b])
  BY <1>1, <1>3, <1>4 DEF AdminInv, OneAsked, Idle
<1>6. Typed'
  BY <1>3, <1>4 DEF AdminInv, Typed
<1>7. RolesExist' /\ AdministratorRemains'
  BY <1>3 DEF AdminInv, RolesExist, AdministratorRemains, Administrators, Held, Full
<1>8. OneAsked'
  BY <1>5 DEF OneAsked, Idle
<1>9. AllSafe'
  <2> SUFFICES ASSUME NEW b \in Users PROVE Safe(asked[b])'
    BY DEF AllSafe
  <2>1. CASE b # a
    BY <1>5, <2>1 DEF Safe, Idle
  <2>2. CASE b = a
    <3>1. PICK n : n = next
      OBVIOUS
    <3>2. asked'[b] = n
      BY <1>5, <2>2, <3>1
    <3>3. RoleChangeSafe(n)
      BY <1>2, <3>1 DEF RoleChangeSafe
    <3>4. RoleChangeSafe(n)'
      BY <1>3, <3>3 DEF RoleChangeSafe, RoleChangeKeeps, Administrators, Held, Full
    <3>5. n.kind = "replacing" /\ n.keys # Keep /\ n.sees = {g \in grants' : g[1] = n.role}
      BY <1>1, <1>3, <3>1
    <3> QED
      BY <3>2, <3>4, <3>5 DEF Safe, RoleChangeSafe
  <2> QED
    BY <2>1, <2>2
<1> QED
  BY <1>6, <1>7, <1>8, <1>9 DEF AdminInv

\* Rows of one role say nothing about what another one holds.
LEMMA OthersHold ==
  ASSUME NEW r, \A g : g[1] # r => (g \in grants' <=> g \in grants),
         NEW s, s # r
  PROVE  Held(s)' = Held(s)
<1>1. {g \in grants' : g[1] = s} = {g \in grants : g[1] = s}
  OBVIOUS
<1> QED
  BY <1>1 DEF Held

\* A replacement leaves the role exactly the permissions it writes.
LEMMA ReplacedHold ==
  ASSUME NEW r \in Roles, NEW keys \in SUBSET Permissions, NEW n \in Nat,
         grants' = (grants \ {g \in grants : g[1] = r}) \cup {<<r, p, n>> : p \in keys}
  PROVE  Held(r)' = keys
<1> DEFINE rows == {g \in grants' : g[1] = r}
<1>1. \A g \in rows : g[2] \in keys
  OBVIOUS
<1>2. \A p \in keys : <<r, p, n>> \in rows
  OBVIOUS
<1>3. \A p \in keys : p = <<r, p, n>>[2]
  OBVIOUS
<1>4. {g[2] : g \in rows} = keys
  BY <1>1, <1>2, <1>3, Zenon
<1> QED
  BY <1>4 DEF Held

\* A role's change is written: if it takes administrators away, others remain.
LEMMA CommitRoleKeeps ==
  ASSUME AdminInv, NEW a \in Users, CommitRole(a)
  PROVE  AdminInv'
<1>0. PICK q : q = asked[a]
  OBVIOUS
<1> DEFINE r == q.role
           active == IF q.active = Keep THEN roles[r].active ELSE q.active
           name == IF q.name = Keep THEN roles[r].name ELSE q.name
           written == {<<r, p, replaced + 1>> : p \in q.keys}
<1>1. /\ q.kind = "replacing" \/ (q.kind = "updateRole" /\ q.keys = Keep)
      /\ q # NoRequest
  BY <1>0 DEF CommitRole, NoRequest
<1>2. RoleChangeSafe(q) /\ (q.keys # Keep => q.sees = {g \in grants : g[1] = r})
  BY <1>0, <1>1 DEF AdminInv, AllSafe, Safe, NoRequest
<1>3. r \in Roles /\ active \in BOOLEAN /\ name \in SystemRoles \cup Names \cup {Keep}
  BY <1>2, KeepAssumption DEF RoleChangeSafe, AdminInv, Typed
<1>4. roles' = [roles EXCEPT ![r] = [exists |-> TRUE, active |-> active, name |-> name]]
  BY <1>0 DEF CommitRole, Edited
<1>5. /\ roles' \in [Roles -> [exists : BOOLEAN, active : BOOLEAN, name : SystemRoles \cup Names \cup {Keep}]]
      /\ \A s \in Roles \ {r} : roles'[s] = roles[s]
      /\ roles'[r].exists /\ roles'[r].active = active
  <2>1. roles \in [Roles -> [exists : BOOLEAN, active : BOOLEAN, name : SystemRoles \cup Names \cup {Keep}]]
    BY DEF AdminInv, Typed
  <2> HIDE DEF r, active, name
  <2> QED
    BY <1>3, <1>4, <2>1
<1>6. users' = users
  BY DEF CommitRole
<1>7. AllSafe' /\ OneAsked' /\ DOMAIN asked' = Users
  BY <1>0, <1>1, DoneKeeps DEF CommitRole
<1>8. RolesExist'
  BY <1>3, <1>5, <1>6 DEF AdminInv, RolesExist, Typed
<1>9. /\ Typed'
      /\ \A s \in Roles \ {r} : Held(s)' = Held(s)
      /\ Held(r)' = IF q.keys = Keep THEN Held(r) ELSE q.keys
  <2>1. CASE q.keys = Keep
    <3>1. grants' = grants /\ replaced' = replaced
      BY <1>0, <2>1 DEF CommitRole, Remaining
    <3>2. Typed'
      BY <1>5, <1>6, <1>7, <3>1 DEF AdminInv, Typed
    <3>3. \A s : Held(s)' = Held(s)
      BY <3>1 DEF Held
    <3> QED
      BY <2>1, <3>2, <3>3
  <2>2. CASE q.keys # Keep
    <3>1. q.keys \in SUBSET Permissions
      BY <1>2, <2>2 DEF RoleChangeSafe
    <3>2. grants' = (grants \ {g \in grants : g[1] = r}) \cup written /\ replaced' = replaced + 1
      BY <1>0, <1>2, <2>2 DEF CommitRole, Remaining
    <3>3. grants' \subseteq Roles \X Permissions \X Nat
      BY <1>3, <3>1, <3>2 DEF AdminInv, Typed
    <3>4. Typed'
      BY <1>5, <1>6, <1>7, <3>2, <3>3 DEF AdminInv, Typed
    <3>5. \A g : g[1] # r => (g \in grants' <=> g \in grants)
      BY <3>2
    <3>6. \A s \in Roles \ {r} : Held(s)' = Held(s)
      BY <3>5, OthersHold
    <3>7. replaced + 1 \in Nat
      BY DEF AdminInv, Typed
    <3>8. Held(r)' = q.keys
      BY <1>3, <3>1, <3>2, <3>7, ReplacedHold
    <3> QED
      BY <2>2, <3>4, <3>6, <3>8
  <2> QED
    BY <2>1, <2>2
<1>10. AdministratorRemains'
  <2>1. ASSUME NEW v \in Administrators, users[v].role # r
        PROVE  v \in Administrators'
    <3>1. users[v].role \in Roles \ {r}
      BY <2>1 DEF Administrators, AdminInv, Typed
    <3>2. Held(users[v].role)' = Held(users[v].role)
      BY <1>6, <1>9, <3>1
    <3>3. Full(Held(users[v].role)')
      BY <3>2 DEF Administrators
    <3> QED
      BY <1>5, <1>6, <3>1, <3>3 DEF Administrators, Full
  <2>2. CASE {v \in Administrators : users[v].role # r} # {}
    BY <2>1, <2>2 DEF AdministratorRemains
  <2>3. CASE {v \in Administrators : users[v].role # r} = {}
    <3>1. PICK v \in Administrators : users[v].role = r
      BY <2>3 DEF AdminInv, AdministratorRemains
    <3>2. v \in Users /\ users[v].exists /\ users[v].active /\ roles[r].active /\ Full(Held(r))
      BY <3>1 DEF Administrators
    <3>3. q.keys # Keep => Full(q.keys)
      BY <1>2, <2>3, <3>2 DEF RoleChangeSafe, RoleChangeKeeps
    <3>4. q.active # FALSE
      BY <1>2, <2>3, <3>2, EmptyNotFull DEF RoleChangeSafe, RoleChangeKeeps
    <3>5. active = TRUE
      BY <1>2, <3>2, <3>4 DEF RoleChangeSafe
    <3>6. Full(Held(r)')
      BY <1>9, <3>2, <3>3
    <3>7. v \in Administrators'
      BY <1>5, <1>6, <3>1, <3>2, <3>5, <3>6 DEF Administrators, Full
    <3> QED
      BY <3>7 DEF AdministratorRemains
  <2> QED
    BY <2>2, <2>3
<1> QED
  BY <1>7, <1>8, <1>9, <1>10 DEF AdminInv

\* Nobody has a role that is only now created, so nobody loses anything.
LEMMA CommitNewRoleKeeps ==
  ASSUME AdminInv, NEW a \in Users, CommitNewRole(a)
  PROVE  AdminInv'
<1>1. PICK q : q = asked[a]
  OBVIOUS
<1> DEFINE r == q.role
           new == [exists |-> TRUE, active |-> q.active, name |-> q.name]
<1>2. q.kind = "createRole" /\ q # NoRequest /\ ~roles[r].exists
  BY <1>1 DEF CommitNewRole, NoRequest
<1>3. r \in Roles /\ q.name \in Names /\ q.active \in BOOLEAN /\ q.keys \subseteq Permissions
  BY <1>1, <1>2 DEF AdminInv, AllSafe, Safe, NoRequest
<1>4. /\ roles' = [roles EXCEPT ![r] = new] /\ users' = users
      /\ grants' = grants \cup {<<r, p, replaced + 1>> : p \in q.keys} /\ replaced' = replaced + 1
  BY <1>1 DEF CommitNewRole
<1>5. /\ roles' \in [Roles -> [exists : BOOLEAN, active : BOOLEAN, name : SystemRoles \cup Names \cup {Keep}]]
      /\ \A s \in Roles \ {r} : roles'[s] = roles[s]
      /\ roles'[r].exists
  BY <1>3, <1>4 DEF AdminInv, Typed
<1>6. AllSafe' /\ OneAsked' /\ DOMAIN asked' = Users
  BY <1>1, <1>2, DoneKeeps DEF CommitNewRole
<1>7. grants' \subseteq Roles \X Permissions \X Nat
  BY <1>3, <1>4 DEF AdminInv, Typed
<1>8. Typed'
  BY <1>4, <1>5, <1>6, <1>7 DEF AdminInv, Typed
<1>9. RolesExist'
  BY <1>2, <1>4, <1>5 DEF AdminInv, RolesExist, Typed
<1>10. \A g : g[1] # r => (g \in grants' <=> g \in grants)
  BY <1>4
<1>11. ASSUME NEW v \in Administrators PROVE v \in Administrators'
  <2>1. v \in Users /\ users[v].exists /\ users[v].role \in Roles
    BY DEF Administrators, AdminInv, Typed
  <2>2. users[v].role # r
    BY <1>2, <2>1 DEF AdminInv, RolesExist
  <2>3. Held(users[v].role)' = Held(users[v].role)
    BY <1>4, <1>10, <2>2, OthersHold
  <2> QED
    BY <1>4, <1>5, <2>1, <2>2, <2>3 DEF Administrators, Full
<1> QED
  BY <1>6, <1>8, <1>9, <1>11 DEF AdminInv, AdministratorRemains

\* Nobody has a role that is deleted.
LEMMA CommitDeleteKeeps ==
  ASSUME AdminInv, NEW a \in Users, CommitDelete(a)
  PROVE  AdminInv'
<1>1. PICK q : q = asked[a]
  OBVIOUS
<1> DEFINE r == q.role
           gone == [exists |-> FALSE, active |-> TRUE, name |-> Keep]
<1>2. q.kind = "deleteRole" /\ q # NoRequest
  BY <1>1 DEF CommitDelete, NoRequest
<1>3. r \in Roles
  BY <1>1, <1>2 DEF AdminInv, AllSafe, Safe, NoRequest
<1>4. /\ roles' = [roles EXCEPT ![r] = gone] /\ users' = users /\ replaced' = replaced
      /\ grants' = {g \in grants : g[1] # r}
      /\ \A u \in Users : users[u].exists => users[u].role # r
  BY <1>1 DEF CommitDelete
<1>5. /\ roles' \in [Roles -> [exists : BOOLEAN, active : BOOLEAN, name : SystemRoles \cup Names \cup {Keep}]]
      /\ \A s \in Roles \ {r} : roles'[s] = roles[s]
  BY <1>3, <1>4 DEF AdminInv, Typed
<1>6. AllSafe' /\ OneAsked' /\ DOMAIN asked' = Users
  BY <1>1, <1>2, DoneKeeps DEF CommitDelete
<1>7. Typed'
  BY <1>4, <1>5, <1>6 DEF AdminInv, Typed
<1>8. RolesExist'
  BY <1>4, <1>5 DEF AdminInv, RolesExist, Typed
<1>9. \A g : g[1] # r => (g \in grants' <=> g \in grants)
  BY <1>4
<1>10. ASSUME NEW v \in Administrators PROVE v \in Administrators'
  <2>1. v \in Users /\ users[v].exists /\ users[v].role \in Roles
    BY DEF Administrators, AdminInv, Typed
  <2>2. users[v].role # r
    BY <1>4, <2>1
  <2>3. Held(users[v].role)' = Held(users[v].role)
    BY <1>4, <1>9, <2>2, OthersHold
  <2> QED
    BY <1>4, <1>5, <2>1, <2>2, <2>3 DEF Administrators, Full
<1> QED
  BY <1>6, <1>7, <1>8, <1>10 DEF AdminInv, AdministratorRemains

\* A revocation and a request that fails only end the request.
LEMMA EndKeeps ==
  ASSUME AdminInv, NEW a \in Users, Revoke(a) \/ Abort(a)
  PROVE  AdminInv'
<1>1. asked' = [asked EXCEPT ![a] = NoRequest] /\ UNCHANGED <<users, roles, grants, replaced>>
  BY DEF Revoke, Abort, Done
<1>2. DOMAIN asked = Users /\ AllSafe /\ OneAsked
  BY DEF AdminInv, Typed
<1>3. ASSUME NEW b \in Users PROVE asked'[b] = asked[b] \/ asked'[b] = NoRequest
  BY <1>1, <1>2
<1>4. OneAsked' /\ DOMAIN asked' = Users
  BY <1>1, <1>2, <1>3 DEF OneAsked, Idle
<1>5. AllSafe'
  <2> SUFFICES ASSUME NEW b \in Users PROVE Safe(asked[b])'
    BY DEF AllSafe
  <2>1. PICK q : q = asked'[b]
    OBVIOUS
  <2>2. Safe(q)
    BY <1>2, <1>3, <2>1 DEF AllSafe, Safe
  <2>3. Safe(q)'
    BY <1>1, <2>2, SafeKept
  <2> QED
    BY <2>1, <2>3 DEF Safe, UserChangeSafe, RoleChangeSafe
<1> QED
  BY <1>1, <1>4, <1>5 DEF AdminInv, Typed, RolesExist, AdministratorRemains, Administrators, Held, Full

\* What leaves all but the sessions alone.
LEMMA OthersKeep ==
  ASSUME AdminInv, UNCHANGED <<users, roles, grants, asked, replaced>>
  PROVE  AdminInv'
<1>1. Typed' /\ RolesExist' /\ AdministratorRemains' /\ OneAsked'
  BY DEF AdminInv, Typed, RolesExist, AdministratorRemains, Administrators, Held, Full, OneAsked, Idle
<1>2. AllSafe'
  <2> SUFFICES ASSUME NEW b \in Users PROVE Safe(asked[b])'
    BY DEF AllSafe
  <2>1. PICK q : q = asked[b]
    OBVIOUS
  <2>2. Safe(q)'
    BY <2>1, SafeKept DEF AdminInv, AllSafe
  <2> QED
    BY <2>1, <2>2 DEF Safe, UserChangeSafe, RoleChangeSafe
<1> QED
  BY <1>1, <1>2 DEF AdminInv

-----------------------------------------------------------------------------
\* Each of the checks establishes what its request relies on.
LEMMA AskUserKeeps ==
  ASSUME Overlap = FALSE, AdminInv, NEW a \in Users, NEW u \in Users,
         NEW active \in {Keep, TRUE, FALSE}, NEW role \in Roles \cup {Keep},
         UpdateUser(a, u, active, role)
  PROVE  AdminInv'
<1> DEFINE to == IF role # Keep /\ role # users[u].role THEN role ELSE Keep
<1>1. PICK q : q = [kind |-> "updateUser", user |-> u, active |-> active, role |-> to]
  OBVIOUS
<1>2. Asks(a, q)
  BY <1>1 DEF UpdateUser
<1>3. UserChangeSafe(q)
  BY <1>1 DEF UpdateUser, UserChangeSafe, Assignable
<1>4. Safe(q)
  BY <1>1, <1>3 DEF Safe
<1> QED
  BY <1>2, <1>4, AskKeeps

LEMMA AskRoleKeeps ==
  ASSUME Overlap = FALSE, AdminInv, NEW a \in Users, NEW r \in Roles, NEW name \in Names \cup {Keep},
         NEW keys \in (SUBSET Permissions) \cup {Keep}, NEW active \in {Keep, TRUE, FALSE},
         UpdateRole(a, r, name, keys, active)
  PROVE  AdminInv'
<1> DEFINE to == IF keys # Keep /\ keys # Held(r) THEN keys ELSE Keep
<1>1. PICK q : q = [kind |-> "updateRole", role |-> r, name |-> name, active |-> active, keys |-> to]
  OBVIOUS
<1>2. Asks(a, q)
  BY <1>1 DEF UpdateRole
<1>3. RoleChangeSafe(q)
  BY <1>1 DEF UpdateRole, RoleChangeSafe
<1>4. Safe(q)
  BY <1>1, <1>3 DEF Safe
<1> QED
  BY <1>2, <1>4, AskKeeps

LEMMA AskNewRoleKeeps ==
  ASSUME Overlap = FALSE, AdminInv, NEW a \in Users, NEW r \in Roles, NEW name \in Names,
         NEW keys, keys \subseteq Permissions, NEW active \in BOOLEAN,
         CreateRole(a, r, name, keys, active)
  PROVE  AdminInv'
<1>1. PICK q : q = [kind |-> "createRole", role |-> r, name |-> name, keys |-> keys, active |-> active]
  OBVIOUS
<1>2. Asks(a, q)
  BY <1>1 DEF CreateRole
<1>3. Safe(q)
  BY <1>1 DEF Safe
<1> QED
  BY <1>2, <1>3, AskKeeps

LEMMA HeldPermissions ==
  ASSUME AdminInv, NEW r PROVE Held(r) \subseteq Permissions
  BY DEF AdminInv, Typed, Held

LEMMA AskOtherKeeps ==
  ASSUME Overlap = FALSE, AdminInv, NEW a \in Users, NEW u \in Users, NEW r \in Roles,
         CreateUser(a, u, r) \/ ResetPassword(a, u) \/ DeleteRole(a, r)
  PROVE  AdminInv'
<1>1. CASE CreateUser(a, u, r)
  <2>1. PICK q : q = [kind |-> "createUser", user |-> u, role |-> r]
    OBVIOUS
  <2>2. Asks(a, q) /\ Safe(q)
    BY <1>1, <2>1 DEF CreateUser, Safe
  <2> QED
    BY <2>2, AskKeeps
<1>2. CASE ResetPassword(a, u)
  <2>1. PICK q : q = [kind |-> "revoke", user |-> u]
    OBVIOUS
  <2>2. Asks(a, q) /\ Safe(q)
    BY <1>2, <2>1 DEF ResetPassword, Safe
  <2> QED
    BY <2>2, AskKeeps
<1>3. CASE DeleteRole(a, r)
  <2>1. PICK q : q = [kind |-> "deleteRole", role |-> r]
    OBVIOUS
  <2>2. Asks(a, q) /\ Safe(q)
    BY <1>3, <2>1 DEF DeleteRole, Safe
  <2> QED
    BY <2>2, AskKeeps
<1> QED
  BY <1>1, <1>2, <1>3

LEMMA NextAdmin ==
  ASSUME Overlap = FALSE, AdminInv, [Next]_vars
  PROVE  AdminInv'
<1>1. ASSUME NEW a \in Users, NEW u \in Users, NEW active \in {Keep, TRUE, FALSE},
             NEW role \in Roles \cup {Keep}, UpdateUser(a, u, active, role)
      PROVE  AdminInv'
  BY <1>1, AskUserKeeps
<1>2. ASSUME NEW a \in Users, NEW u \in Users, NEW r \in Roles,
             CreateUser(a, u, r) \/ ResetPassword(a, u) \/ DeleteRole(a, r)
      PROVE  AdminInv'
  BY <1>2, AskOtherKeeps
<1>3. ASSUME NEW a \in Users, NEW r \in Roles, NEW name \in Names \cup {Keep},
             NEW keys \in (SUBSET Permissions) \cup {Keep}, NEW active \in {Keep, TRUE, FALSE},
             UpdateRole(a, r, name, keys, active)
      PROVE  AdminInv'
  BY <1>3, AskRoleKeeps
<1>4. ASSUME NEW a \in Users, NEW r \in Roles, NEW name \in Names, NEW keys \in SUBSET Permissions,
             CreateRole(a, r, name, keys, TRUE)
      PROVE  AdminInv'
  BY <1>4, AskNewRoleKeeps
<1>5. ASSUME NEW a \in Users, NEW source \in Roles, NEW r \in Roles, NEW name \in Names,
             NEW active \in BOOLEAN, DuplicateRole(a, source, r, name, active)
      PROVE  AdminInv'
  <2>1. PICK keys : keys = Held(source)
    OBVIOUS
  <2>2. CreateRole(a, r, name, keys, active) /\ keys \subseteq Permissions
    BY <1>5, <2>1, HeldPermissions DEF DuplicateRole
  <2> QED
    BY <2>2, AskNewRoleKeeps
<1>6. ASSUME NEW a \in Users,
             \/ CommitUser(a) \/ Revoke(a) \/ CommitNewUser(a) \/ Replace(a) \/ CommitRole(a)
             \/ CommitNewRole(a) \/ CommitDelete(a) \/ Abort(a)
      PROVE  AdminInv'
  BY <1>6, CommitUserKeeps, EndKeeps, CommitNewUserKeeps, ReplaceKeeps, CommitRoleKeeps,
     CommitNewRoleKeeps, CommitDeleteKeeps
<1>7. ASSUME NEW u \in Users, Verify(u) \/ SaveSession(u) \/ SignInFails(u) \/ Dropped(u) \/ SignOut(u)
      PROVE  AdminInv'
  BY <1>7, OthersKeep DEF Verify, SaveSession, SignInFails, Ends, Dropped, SignOut
<1>8. CASE UNCHANGED vars
  BY <1>8, OthersKeep DEF vars
<1> QED
  BY <1>1, <1>2, <1>3, <1>4, <1>5, <1>6, <1>7, <1>8, SeedAssumption DEF Next

\* While no two transactions overlap, whatever sequence of deactivations, reassignments, permission
\* changes, deletions and failures: an active user with full administrative capability remains.
THEOREM AdministratorAlwaysRemains ==
  ASSUME Overlap = FALSE
  PROVE  Spec => []AdministratorRemains
<1>1. Init => AdminInv
  BY InitAdmin
<1>2. AdminInv /\ [Next]_vars => AdminInv'
  BY NextAdmin
<1>3. AdminInv => AdministratorRemains
  BY DEF AdminInv
<1> QED
  BY <1>1, <1>2, <1>3, PTL DEF Spec

-----------------------------------------------------------------------------
(* Sessions and the roles of their users; requests may overlap here. *)

Revocation(u) == [kind |-> "revoke", user |-> u]

\* Whoever is signed in or signing in exists, and is what it was then, or about to be signed out,
\* or among those who escaped.
SessionInv ==
  /\ DOMAIN users = Users /\ DOMAIN sessions = Users /\ DOMAIN signing = Users /\ DOMAIN asked = Users
  /\ \A u \in Users : sessions[u] # Keep \/ signing[u] # Keep => users[u].exists
  /\ \A u \in Users : sessions[u] = Keep \/ signing[u] = Keep
  /\ \A u \in Users : Stale(u) => u \in escaped \/ \E a \in Users : asked[a] = Revocation(u)

\* Nobody is signed in at first.
LEMMA InitSession == Init => SessionInv
  BY DEF Init, SessionInv, Stale

\* The revocations under way stay, nobody else is signed in and nobody has another role.
LEMMA RevocationsStay ==
  ASSUME SessionInv, UNCHANGED <<users, signIns>>, DOMAIN asked' = Users,
         \A a, u \in Users : asked[a] = Revocation(u) => asked'[a] = Revocation(u)
  PROVE  SessionInv'
<1>1. ASSUME NEW u \in Users, Stale(u)' PROVE u \in escaped' \/ \E a \in Users : asked'[a] = Revocation(u)
  BY <1>1 DEF SessionInv, Stale, signIns
<1> QED
  BY <1>1 DEF SessionInv, Revocation, signIns

\* A request that is not a revocation goes on to another state.
LEMMA OtherRequest ==
  ASSUME SessionInv, NEW a \in Users, asked[a].kind # "revoke", NEW next, asked' = [asked EXCEPT ![a] = next]
  PROVE  DOMAIN asked' = Users /\ \A b, u \in Users : asked[b] = Revocation(u) => asked'[b] = Revocation(u)
  BY DEF SessionInv, Revocation

\* Who has no request asks for no revocation.
LEMMA NoRevocation == NoRequest.kind # "revoke"
  BY DEF NoRequest

\* A request is checked and written down.
LEMMA SessionAsk ==
  ASSUME SessionInv, NEW a \in Users, NEW q, Asks(a, q)
  PROVE  SessionInv'
<1>1. asked[a].kind # "revoke" /\ asked' = [asked EXCEPT ![a] = q] /\ UNCHANGED <<users, signIns>>
  BY NoRevocation DEF Asks
<1> QED
  BY <1>1, OtherRequest, RevocationsStay

\* A change of role signs nobody out by itself: it asks for the revocation.
LEMMA SessionUser ==
  ASSUME SessionInv, NEW a \in Users, CommitUser(a)
  PROVE  SessionInv'
<1>1. PICK q : q = asked[a]
  OBVIOUS
<1>2. PICK row : row = Changed(users[q.user], q)
  OBVIOUS
<1>3. PICK next : next = IF q.role = Keep THEN NoRequest ELSE Revocation(q.user)
  OBVIOUS
<1>4. /\ q.kind # "revoke" /\ sessions' = sessions /\ signing' = signing /\ escaped' = escaped
      /\ users' = [users EXCEPT ![q.user] = row] /\ asked' = [asked EXCEPT ![a] = next]
  BY <1>1, <1>2, <1>3 DEF CommitUser, Done, Revocation, signIns
<1>5. row.exists = TRUE /\ row.role = IF q.role = Keep THEN users[q.user].role ELSE q.role
  BY <1>2 DEF Changed
<1>6. DOMAIN asked' = Users /\ \A b, u \in Users : asked[b] = Revocation(u) => asked'[b] = Revocation(u)
  BY <1>1, <1>4, OtherRequest
<1>7. asked'[a] = next
  BY <1>4 DEF SessionInv
<1>8. DOMAIN users' = Users /\ DOMAIN sessions' = Users /\ DOMAIN signing' = Users
  BY <1>4 DEF SessionInv
<1>9. ASSUME NEW u \in Users PROVE users'[u] = IF u = q.user THEN row ELSE users[u]
  BY <1>4 DEF SessionInv
<1>10. \A u \in Users : sessions'[u] # Keep \/ signing'[u] # Keep => users'[u].exists
  BY <1>4, <1>5, <1>9 DEF SessionInv
<1>11. ASSUME NEW u \in Users, Stale(u)'
       PROVE  u \in escaped' \/ \E b \in Users : asked'[b] = Revocation(u)
  <2>1. CASE u = q.user /\ q.role # Keep
    BY <1>3, <1>7, <2>1
  <2>2. CASE ~(u = q.user /\ q.role # Keep)
    <3>1. users'[u].role = users[u].role
      BY <1>5, <1>9, <2>2
    <3>2. Stale(u)
      BY <1>4, <1>11, <3>1 DEF Stale
    <3> QED
      BY <1>4, <1>6, <3>2 DEF SessionInv
  <2> QED
    BY <2>1, <2>2
<1>12. \A u \in Users : sessions'[u] = Keep \/ signing'[u] = Keep
  BY <1>4 DEF SessionInv
<1> QED
  BY <1>12, <1>6, <1>8, <1>10, <1>11 DEF SessionInv, Revocation

\* The new user was not signed in.
LEMMA SessionNewUser ==
  ASSUME SessionInv, NEW a \in Users, CommitNewUser(a)
  PROVE  SessionInv'
<1>1. PICK q : q = asked[a]
  OBVIOUS
<1>2. PICK row : row = [exists |-> TRUE, active |-> TRUE, role |-> q.role]
  OBVIOUS
<1>3. /\ q.kind # "revoke" /\ ~users[q.user].exists
      /\ sessions' = sessions /\ signing' = signing /\ escaped' = escaped
      /\ users' = [users EXCEPT ![q.user] = row] /\ asked' = [asked EXCEPT ![a] = NoRequest]
  BY <1>1, <1>2 DEF CommitNewUser, Done, signIns
<1>4. DOMAIN asked' = Users /\ \A b, u \in Users : asked[b] = Revocation(u) => asked'[b] = Revocation(u)
  BY <1>1, <1>3, OtherRequest
<1>5. DOMAIN users' = Users /\ DOMAIN sessions' = Users /\ DOMAIN signing' = Users
  BY <1>3 DEF SessionInv
<1>6. ASSUME NEW u \in Users, sessions[u] # Keep \/ signing[u] # Keep PROVE users'[u] = users[u]
  BY <1>3, <1>6 DEF SessionInv
<1>7. \A u \in Users : sessions'[u] # Keep \/ signing'[u] # Keep => users'[u].exists
  BY <1>3, <1>6 DEF SessionInv
<1>8. ASSUME NEW u \in Users, Stale(u)'
      PROVE  u \in escaped' \/ \E b \in Users : asked'[b] = Revocation(u)
  <2>1. sessions[u] # Keep \/ signing[u] # Keep
    BY <1>3, <1>8 DEF Stale
  <2>2. Stale(u)
    BY <1>3, <1>6, <1>8, <2>1 DEF Stale
  <2> QED
    BY <1>3, <1>4, <2>2 DEF SessionInv
<1>9. \A u \in Users : sessions'[u] = Keep \/ signing'[u] = Keep
  BY <1>3 DEF SessionInv
<1> QED
  BY <1>9, <1>4, <1>5, <1>7, <1>8 DEF SessionInv, Revocation

\* Whose sessions are deleted needs no revocation any more, unless a sign-in is missed.
LEMMA SessionRevoke ==
  ASSUME SessionInv, NEW a \in Users, Revoke(a)
  PROVE  SessionInv'
<1>1. PICK q : q = asked[a]
  OBVIOUS
<1>2. /\ q.kind = "revoke" /\ users' = users /\ sessions' = [sessions EXCEPT ![q.user] = Keep] /\ signing' = signing
      /\ escaped' = IF signing[q.user] \in {Keep, users[q.user].role} THEN escaped \ {q.user} ELSE escaped \cup {q.user}
      /\ asked' = [asked EXCEPT ![a] = NoRequest]
  BY <1>1 DEF Revoke, Done
<1>3. /\ DOMAIN users' = Users /\ DOMAIN sessions' = Users /\ DOMAIN signing' = Users /\ DOMAIN asked' = Users
      /\ \A b \in Users \ {a} : asked'[b] = asked[b]
  BY <1>2 DEF SessionInv
<1>4. ASSUME NEW u \in Users PROVE sessions'[u] = IF u = q.user THEN Keep ELSE sessions[u]
  BY <1>2 DEF SessionInv
<1>5. \A u \in Users : sessions'[u] # Keep \/ signing'[u] # Keep => users'[u].exists
  BY <1>2, <1>4 DEF SessionInv
<1>6. ASSUME NEW u \in Users, Stale(u)'
      PROVE  u \in escaped' \/ \E b \in Users : asked'[b] = Revocation(u)
  <2>1. CASE u = q.user
    <3>1. signing[u] \notin {Keep, users[u].role}
      BY <1>2, <1>4, <1>6, <2>1 DEF Stale
    <3> QED
      BY <1>2, <2>1, <3>1
  <2>2. CASE u # q.user
    <3>1. Stale(u)
      BY <1>2, <1>4, <1>6, <2>2 DEF Stale
    <3>2. u \in escaped => u \in escaped'
      BY <1>2, <2>2
    <3>3. ASSUME NEW b \in Users, asked[b] = Revocation(u) PROVE b # a
      BY <1>1, <2>2, <3>3 DEF Revocation
    <3> QED
      BY <1>3, <3>1, <3>2, <3>3 DEF SessionInv
  <2> QED
    BY <2>1, <2>2
<1>7. \A u \in Users : sessions'[u] = Keep \/ signing'[u] = Keep
  BY <1>2, <1>4 DEF SessionInv
<1> QED
  BY <1>7, <1>3, <1>5, <1>6 DEF SessionInv, Revocation

\* A request that fails: if it was a revocation that was needed, its user escapes.
LEMMA SessionAbort ==
  ASSUME SessionInv, NEW a \in Users, Abort(a)
  PROVE  SessionInv'
<1>1. /\ users' = users /\ sessions' = sessions /\ signing' = signing
      /\ asked' = [asked EXCEPT ![a] = NoRequest]
      /\ escaped' = escaped \cup {u \in Users : asked[a] = Revocation(u) /\ Stale(u)}
  BY DEF Abort, Done, Revocation
<1>2. DOMAIN asked' = Users /\ \A b \in Users \ {a} : asked'[b] = asked[b]
  BY <1>1 DEF SessionInv
<1>3. ASSUME NEW u \in Users, Stale(u)'
      PROVE  u \in escaped' \/ \E b \in Users : asked'[b] = Revocation(u)
  <2>1. Stale(u)
    BY <1>1, <1>3 DEF Stale
  <2>2. CASE asked[a] = Revocation(u)
    BY <1>1, <2>1, <2>2
  <2>3. CASE asked[a] # Revocation(u)
    <3>1. ASSUME NEW b \in Users, asked[b] = Revocation(u) PROVE asked'[b] = Revocation(u)
      BY <1>2, <2>3, <3>1
    <3> QED
      BY <1>1, <2>1, <3>1 DEF SessionInv
  <2> QED
    BY <2>2, <2>3
<1> QED
  BY <1>1, <1>2, <1>3 DEF SessionInv, Revocation

\* Steps of one user's sign-in or session, after which it is no more stale than before or gone.
LEMMA SessionStep ==
  ASSUME SessionInv, NEW u \in Users, UNCHANGED <<users, asked>>,
         DOMAIN sessions' = Users, DOMAIN signing' = Users,
         \A v \in Users \ {u} : /\ sessions'[v] = sessions[v] /\ signing'[v] = signing[v]
                                /\ v \in escaped => v \in escaped',
         sessions'[u] # Keep \/ signing'[u] # Keep => users[u].exists,
         sessions'[u] = Keep \/ signing'[u] = Keep,
         Stale(u)' => Stale(u) /\ (u \in escaped => u \in escaped')
  PROVE  SessionInv'
<1>1. ASSUME NEW v \in Users
      PROVE  /\ sessions'[v] # Keep \/ signing'[v] # Keep => users[v].exists
             /\ sessions'[v] = Keep \/ signing'[v] = Keep
  BY DEF SessionInv
<1>2. ASSUME NEW v \in Users, Stale(v)'
      PROVE  v \in escaped' \/ \E b \in Users : asked[b] = Revocation(v)
  <2>1. Stale(v) /\ (v \in escaped => v \in escaped')
    BY <1>2 DEF Stale
  <2> QED
    BY <2>1 DEF SessionInv
<1> QED
  BY <1>1, <1>2 DEF SessionInv, Revocation

\* Signing in needs a user that exists, and starts with the role it has.
LEMMA SessionSigning ==
  ASSUME SessionInv, NEW u \in Users, Verify(u) \/ SaveSession(u) \/ SignInFails(u)
  PROVE  SessionInv'
<1>1. CASE Verify(u)
  <2>1. PICK role : role = users[u].role
    OBVIOUS
  <2>2. /\ sessions[u] = Keep /\ users[u].exists /\ signing' = [signing EXCEPT ![u] = role]
        /\ UNCHANGED <<users, sessions, escaped, asked>>
    BY <1>1, <2>1 DEF Verify
  <2>3. /\ DOMAIN signing' = Users /\ signing'[u] = role
        /\ \A v \in Users \ {u} : signing'[v] = signing[v]
    BY <2>2 DEF SessionInv
  <2>4. ~Stale(u)'
    BY <2>1, <2>2, <2>3 DEF Stale
  <2>5. DOMAIN sessions' = Users
    BY <2>2 DEF SessionInv
  <2> QED
    BY <2>2, <2>3, <2>4, <2>5, SessionStep
<1>2. CASE SaveSession(u)
  <2>1. PICK role : role = signing[u]
    OBVIOUS
  <2>2. /\ role # Keep /\ sessions' = [sessions EXCEPT ![u] = role] /\ signing' = [signing EXCEPT ![u] = Keep]
        /\ UNCHANGED <<users, escaped, asked>>
    BY <1>2, <2>1 DEF SaveSession
  <2>3. /\ DOMAIN signing' = Users /\ DOMAIN sessions' = Users /\ sessions'[u] = role /\ signing'[u] = Keep
        /\ \A v \in Users \ {u} : signing'[v] = signing[v] /\ sessions'[v] = sessions[v]
    BY <2>2 DEF SessionInv
  <2>4. Stale(u)' => Stale(u)
    BY <2>1, <2>2, <2>3 DEF Stale
  <2>5. users[u].exists
    BY <2>1, <2>2 DEF SessionInv
  <2> QED
    BY <2>2, <2>3, <2>4, <2>5, SessionStep
<1>3. CASE SignInFails(u)
  <2>1. /\ signing[u] # Keep /\ signing' = [signing EXCEPT ![u] = Keep] /\ escaped' = escaped \ {u}
        /\ UNCHANGED <<users, sessions, asked>>
    BY <1>3 DEF SignInFails
  <2>2. /\ DOMAIN signing' = Users /\ DOMAIN sessions' = Users /\ signing'[u] = Keep /\ sessions'[u] = Keep
        /\ \A v \in Users \ {u} : signing'[v] = signing[v]
    BY <2>1 DEF SessionInv
  <2>3. ~Stale(u)'
    BY <2>2 DEF Stale
  <2> QED
    BY <2>1, <2>2, <2>3, SessionStep
<1> QED
  BY <1>1, <1>2, <1>3

\* A session ends.
LEMMA SessionEnds ==
  ASSUME SessionInv, NEW u \in Users, Dropped(u) \/ SignOut(u)
  PROVE  SessionInv'
<1>1. /\ sessions[u] # Keep /\ sessions' = [sessions EXCEPT ![u] = Keep] /\ escaped' = escaped \ {u}
      /\ UNCHANGED <<users, signing, asked>>
  BY DEF Dropped, SignOut, Ends
<1>2. /\ DOMAIN sessions' = Users /\ DOMAIN signing' = Users /\ sessions'[u] = Keep /\ signing'[u] = Keep
      /\ \A v \in Users \ {u} : sessions'[v] = sessions[v]
  BY <1>1 DEF SessionInv
<1>3. ~Stale(u)'
  BY <1>2 DEF Stale
<1> QED
  BY <1>1, <1>2, <1>3, SessionStep

\* Every step keeps the sessions in line.
LEMMA NextSession ==
  ASSUME SessionInv, [Next]_vars
  PROVE  SessionInv'
<1>1. ASSUME NEW a \in Users, \E q : Asks(a, q) PROVE SessionInv'
  BY <1>1, SessionAsk
<1>2. ASSUME NEW a \in Users, NEW u \in Users, NEW r \in Roles, NEW source, NEW keys, NEW active, NEW name, NEW role,
             \/ UpdateUser(a, u, active, role) \/ CreateUser(a, u, r) \/ ResetPassword(a, u)
             \/ UpdateRole(a, r, name, keys, active) \/ CreateRole(a, r, name, keys, active)
             \/ DuplicateRole(a, source, r, name, active) \/ DeleteRole(a, r)
      PROVE  SessionInv'
  BY <1>1, <1>2 DEF UpdateUser, CreateUser, ResetPassword, UpdateRole, CreateRole, DuplicateRole, DeleteRole
<1>3. ASSUME NEW a \in Users, Replace(a) \/ CommitRole(a) \/ CommitNewRole(a) \/ CommitDelete(a)
      PROVE  SessionInv'
  <2>1. UNCHANGED <<users, signIns>> /\ asked[a].kind # "revoke"
    BY <1>3 DEF Replace, CommitRole, CommitNewRole, CommitDelete
  <2>2. \E next : asked' = [asked EXCEPT ![a] = next]
    BY <1>3 DEF Replace, CommitRole, CommitNewRole, CommitDelete, Done
  <2> QED
    BY <2>1, <2>2, OtherRequest, RevocationsStay
<1>4. CASE UNCHANGED vars
  <2>1. UNCHANGED <<users, signIns, asked>>
    BY <1>4 DEF vars, signIns
  <2>2. DOMAIN asked' = Users
    BY <2>1 DEF SessionInv
  <2> QED
    BY <2>1, <2>2, RevocationsStay
<1> QED
  BY <1>2, <1>3, <1>4, SessionUser, SessionNewUser, SessionRevoke, SessionAbort, SessionSigning, SessionEnds,
     SeedAssumption DEF Next

\* However role changes, other requests, sign-ins and revocations overlap and fail: a session,
\* stored or about to be, belongs to the role its user has, or its revocation is under way, or it
\* slipped through one of the two gaps, verified but not stored when the revocation came or left
\* by a revocation that failed.
THEOREM SessionsAlwaysFollow == Spec => []SessionFollowsRole
<1>1. SessionInv => SessionFollowsRole
  BY DEF SessionInv, SessionFollowsRole, Revocation
<1>2. SessionInv /\ [Next]_vars => SessionInv'
  BY NextSession
<1> QED
  BY <1>1, <1>2, InitSession, PTL DEF Spec

==============================================================================
