------------------------ MODULE StaffPermissionsProofs ------------------------
(***************************************************************************)
(* Proofs about StaffPermissions, for any users, groups, permissions and   *)
(* number of overlapping mutations.                                        *)
(***************************************************************************)
EXTENDS StaffPermissions, TLAPS

USE StaffAssumption

\* What is saved for a request keeps its rows well-typed and its foreign keys.
LEMMA SaveGroupTyped ==
    ASSUME NEW d \in Database, ForeignKeys(d), NEW r \in Request,
           NEW x, x = SaveGroup(d, r)
    PROVE  x \in Database /\ ForeignKeys(x)
<1> DEFINE m2m == r.add_users \subseteq d.users
<1>1. x \in Database
  BY DEF SaveGroup, Database, Request
<1>2. /\ x.users = d.users /\ x.staff = d.staff /\ x.active = d.active
      /\ x.groups = d.groups \cup { r.group }
  BY DEF SaveGroup, Database
<1>3. ASSUME NEW g \in Groups PROVE x.members[g] \subseteq d.users
  BY DEF SaveGroup, Database, Request, ForeignKeys
<1>4. ASSUME NEW g \in Groups, g # r.group
      PROVE  x.permissions[g] = d.permissions[g] /\ x.members[g] = d.members[g]
  BY <1>4 DEF SaveGroup, Database, Request
<1> QED
  BY <1>1, <1>2, <1>3, <1>4 DEF ForeignKeys

LEMMA DeleteGroupTyped ==
    ASSUME NEW d \in Database, ForeignKeys(d), NEW g \in Groups,
           NEW x, x = DeleteGroup(d, g)
    PROVE  x \in Database /\ ForeignKeys(x)
<1>1. x \in Database
  BY DEF DeleteGroup, Database
<1>2. /\ x.users = d.users /\ x.staff = d.staff /\ x.active = d.active
      /\ x.groups = d.groups \ { g }
  BY DEF DeleteGroup, Database
<1>3. x.permissions[g] = {} /\ x.members[g] = {}
  BY DEF DeleteGroup, Database
<1>4. ASSUME NEW h \in Groups, h # g
      PROVE  x.permissions[h] = d.permissions[h] /\ x.members[h] = d.members[h]
  BY <1>4 DEF DeleteGroup, Database
<1> QED
  BY <1>1, <1>2, <1>3, <1>4 DEF ForeignKeys

LEMMA SaveStaffRows ==
    ASSUME NEW d \in Database, NEW seen \in Database, NEW r \in Request,
           NEW x, x = SaveStaff(d, seen, r)
    PROVE  /\ x.users = d.users \cup r.users /\ x.staff = d.staff \cup r.users
           /\ x.groups = d.groups /\ x.permissions = d.permissions
           /\ \A u : u \in x.active <=>
                \/ u \in d.active /\ u \notin r.users
                \/ u \in r.users /\ \/ r.is_active = "on"
                                    \/ r.is_active = "kept"
                                         /\ (u \in seen.active \/ r.op = "staffCreate")
           /\ \A g \in Groups : \A u : u \in x.members[g] =>
                \/ u \in d.members[g]
                \/ u \in r.users /\ g \in r.add_groups /\ r.add_groups \subseteq d.groups
           /\ \A g \in Groups : \A u : u \in d.members[g] /\ u \notin r.users => u \in x.members[g]
BY DEF SaveStaff, Database, Request

LEMMA SaveStaffTyped ==
    ASSUME NEW d \in Database, ForeignKeys(d), NEW seen \in Database, NEW r \in Request,
           NEW x, x = SaveStaff(d, seen, r)
    PROVE  x \in Database /\ ForeignKeys(x)
<1>1. x \in Database
  BY DEF SaveStaff, Database, Request
<1>2. x.staff \subseteq x.users /\ x.active \subseteq x.users
  BY SaveStaffRows DEF ForeignKeys
<1>3. ASSUME NEW g \in Groups
      PROVE  /\ x.members[g] \subseteq d.members[g] \cup r.users
             /\ g \notin r.add_groups \/ ~(r.add_groups \subseteq d.groups)
                  => x.members[g] \subseteq d.members[g]
  BY SaveStaffRows
<1>4. ASSUME NEW g \in Groups PROVE x.members[g] \subseteq x.users
  <2>1. d.members[g] \subseteq d.users /\ x.users = d.users \cup r.users
    BY SaveStaffRows DEF ForeignKeys
  <2> QED
    BY <1>3, <2>1
<1>5. ASSUME NEW g \in Groups \ x.groups PROVE x.permissions[g] = {} /\ x.members[g] = {}
  <2>1. x.groups = d.groups /\ x.permissions = d.permissions
    BY SaveStaffRows
  <2>2. d.permissions[g] = {} /\ d.members[g] = {}
    BY <1>5, <2>1 DEF ForeignKeys
  <2> QED
    BY <1>3, <1>5, <2>1, <2>2
<1> QED
  BY <1>1, <1>2, <1>4, <1>5 DEF ForeignKeys

LEMMA DeleteUsersTyped ==
    ASSUME NEW d \in Database, ForeignKeys(d), NEW users \in SUBSET Users
    PROVE  DeleteUsers(d, users) \in Database /\ ForeignKeys(DeleteUsers(d, users))
BY DEF Database, ForeignKeys, DeleteUsers

LEMMA RemoveStaffTyped ==
    ASSUME NEW d \in Database, ForeignKeys(d), NEW seen \in Database, NEW users \in SUBSET Users
    PROVE  RemoveStaff(d, seen, users) \in Database /\ ForeignKeys(RemoveStaff(d, seen, users))
<1>1. CASE users \subseteq Buyers
  BY <1>1 DEF Database, ForeignKeys, RemoveStaff
<1>2. CASE ~(users \subseteq Buyers)
  BY <1>2, DeleteUsersTyped DEF RemoveStaff
<1> QED
  BY <1>1, <1>2

LEMMA SetActiveTyped ==
    ASSUME NEW d \in Database, ForeignKeys(d), NEW r \in Request
    PROVE  SetActive(d, r) \in Database /\ ForeignKeys(SetActive(d, r))
<1> PICK users : users = { u \in r.users \cap d.users : u # r.by /\ u \notin Superusers }
  OBVIOUS
<1>1. SetActive(d, r) = [ d EXCEPT !.active = IF r.is_active = "on" THEN @ \cup users ELSE @ \ users ]
  BY DEF SetActive
<1>2. users \subseteq d.users
  OBVIOUS
<1> QED
  BY <1>1, <1>2 DEF Database, ForeignKeys

LEMMA SavedTyped ==
    ASSUME NEW d \in Database, ForeignKeys(d), NEW seen \in Database, NEW r \in Request
    PROVE  Saved(d, seen, r) \in Database /\ ForeignKeys(Saved(d, seen, r))
<1>0. r.op \in Operation /\ r.group \in Groups /\ r.users \in SUBSET Users
  BY DEF Request
<1>1. CASE r.op \in { "permissionGroupCreate", "permissionGroupUpdate" }
  BY <1>1, SaveGroupTyped DEF Saved
<1>2. CASE r.op = "permissionGroupDelete"
  BY <1>0, <1>2, DeleteGroupTyped DEF Saved
<1>3. CASE r.op \in { "staffCreate", "staffUpdate" }
  <2>1. Saved(d, seen, r) = SaveStaff(d, seen, r) \/ Saved(d, seen, r) = d
    BY <1>3 DEF Saved
  <2> QED
    BY <2>1, SaveStaffTyped
<1>4. CASE r.op = "staffDelete"
  BY <1>0, <1>4, RemoveStaffTyped DEF Saved
<1>5. CASE r.op = "staffBulkDelete"
  BY <1>0, <1>5, DeleteUsersTyped DEF Saved
<1>6. CASE r.op = "userBulkSetActive"
  BY <1>6, SetActiveTyped DEF Saved
<1> QED
  BY <1>0, <1>1, <1>2, <1>3, <1>4, <1>5, <1>6 DEF Operation

\* Superusers are not touched, whatever was saved since the checks.
LEMMA SavedKeepsSuperusers ==
    ASSUME NEW d \in Database, ActiveStaff(d, Superusers),
           ForeignKeys(d), NEW seen \in Database, ActiveStaff(seen, Superusers),
           NEW r \in Request, Allowed(seen, r)
    PROVE  ActiveStaff(Saved(d, seen, r), Superusers)
<1>0. r.op \in Operation
  BY DEF Request
<1>1. CASE r.op \in { "permissionGroupCreate", "permissionGroupUpdate" }
  BY <1>1 DEF Saved, SaveGroup, ActiveStaff, Database
<1>2. CASE r.op = "permissionGroupDelete"
  BY <1>2 DEF Saved, DeleteGroup, ActiveStaff, Database
<1>3. CASE r.op \in { "staffCreate", "staffUpdate" }
  <2> PICK x : x = SaveStaff(d, seen, r)
    OBVIOUS
  <2>1. ASSUME NEW u \in Superusers, u \in r.users PROVE u \in x.active
    <3>1. r.is_active \in { "kept", "on", "off" }
      BY DEF Request
    <3>2. CASE r.op = "staffUpdate" /\ r.is_active = "off"
      BY <2>1, <3>2 DEF Allowed, staffUpdate, NotSelfNorSuperuser
    <3>3. CASE r.op = "staffCreate"
      BY <2>1, <3>3 DEF Allowed, staffCreate, ActiveStaff
    <3> QED
      BY <1>3, <2>1, <3>1, <3>2, <3>3, SaveStaffRows DEF ActiveStaff
  <2>2. ActiveStaff(x, Superusers)
    BY <2>1, SaveStaffRows DEF ActiveStaff
  <2>3. Saved(d, seen, r) = x \/ Saved(d, seen, r) = d
    BY <1>3 DEF Saved
  <2> QED
    BY <2>2, <2>3
<1>4. CASE r.op \in { "staffDelete", "staffBulkDelete" }
  <2>1. r.users \cap Superusers = {}
    BY <1>4 DEF Allowed, StaffRemoval, NotSelfNorSuperuser
  <2>2. ActiveStaff(DeleteUsers(d, r.users), Superusers)
    BY <2>1 DEF DeleteUsers, ActiveStaff, Database
  <2>3. ActiveStaff(RemoveStaff(d, seen, r.users), Superusers)
    BY <2>1, <2>2 DEF RemoveStaff, ActiveStaff, Database
  <2> QED
    BY <1>4, <2>2, <2>3 DEF Saved
<1>5. CASE r.op = "userBulkSetActive"
  <2> PICK users : users = { u \in r.users \cap d.users : u # r.by /\ u \notin Superusers }
    OBVIOUS
  <2>1. Saved(d, seen, r) = [ d EXCEPT !.active = IF r.is_active = "on" THEN @ \cup users ELSE @ \ users ]
    BY <1>5 DEF Saved, SetActive
  <2> QED
    BY <2>1 DEF ActiveStaff, Database
<1> QED
  BY <1>0, <1>1, <1>2, <1>3, <1>4, <1>5 DEF Operation

-----------------------------------------------------------------------------
(* The inductive invariant: what a worker is about to save was allowed for *)
(* rows that had their foreign keys and their superusers.                  *)

CheckedBeforeSaving ==
    \A w \in Workers : call[w].busy =>
        /\ Allowed(call[w].seen, call[w].request)
        /\ ForeignKeys(call[w].seen)
        /\ ActiveStaff(call[w].seen, Superusers)

Inv == TypeOK /\ SuperusersStay /\ CheckedBeforeSaving

LEMMA NoCallTyped ==
    /\ NoCall \in [ busy : BOOLEAN, request : Requests, seen : Database ]
    /\ NoCall.busy = FALSE
<1> DEFINE r == CHOOSE r \in Requests : TRUE
           d == CHOOSE d \in Initial : TRUE
<1>1. r \in Requests /\ d \in Database
  OBVIOUS
<1> HIDE DEF r, d
<1>2. NoCall = [ busy |-> FALSE, request |-> r, seen |-> d ]
  BY DEF NoCall, r, d
<1> QED
  BY <1>1, <1>2

LEMMA InvInit == Init => Inv
<1> SUFFICES ASSUME Init PROVE Inv
  OBVIOUS
<1>1. db \in Database /\ ForeignKeys(db) /\ ActiveStaff(db, Superusers)
  BY DEF Init
<1>2. call \in [ Workers -> [ busy : BOOLEAN, request : Requests, seen : Database ] ]
  BY NoCallTyped DEF Init
<1>3. \A w \in Workers : call[w].busy = FALSE
  BY NoCallTyped DEF Init
<1> QED
  BY <1>1, <1>2, <1>3 DEF Init, Inv, TypeOK, SuperusersStay, CheckedBeforeSaving

LEMMA InvCheck ==
    ASSUME Inv, NEW w \in Workers, NEW r \in Requests, Check(w, r)
    PROVE  Inv'
<1>1. db' \in Database /\ ForeignKeys(db)' /\ SuperusersStay' /\ calls' \in Nat
  BY DEF Inv, TypeOK, Check, SuperusersStay, ForeignKeys, ActiveStaff
<1> PICK c : c = [ busy |-> TRUE, request |-> r, seen |-> db ]
  OBVIOUS
<1>2. c \in [ busy : BOOLEAN, request : Requests, seen : Database ]
  BY DEF Inv, TypeOK
<1>3. call' = [ call EXCEPT ![w] = c ]
  BY DEF Check
<1>4. call' \in [ Workers -> [ busy : BOOLEAN, request : Requests, seen : Database ] ]
  BY <1>2, <1>3 DEF Inv, TypeOK
<1>5. ASSUME NEW v \in Workers, call'[v].busy
      PROVE  /\ Allowed(call'[v].seen, call'[v].request)
             /\ ForeignKeys(call'[v].seen) /\ ActiveStaff(call'[v].seen, Superusers)
  <2>1. CASE v = w
    <3>1. call'[v] = c
      BY <1>3, <2>1 DEF Inv, TypeOK
    <3>2. Allowed(db, r) /\ ForeignKeys(db) /\ ActiveStaff(db, Superusers)
      BY DEF Check, Inv, TypeOK, SuperusersStay
    <3> QED
      BY <3>1, <3>2
  <2>2. CASE v # w
    <3>1. call'[v] = call[v]
      BY <1>3, <2>2 DEF Inv, TypeOK
    <3> QED
      BY <1>5, <3>1 DEF Inv, CheckedBeforeSaving
  <2> QED
    BY <2>1, <2>2
<1>6. CheckedBeforeSaving'
  BY <1>5 DEF CheckedBeforeSaving
<1> QED
  BY <1>1, <1>4, <1>6 DEF Inv, TypeOK

LEMMA InvSave ==
    ASSUME Inv, NEW w \in Workers, Save(w)
    PROVE  Inv'
<1>1. /\ call[w].request \in Request /\ call[w].seen \in Database
      /\ Allowed(call[w].seen, call[w].request)
      /\ ActiveStaff(call[w].seen, Superusers)
  BY DEF Inv, TypeOK, CheckedBeforeSaving, Save
<1>2. db' \in Database /\ ForeignKeys(db')
  BY <1>1, SavedTyped DEF Inv, TypeOK, Save
<1>3. ActiveStaff(db', Superusers)
  BY <1>1, SavedKeepsSuperusers DEF Inv, TypeOK, Save, SuperusersStay
<1>4. call' \in [ Workers -> [ busy : BOOLEAN, request : Requests, seen : Database ] ]
  BY NoCallTyped DEF Inv, TypeOK, Save
<1>5. ASSUME NEW v \in Workers, call'[v].busy PROVE call'[v] = call[v]
  BY <1>5, NoCallTyped DEF Inv, TypeOK, Save
<1>6. CheckedBeforeSaving'
  BY <1>5 DEF Inv, CheckedBeforeSaving
<1> QED
  BY <1>2, <1>3, <1>4, <1>6 DEF Inv, TypeOK, SuperusersStay, Save

LEMMA InvNext == Inv /\ [Next]_vars => Inv'
<1> SUFFICES ASSUME Inv, [Next]_vars PROVE Inv'
  OBVIOUS
<1>1. ASSUME NEW w \in Workers, Save(w) PROVE Inv'
  BY <1>1, InvSave
<1>2. ASSUME NEW w \in Workers, NEW r \in Requests, Check(w, r) PROVE Inv'
  BY <1>2, InvCheck
<1>3. CASE UNCHANGED vars
  BY <1>3 DEF Inv, TypeOK, SuperusersStay, CheckedBeforeSaving, vars, ForeignKeys,
              ActiveStaff
<1> QED
  BY <1>1, <1>2, <1>3 DEF Next

LEMMA Invariant == Spec => []Inv
BY InvInit, InvNext, PTL DEF Spec

\* The rows of users and groups keep their types and their foreign keys, and
\* what workers have read and are about to save is well-typed
\* (graphql/account/mutations/permission_group.py, staff.py).
THEOREM TypesHold == Spec => []TypeOK
<1>1. Inv => TypeOK
  BY DEF Inv
<1> QED
  BY <1>1, Invariant, PTL

\* Mutations never delete, deactivate or demote a superuser, however many of
\* them overlap (graphql/account/utils.py:28).
THEOREM SuperusersRemain == Spec => []SuperusersStay
<1>1. Inv => SuperusersStay
  BY DEF Inv
<1> QED
  BY <1>1, Invariant, PTL

-----------------------------------------------------------------------------
(* What stays manageable                                                   *)

\* When no permission is left behind, somebody outside users manages p.
LEMMA ManagedByOthers ==
    ASSUME NEW d \in Database, NEW users \in SUBSET Users,
           NotManageableWithoutUsers(d, users) = {},
           NEW p \in Permissions, Manageable(d, p)
    PROVE  \E u \in Users \ users : CanManage(d, u, p)
<1> PICK y \in Users : CanManage(d, y, p)
  BY DEF Manageable
<1>1. CASE y \notin users
  BY <1>1
<1>2. CASE y \in users
  <2> DEFINE managers == { u \in users : ManageStaff \in UserPermissions(d, u) }
  <2> PICK g \in d.groups : /\ y \in ActiveMembers(d, g) /\ ManageStaff \in d.permissions[g]
                            /\ \E h \in d.groups : y \in ActiveMembers(d, h) /\ p \in d.permissions[h]
    BY DEF CanManage
  <2> PICK h \in d.groups : y \in ActiveMembers(d, h) /\ p \in d.permissions[h]
    OBVIOUS
  <2>1. ManageStaff \in Granted(d, y) /\ p \in Granted(d, y) /\ y \in d.active
    BY DEF Granted, GroupsOf, ActiveMembers
  <2>2. ManageStaff \in UserPermissions(d, y) /\ p \in UserPermissions(d, y)
    BY <2>1 DEF UserPermissions
  <2>3. p \in UNION { UserPermissions(d, u) : u \in managers }
    BY <1>2, <2>2
  <2>4. p \in PermissionsOf(d, d.groups, ManageStaffUsers(d, d.groups) \ managers)
    <3> DEFINE had == UNION { UserPermissions(d, u) : u \in managers }
               kept == PermissionsOf(d, d.groups, ManageStaffUsers(d, d.groups) \ managers)
    <3>1. had \ kept = {}
      BY Zenon DEF NotManageableWithoutUsers
    <3> HIDE DEF had, kept
    <3>2. \A q \in had : q \in kept
      BY <3>1
    <3> QED
      BY <2>3, <3>2 DEF had, kept
  <2> PICK h2 \in d.groups : /\ p \in d.permissions[h2]
                             /\ \E z : /\ z \in ActiveMembers(d, h2)
                                       /\ z \in ManageStaffUsers(d, d.groups) \ managers
    BY <2>4 DEF PermissionsOf
  <2> PICK z : z \in ActiveMembers(d, h2) /\ z \in ManageStaffUsers(d, d.groups) \ managers
    OBVIOUS
  <2> PICK g2 \in d.groups : z \in ActiveMembers(d, g2) /\ ManageStaff \in d.permissions[g2]
    BY DEF ManageStaffUsers, ManageStaffGroups
  <2>5. z \in Users /\ z \in d.active
    BY DEF ActiveMembers, Database
  <2>6. ManageStaff \in Granted(d, z)
    BY DEF Granted, GroupsOf, ActiveMembers
  <2>7. ManageStaff \in UserPermissions(d, z)
    BY <2>5, <2>6 DEF UserPermissions
  <2>8. z \notin users
    BY <2>7
  <2>9. CanManage(d, z, p)
    BY DEF CanManage
  <2> QED
    BY <2>5, <2>8, <2>9
<1> QED
  BY <1>1, <1>2

\* When no permission is left behind in groups, somebody manages p through them.
LEMMA ManagedThrough ==
    ASSUME NEW d \in Database, NEW groups \in SUBSET d.groups, NEW permissions,
           get_not_manageable_permissions(d, groups, permissions) = {},
           NEW p \in permissions
    PROVE  \E u \in Users : \E g, h \in groups :
             /\ u \in ActiveMembers(d, g) /\ ManageStaff \in d.permissions[g]
             /\ u \in ActiveMembers(d, h) /\ p \in d.permissions[h]
<1>1. \/ p \in UNION { d.permissions[g] : g \in ManageStaffGroups(d, groups) }
      \/ p \in PermissionsOf(d, groups, ManageStaffUsers(d, groups))
  <2> DEFINE direct == UNION { d.permissions[g] : g \in ManageStaffGroups(d, groups) }
             other == PermissionsOf(d, groups, ManageStaffUsers(d, groups))
  <2>1. permissions \ (direct \cup other) = {}
    BY Zenon DEF get_not_manageable_permissions
  <2> HIDE DEF direct, other
  <2>2. p \in direct \/ p \in other
    BY <2>1
  <2> QED
    BY <2>2 DEF direct, other
<1>2. CASE p \in UNION { d.permissions[g] : g \in ManageStaffGroups(d, groups) }
  <2> PICK g \in ManageStaffGroups(d, groups) : p \in d.permissions[g]
    BY <1>2
  <2>1. g \in groups /\ ManageStaff \in d.permissions[g] /\ ActiveMembers(d, g) # {}
    BY DEF ManageStaffGroups
  <2> PICK u \in ActiveMembers(d, g) : TRUE
    BY <2>1
  <2>2. u \in Users
    BY DEF ActiveMembers, Database
  <2> QED
    BY <2>1, <2>2
<1>3. CASE p \in PermissionsOf(d, groups, ManageStaffUsers(d, groups))
  <2> PICK h \in groups : /\ p \in d.permissions[h]
                          /\ \E z : z \in ActiveMembers(d, h) /\ z \in ManageStaffUsers(d, groups)
    BY <1>3 DEF PermissionsOf
  <2> PICK z : z \in ActiveMembers(d, h) /\ z \in ManageStaffUsers(d, groups)
    OBVIOUS
  <2> PICK g \in groups : z \in ActiveMembers(d, g) /\ ManageStaff \in d.permissions[g]
    BY DEF ManageStaffUsers, ManageStaffGroups
  <2>1. z \in Users
    BY DEF ActiveMembers, Database
  <2> QED
    BY <2>1
<1> QED
  BY <1>1, <1>2, <1>3

LEMMA SavedKeepsManageable ==
    ASSUME NEW d \in Database, ForeignKeys(d), NEW r \in Request, Allowed(d, r),
           r.by \notin Superusers, NEW p \in Protected(d, r), Manageable(d, p)
    PROVE  Manageable(Saved(d, d, r), p)
<1> PICK x : x = Saved(d, d, r)
  OBVIOUS
<1>0. r.op \in Operation /\ r.group \in Groups /\ r.users \subseteq Users
  BY DEF Request
<1>1. p \in Permissions
  BY <1>0 DEF Protected, Request, Database
<1>2. CASE r.op \in { "staffDelete", "staffBulkDelete" }
  <2>1. NotManageableWithoutUsers(d, r.users) = {}
    BY <1>2 DEF Allowed, StaffRemoval, StaysManageable, Superuser
  <2> PICK u \in Users \ r.users : CanManage(d, u, p)
    BY <1>0, <1>1, <2>1, ManagedByOthers
  <2>2. x = DeleteUsers(d, r.users) \/ x = RemoveStaff(d, d, r.users)
    BY <1>2 DEF Saved
  <2>3. x.groups = d.groups /\ x.permissions = d.permissions
    BY <2>2 DEF RemoveStaff, DeleteUsers, Database
  <2>4. \A g \in d.groups : u \in ActiveMembers(d, g) => u \in ActiveMembers(x, g)
    <3>1. CASE x = DeleteUsers(d, r.users)
      BY <3>1 DEF DeleteUsers, Database, ActiveMembers
    <3>2. CASE x = RemoveStaff(d, d, r.users) /\ r.users \subseteq Buyers
      BY <3>2 DEF RemoveStaff, Database, ActiveMembers
    <3> QED
      BY <2>2, <3>1, <3>2 DEF RemoveStaff
  <2>5. CanManage(x, u, p)
    BY <2>3, <2>4 DEF CanManage
  <2> QED
    BY <2>5 DEF Manageable
<1>3. CASE r.op = "staffUpdate" /\ r.is_active = "off"
  <2>1. NotManageableWithoutUsers(d, r.users) = {}
    BY <1>3 DEF Allowed, staffUpdate, StaysManageable, Superuser
  <2> PICK u \in Users \ r.users : CanManage(d, u, p)
    BY <1>0, <1>1, <2>1, ManagedByOthers
  <2>2. x = SaveStaff(d, d, r)
    BY <1>3 DEF Saved
  <2>3. x.groups = d.groups /\ x.permissions = d.permissions
    BY <2>2, SaveStaffRows
  <2>4. \A g \in d.groups : u \in ActiveMembers(d, g) => u \in ActiveMembers(x, g)
    BY <2>2, SaveStaffRows DEF Database, ActiveMembers
  <2>5. CanManage(x, u, p)
    BY <2>3, <2>4 DEF CanManage
  <2> QED
    BY <2>5 DEF Manageable
<1>4. CASE r.op = "permissionGroupDelete"
  <2>1. get_not_manageable_permissions(d, d.groups \ { r.group }, d.permissions[r.group]) = {}
    BY <1>4 DEF Allowed, permissionGroupDelete, Superuser, NotManageableWithoutGroup
  <2>2. p \in d.permissions[r.group]
    BY <1>4 DEF Protected
  <2> DEFINE G == d.groups \ { r.group }
  <2>3. \E u \in Users : \E g, h \in G :
             /\ u \in ActiveMembers(d, g) /\ ManageStaff \in d.permissions[g]
             /\ u \in ActiveMembers(d, h) /\ p \in d.permissions[h]
    BY <2>1, <2>2, ManagedThrough
  <2>4. x = DeleteGroup(d, r.group)
    BY <1>4 DEF Saved
  <2>5. G \subseteq x.groups /\ x.active = d.active
    BY <2>4 DEF DeleteGroup, Database
  <2>6. \A g \in G : x.permissions[g] = d.permissions[g] /\ x.members[g] = d.members[g]
    BY <2>4 DEF DeleteGroup, Database
  <2> QED
    BY <2>3, <2>5, <2>6 DEF Manageable, CanManage, ActiveMembers
<1>5. CASE r.op = "permissionGroupUpdate"
  <2>1. p \in r.remove_permissions
    BY <1>5 DEF Protected
  <2>2. get_not_manageable_permissions(d, d.groups \ { r.group }, r.remove_permissions) = {}
    BY <1>5, <2>1 DEF Allowed, permissionGroupUpdate, CanRemovePermissions, Superuser,
                      NotManageableWithoutPermissions
  <2> DEFINE G == d.groups \ { r.group }
  <2>3. \E u \in Users : \E g, h \in G :
             /\ u \in ActiveMembers(d, g) /\ ManageStaff \in d.permissions[g]
             /\ u \in ActiveMembers(d, h) /\ p \in d.permissions[h]
    BY <2>1, <2>2, ManagedThrough
  <2>4. x = SaveGroup(d, r)
    BY <1>5 DEF Saved
  <2>5. G \subseteq x.groups /\ x.active = d.active
    BY <2>4 DEF SaveGroup, Database
  <2>6. \A g \in G : x.permissions[g] = d.permissions[g] /\ x.members[g] = d.members[g]
    BY <2>4 DEF SaveGroup, Database
  <2> QED
    BY <2>3, <2>5, <2>6 DEF Manageable, CanManage, ActiveMembers
<1> QED
  BY <1>0, <1>2, <1>3, <1>4, <1>5 DEF Protected, Operation

LEMMA SavedWithinScope ==
    ASSUME NEW d \in Database, ForeignKeys(d), NEW r \in Request, Allowed(d, r),
           r.by \notin Superusers, NEW u \in Users
    PROVE  Granted(Saved(d, d, r), u) \subseteq Granted(d, u) \cup UserPermissions(d, r.by)
<1> PICK x : x = Saved(d, d, r)
  OBVIOUS
<1>0. r.op \in Operation /\ r.group \in Groups
  BY DEF Request
<1> SUFFICES ASSUME NEW h \in x.groups, u \in x.members[h], NEW p \in x.permissions[h],
                    p \notin Granted(d, u)
             PROVE  p \in UserPermissions(d, r.by)
  BY DEF Granted, GroupsOf
<1>1. ~(h \in d.groups /\ u \in d.members[h] /\ p \in d.permissions[h])
  BY DEF Granted, GroupsOf
<1>2. CASE r.op \in { "permissionGroupCreate", "permissionGroupUpdate" }
  <2>1. x = SaveGroup(d, r)
    BY <1>2 DEF Saved
  <2>2. x.groups = d.groups \cup { r.group }
    BY <2>1 DEF SaveGroup, Database
  <2>3. h = r.group
    BY <1>1, <2>1, <2>2 DEF SaveGroup, Database
  <2>4. p \in d.permissions[r.group] \cup r.add_permissions
    BY <1>0, <2>1, <2>3 DEF SaveGroup, Database
  <2>5. r.add_permissions \subseteq UserPermissions(d, r.by)
    BY <1>2 DEF Allowed, permissionGroupCreate, permissionGroupUpdate, HasPermissions
  <2>6. d.permissions[r.group] \subseteq UserPermissions(d, r.by)
    <3>1. CASE r.op = "permissionGroupCreate"
      BY <1>0, <3>1 DEF Allowed, permissionGroupCreate, ForeignKeys
    <3>2. CASE r.op = "permissionGroupUpdate"
      BY <3>2 DEF Allowed, permissionGroupUpdate, HasPermissions
    <3> QED
      BY <1>2, <3>1, <3>2
  <2> QED
    BY <2>4, <2>5, <2>6
<1>3. CASE r.op = "permissionGroupDelete"
  <2>1. x = DeleteGroup(d, r.group)
    BY <1>3 DEF Saved
  <2>2. h \in d.groups /\ u \in d.members[h] /\ p \in d.permissions[h]
    BY <1>0, <2>1 DEF DeleteGroup, Database
  <2> QED
    BY <1>1, <2>2
<1>4. CASE r.op \in { "staffCreate", "staffUpdate" }
  <2>1. x = SaveStaff(d, d, r)
    BY <1>4 DEF Saved, Allowed, staffCreate
  <2>2. h \in d.groups /\ h \in Groups /\ p \in d.permissions[h]
    BY <2>1, SaveStaffRows DEF Database
  <2>3. u \in d.members[h] \/ h \in r.add_groups
    BY <2>1, <2>2, SaveStaffRows
  <2>4. h \in r.add_groups
    BY <1>1, <2>2, <2>3
  <2>5. d.permissions[h] \subseteq UserPermissions(d, r.by)
    BY <1>4, <2>4 DEF Allowed, staffCreate, staffUpdate, CanManageGroups
  <2> QED
    BY <2>2, <2>5
<1>5. CASE r.op \in { "staffDelete", "staffBulkDelete" }
  <2>1. x = DeleteUsers(d, r.users) \/ x = RemoveStaff(d, d, r.users)
    BY <1>5 DEF Saved
  <2>2. h \in d.groups /\ u \in d.members[h] /\ p \in d.permissions[h]
    <3>1. CASE x = DeleteUsers(d, r.users)
      BY <3>1 DEF DeleteUsers, Database
    <3>2. CASE x = RemoveStaff(d, d, r.users) /\ r.users \subseteq Buyers
      BY <3>2 DEF RemoveStaff, Database
    <3> QED
      BY <2>1, <3>1, <3>2 DEF RemoveStaff
  <2> QED
    BY <1>1, <2>2
<1>6. CASE r.op = "userBulkSetActive"
  <2>1. x = SetActive(d, r)
    BY <1>6 DEF Saved
  <2>2. x.groups = d.groups /\ x.members = d.members /\ x.permissions = d.permissions
    BY <2>1 DEF SetActive, Database
  <2> QED
    BY <1>1, <2>2
<1> QED
  BY <1>0, <1>2, <1>3, <1>4, <1>5, <1>6 DEF Operation

\* The only worker that saves in a step is the one whose step it is.
LEMMA SavesAsAllowed ==
    ASSUME Inv, Next, NEW w \in Workers, Undisturbed(w)
    PROVE  /\ db' = Saved(db, db, call[w].request) /\ call[w].request \in Request
           /\ Allowed(db, call[w].request)
           /\ db \in Database /\ ForeignKeys(db)
<1>1. Save(w)
  <2>1. ASSUME NEW v \in Workers, Save(v) PROVE v = w
    BY <2>1 DEF Save, Undisturbed, Saves, Inv, TypeOK
  <2>2. ASSUME NEW v \in Workers, NEW r \in Requests, Check(v, r) PROVE FALSE
    BY <2>2 DEF Check, Undisturbed, Saves, Inv, TypeOK
  <2> QED
    BY <2>1, <2>2 DEF Next
<1> QED
  BY <1>1 DEF Save, Undisturbed, Saves, Inv, TypeOK, CheckedBeforeSaving

\* A mutation that deletes or deactivates staff, deletes a group or takes
\* permissions from one leaves somebody to manage each of the permissions it
\* must keep manageable, when nothing was saved since its checks
\* (graphql/account/utils.py:239, 282, 330).
THEOREM PermissionsStayManageable == Spec => KeepsManageable
<1>1. ASSUME Inv, Next, NEW w \in Workers, Undisturbed(w),
             call[w].request.by \notin Superusers,
             NEW p \in Protected(db, call[w].request), Manageable(db, p)
      PROVE  Manageable(db', p)
  BY <1>1, SavesAsAllowed, SavedKeepsManageable
<1>2. ASSUME Inv, [Next]_vars
      PROVE  [\A w \in Workers :
                Undisturbed(w) /\ call[w].request.by \notin Superusers =>
                    \A p \in Protected(db, call[w].request) :
                        Manageable(db, p) => Manageable(db', p)]_vars
  BY <1>1, <1>2
<1> QED
  BY <1>2, Invariant, PTL DEF Spec, KeepsManageable

\* Whoever is no superuser gives nobody, through groups, a permission that the
\* giver does not have, when nothing was saved since the checks
\* (graphql/account/mutations/permission_group.py:109).
THEOREM PermissionsWithinScope == Spec => WithinScope
<1>1. ASSUME Inv, Next, NEW w \in Workers, Undisturbed(w),
             call[w].request.by \notin Superusers, NEW u \in Users
      PROVE  Granted(db', u) \subseteq
               Granted(db, u) \cup UserPermissions(db, call[w].request.by)
  BY <1>1, SavesAsAllowed, SavedWithinScope
<1>2. ASSUME Inv, [Next]_vars
      PROVE  [\A w \in Workers :
                Undisturbed(w) /\ call[w].request.by \notin Superusers =>
                    \A u \in Users :
                        Granted(db', u) \subseteq
                            Granted(db, u) \cup UserPermissions(db, call[w].request.by)]_vars
  BY <1>1, <1>2
<1> QED
  BY <1>2, Invariant, PTL DEF Spec, WithinScope
=============================================================================
