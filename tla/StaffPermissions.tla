--------------------------- MODULE StaffPermissions ---------------------------
(***************************************************************************)
(* Staff members, their permission groups, and the mutations that change   *)
(* them: graphql/account/mutations/permission_group.py, staff.py and       *)
(* bulk_mutations.py with the rules of graphql/account/utils.py.           *)
(*                                                                         *)
(* A mutation first reads what it needs and checks the rules, then saves,  *)
(* without a lock or a transaction around the two: they are two actions,   *)
(* and other mutations may be saved in between.                            *)
(***************************************************************************)
EXTENDS FiniteSets, Naturals

CONSTANTS
    Users, Groups, Permissions,
    ManageStaff,     \* AccountPermissions.MANAGE_STAFF
    ManageUsers,     \* AccountPermissions.MANAGE_USERS
    Superusers,      \* created from the command line only
    Buyers,          \* staff members who have placed an order
    Workers,         \* web workers
    Initial,         \* users and groups that may be there at the start
    Requests,        \* bound: the mutations that clients send
    MaxCalls         \* bound: how many are carried out

VARIABLES
    db,      \* the rows of users and groups
    call,    \* what each worker has checked and has yet to save
    calls    \* history: mutations that passed their checks

vars == << db, call, calls >>

Database ==
    [ users : SUBSET Users, staff : SUBSET Users, active : SUBSET Users,
      groups : SUBSET Groups,
      permissions : [ Groups -> SUBSET Permissions ],
      members : [ Groups -> SUBSET Users ] ]

Operation ==
    { "permissionGroupCreate", "permissionGroupUpdate", "permissionGroupDelete",
      "staffCreate", "staffUpdate", "staffDelete", "staffBulkDelete",
      "userBulkSetActive" }

\* A mutation has the fields it needs; the others are empty.
Request ==
    [ op : Operation, by : Users, group : Groups, users : SUBSET Users,
      add_permissions : SUBSET Permissions, remove_permissions : SUBSET Permissions,
      add_users : SUBSET Users, remove_users : SUBSET Users,
      add_groups : SUBSET Groups, remove_groups : SUBSET Groups,
      is_active : { "kept", "on", "off" } ]

\* What is deleted is nobody's, and superusers are active staff.
ForeignKeys(d) ==
    /\ d.staff \subseteq d.users /\ d.active \subseteq d.users
    /\ \A g \in Groups : d.members[g] \subseteq d.users
    /\ \A g \in Groups \ d.groups : d.permissions[g] = {} /\ d.members[g] = {}

ActiveStaff(d, users) ==
    users \subseteq d.users /\ users \subseteq d.active /\ users \subseteq d.staff

ASSUME StaffAssumption ==
    /\ ManageStaff \in Permissions /\ ManageUsers \in Permissions
    /\ Superusers \subseteq Users /\ Buyers \subseteq Users
    /\ Initial \subseteq Database
    /\ \A d \in Initial : ForeignKeys(d) /\ ActiveStaff(d, Superusers)
    /\ Initial # {} /\ Requests # {} /\ Requests \subseteq Request
    /\ MaxCalls \in Nat

TypeOK ==
    /\ db \in Database /\ ForeignKeys(db)
    /\ call \in [ Workers -> [ busy : BOOLEAN, request : Requests, seen : Database ] ]
    /\ calls \in Nat

-----------------------------------------------------------------------------
(* Permissions of a user                                                   *)

GroupsOf(d, u) == { g \in d.groups : u \in d.members[g] }

\* What the groups of a user give.
Granted(d, u) == UNION { d.permissions[g] : g \in GroupsOf(d, u) }

\* get_all_permissions: none unless the user is active, all of a superuser.
UserPermissions(d, u) ==
    { p \in Permissions :
        /\ u \in d.active
        /\ u \in Superusers \/ p \in Granted(d, u) }

\* get_out_of_scope_users is empty.
CanManageUsers(d, by, users) ==
    by \in Superusers \/ \A u \in users : UserPermissions(d, u) \subseteq UserPermissions(d, by)

\* get_out_of_scope_permissions is empty.
HasPermissions(d, by, permissions) ==
    by \in Superusers \/ permissions \subseteq UserPermissions(d, by)

\* get_groups_which_user_can_manage
CanManageGroups(d, by, groups) ==
    \/ by \in Superusers
    \/ by \in d.staff /\ \A g \in groups : d.permissions[g] \subseteq UserPermissions(d, by)

-----------------------------------------------------------------------------
(* Permissions that somebody can still manage: somebody who has both       *)
(* "manage staff" and the permission, through some of the groups.          *)

ActiveMembers(d, g) == d.members[g] \cap d.active

ManageStaffGroups(d, groups) ==
    { g \in groups : ManageStaff \in d.permissions[g] /\ ActiveMembers(d, g) # {} }

ManageStaffUsers(d, groups) ==
    UNION { ActiveMembers(d, g) : g \in ManageStaffGroups(d, groups) }

\* look_for_permission_in_users_with_manage_staff
PermissionsOf(d, groups, users) ==
    UNION { d.permissions[g] : g \in { h \in groups : ActiveMembers(d, h) \cap users # {} } }

get_not_manageable_permissions(d, groups, permissions) ==
    permissions \ ( (UNION { d.permissions[g] : g \in ManageStaffGroups(d, groups) })
                    \cup PermissionsOf(d, groups, ManageStaffUsers(d, groups)) )

\* get_not_manageable_permissions_when_deactivate_or_remove_users
NotManageableWithoutUsers(d, users) ==
    LET managers == { u \in users : ManageStaff \in UserPermissions(d, u) }
    IN  (UNION { UserPermissions(d, u) : u \in managers })
          \ PermissionsOf(d, d.groups, ManageStaffUsers(d, d.groups) \ managers)

\* Mutant: the group that loses the permissions is still counted on.
NotManageableWithoutPermissionsCounted(d, group, permissions) ==
    get_not_manageable_permissions(d, d.groups, permissions)

\* get_not_manageable_permissions_after_removing_perms_from_group
NotManageableWithoutPermissions(d, group, permissions) ==
    get_not_manageable_permissions(d, d.groups \ { group }, permissions)

\* get_not_manageable_permissions_after_group_deleting
NotManageableWithoutGroup(d, group) ==
    get_not_manageable_permissions(d, d.groups \ { group }, d.permissions[group])

\* get_not_manageable_permissions_after_removing_users_from_group: members
\* are counted whether they are active or not.
NotManageableWithoutMembers(d, group, users) ==
    IF \/ /\ Cardinality(d.members[group]) > Cardinality(users)
          /\ ManageStaff \in d.permissions[group]
       \/ \E u \in d.members[group] \ users : ManageStaff \in UserPermissions(d, u)
    THEN {}
    ELSE NotManageableWithoutGroup(d, group)

-----------------------------------------------------------------------------
(* The checks of each mutation                                             *)

Superuser(r) == r.by \in Superusers

HasLastGroup(d, u, group) == u \in d.members[group] /\ Cardinality(GroupsOf(d, u)) = 1

permissionGroupCreate(d, r) ==
    /\ r.group \notin d.groups
    /\ HasPermissions(d, r.by, r.add_permissions)
    /\ r.add_users \subseteq d.staff

\* ensure_permissions_can_be_removed
CanRemovePermissions(d, r) ==
    r.remove_permissions # {} =>
        /\ HasPermissions(d, r.by, r.remove_permissions)
        /\ Superuser(r) \/ NotManageableWithoutPermissions(d, r.group, r.remove_permissions) = {}

\* clean_remove_users, when there are users to remove
CanRemoveUsers(d, r) ==
    r.remove_users # {} =>
        /\ CanManageUsers(d, r.by, r.remove_users)
        /\ ~(r.by \in r.remove_users /\ Cardinality(GroupsOf(d, r.by)) = 1)
        /\ \/ Superuser(r)
           \/ \E u \in r.add_users : ManageStaff \in UserPermissions(d, u)
           \/ NotManageableWithoutMembers(d, r.group, r.remove_users) = {}

permissionGroupUpdate(d, r) ==
    /\ r.group \in d.groups
    /\ HasPermissions(d, r.by, d.permissions[r.group])
    /\ r.add_permissions \cap r.remove_permissions = {}
    /\ r.add_users \cap r.remove_users = {}
    /\ HasPermissions(d, r.by, r.add_permissions)
    /\ CanRemovePermissions(d, r)
    /\ r.add_users \subseteq d.staff /\ r.remove_users \subseteq d.users
    /\ CanRemoveUsers(d, r)

permissionGroupDelete(d, r) ==
    /\ r.group \in d.groups
    /\ \/ Superuser(r)
       \/ /\ HasPermissions(d, r.by, d.permissions[r.group])
          /\ NotManageableWithoutGroup(d, r.group) = {}
          /\ ~HasLastGroup(d, r.by, r.group)

staffCreate(d, r) ==
    /\ r.users \cap d.users = {}
    /\ r.add_groups \subseteq d.groups
    /\ r.add_groups # {} => CanManageGroups(d, r.by, r.add_groups)

\* UserDeleteMixin and check_if_deactivating_superuser_or_own_account
NotSelfNorSuperuser(r) == r.by \notin r.users /\ r.users \cap Superusers = {}

\* check_if_removing_left_not_manageable_permissions and its like for is_active
StaysManageable(d, r) == Superuser(r) \/ NotManageableWithoutUsers(d, r.users) = {}

\* Mutant: the groups that are added are not looked at.
staffUpdateAnyGroup(d, r) ==
    /\ r.users \subseteq d.users
    /\ CanManageUsers(d, r.by, r.users)
    /\ r.add_groups \cap r.remove_groups = {}
    /\ r.add_groups \cup r.remove_groups \subseteq d.groups
    /\ r.remove_groups # {} => CanManageGroups(d, r.by, r.remove_groups)
    /\ r.is_active = "off" => NotSelfNorSuperuser(r) /\ StaysManageable(d, r)

\* Nothing is asked about the groups that a user leaves.
staffUpdate(d, r) ==
    /\ r.users \subseteq d.users
    /\ CanManageUsers(d, r.by, r.users)
    /\ r.add_groups \cap r.remove_groups = {}
    /\ r.add_groups \cup r.remove_groups \subseteq d.groups
    /\ r.add_groups \cup r.remove_groups # {} =>
         CanManageGroups(d, r.by, r.add_groups \cup r.remove_groups)
    /\ r.is_active = "off" => NotSelfNorSuperuser(r) /\ StaysManageable(d, r)

\* Mutant: staff members are deleted as customers are.
StaffRemovalUnchecked(d, r) == r.users \subseteq d.staff /\ CanManageUsers(d, r.by, r.users)

\* StaffDeleteMixin, of one staff member and of several.
StaffRemoval(d, r) ==
    /\ r.users \subseteq d.staff
    /\ NotSelfNorSuperuser(r)
    /\ CanManageUsers(d, r.by, r.users)
    /\ StaysManageable(d, r)

Allowed(d, r) ==
    /\ r.by \in d.active
    /\ (IF r.op = "userBulkSetActive" THEN ManageUsers ELSE ManageStaff)
         \in UserPermissions(d, r.by)
    /\ CASE r.op = "permissionGroupCreate" -> permissionGroupCreate(d, r)
         [] r.op = "permissionGroupUpdate" -> permissionGroupUpdate(d, r)
         [] r.op = "permissionGroupDelete" -> permissionGroupDelete(d, r)
         [] r.op = "staffCreate" -> staffCreate(d, r)
         [] r.op = "staffUpdate" -> staffUpdate(d, r)
         [] r.op \in { "staffDelete", "staffBulkDelete" } -> StaffRemoval(d, r)
         [] r.op = "userBulkSetActive" -> r.users \subseteq d.users

-----------------------------------------------------------------------------
(* What each mutation writes to the rows d, having read seen before        *)

\* Group.save() creates the group again when it was deleted meanwhile; users
\* cannot be added when one of them was.
SaveGroup(d, r) ==
    LET g == r.group
        m2m == r.add_users \subseteq d.users
    IN  [ d EXCEPT
            !.groups = @ \cup { g },
            !.permissions[g] = IF m2m THEN (@ \cup r.add_permissions) \ r.remove_permissions ELSE @,
            !.members[g] = IF m2m THEN (@ \cup r.add_users) \ r.remove_users ELSE @ ]

\* Mutant: the members of a deleted group stay.
DeleteGroupOnly(d, g) == [ d EXCEPT !.groups = @ \ { g }, !.permissions[g] = {} ]

DeleteGroup(d, g) ==
    [ d EXCEPT !.groups = @ \ { g }, !.permissions[g] = {}, !.members[g] = {} ]

\* The user's row is saved whole, as it was read but for what was asked for (a
\* new user is active unless asked for otherwise); groups cannot be added when
\* one of them was deleted meanwhile.
SaveStaff(d, seen, r) ==
    LET on == { u \in r.users : \/ r.is_active = "on"
                                \/ r.is_active = "kept"
                                     /\ (u \in seen.active \/ r.op = "staffCreate") }
        m2m == r.add_groups \subseteq d.groups
    IN  [ d EXCEPT
            !.users = @ \cup r.users,
            !.staff = @ \cup r.users,
            !.active = (@ \ r.users) \cup on,
            !.members = [ g \in Groups |->
                IF ~m2m THEN @[g]
                ELSE (@[g] \cup { u \in r.users : g \in r.add_groups })
                       \ { u \in r.users : g \in r.remove_groups } ] ]

DeleteUsers(d, users) ==
    [ d EXCEPT !.users = @ \ users, !.staff = @ \ users, !.active = @ \ users,
               !.members = [ g \in Groups |-> @[g] \ users ] ]

\* remove_staff_member: who has placed an order becomes a customer, who
\* stays in the groups.
RemoveStaff(d, seen, users) ==
    IF users \subseteq Buyers
    THEN [ d EXCEPT !.users = @ \cup users, !.staff = @ \ users,
                    !.active = (@ \ users) \cup (users \cap seen.active) ]
    ELSE DeleteUsers(d, users)

SetActive(d, r) ==
    LET users == { u \in r.users \cap d.users : u # r.by /\ u \notin Superusers }
    IN  [ d EXCEPT !.active = IF r.is_active = "on" THEN @ \cup users ELSE @ \ users ]

\* A user's e-mail is unique, the second of two who create it fails.
Saved(d, seen, r) ==
    CASE r.op \in { "permissionGroupCreate", "permissionGroupUpdate" } -> SaveGroup(d, r)
      [] r.op = "permissionGroupDelete" -> DeleteGroup(d, r.group)
      [] r.op = "staffCreate" -> IF r.users \cap d.users = {} THEN SaveStaff(d, seen, r) ELSE d
      [] r.op = "staffUpdate" -> SaveStaff(d, seen, r)
      [] r.op = "staffDelete" -> RemoveStaff(d, seen, r.users)
      [] r.op = "staffBulkDelete" -> DeleteUsers(d, r.users)
      [] r.op = "userBulkSetActive" -> SetActive(d, r)

-----------------------------------------------------------------------------
\* A worker with nothing to save.
NoCall ==
    [ busy |-> FALSE, request |-> CHOOSE r \in Requests : TRUE,
      seen |-> CHOOSE d \in Initial : TRUE ]

Init ==
    /\ db \in Initial
    /\ call = [ w \in Workers |-> NoCall ]
    /\ calls = 0

Check(w, r) ==
    /\ ~call[w].busy
    /\ calls < MaxCalls
    /\ Allowed(db, r)
    /\ call' = [ call EXCEPT ![w] = [ busy |-> TRUE, request |-> r, seen |-> db ] ]
    /\ calls' = calls + 1
    /\ UNCHANGED db

Save(w) ==
    /\ call[w].busy
    /\ db' = Saved(db, call[w].seen, call[w].request)
    /\ call' = [ call EXCEPT ![w] = NoCall ]
    /\ UNCHANGED calls

Next == \E w \in Workers : Save(w) \/ \E r \in Requests : Check(w, r)

Spec == Init /\ [][Next]_vars

-----------------------------------------------------------------------------
(* Properties                                                              *)

Saves(w) == call[w].busy /\ ~call[w]'.busy

\* w saves while the rows are as it has read them.
Undisturbed(w) == Saves(w) /\ call[w].seen = db

\* u has "manage staff" and p.
CanManage(d, u, p) ==
    \E g, h \in d.groups :
        /\ u \in ActiveMembers(d, g) /\ ManageStaff \in d.permissions[g]
        /\ u \in ActiveMembers(d, h) /\ p \in d.permissions[h]

Manageable(d, p) == \E u \in Users : CanManage(d, u, p)

\* The permissions that a mutation of staff who are no superusers keeps
\* manageable: all of them when it deletes or deactivates, those of the group
\* it deletes, those it takes from a group.
Protected(d, r) ==
    IF \/ r.op \in { "staffDelete", "staffBulkDelete" }
       \/ r.op = "staffUpdate" /\ r.is_active = "off"
    THEN Permissions
    ELSE IF r.op = "permissionGroupDelete" THEN d.permissions[r.group]
    ELSE IF r.op = "permissionGroupUpdate" THEN r.remove_permissions
    ELSE {}

\* After a mutation, somebody can manage every permission that it had to keep
\* manageable and that somebody could manage before
\* (graphql/account/utils.py:239, 282, 330).
KeepsManageable ==
    [][\A w \in Workers :
        Undisturbed(w) /\ call[w].request.by \notin Superusers =>
            \A p \in Protected(db, call[w].request) :
                Manageable(db, p) => Manageable(db', p)]_vars

\* Staff who are no superusers give nobody, through groups, a permission that
\* they do not have (graphql/account/mutations/permission_group.py:109).
WithinScope ==
    [][\A w \in Workers :
        Undisturbed(w) /\ call[w].request.by \notin Superusers =>
            \A u \in Users :
                Granted(db', u) \subseteq
                    Granted(db, u) \cup UserPermissions(db, call[w].request.by)]_vars

\* No mutation, and no two that overlap, deletes, deactivates or demotes a
\* superuser (graphql/account/utils.py:28).
SuperusersStay == ActiveStaff(db, Superusers)

\* "For each permission, there should be at least one staff member who can
\* manage it", after staff leave a group (graphql/account/utils.py:297).
LeavingKeepsManageable ==
    [][\A w \in Workers :
        Undisturbed(w) /\ call[w].request.by \notin Superusers
          /\ call[w].request.op = "permissionGroupUpdate"
          /\ call[w].request.remove_permissions = {} =>
            \A p \in Permissions : Manageable(db, p) => Manageable(db', p)]_vars

\* The same after a staff member is deleted or deactivated, counting staff only
\* (graphql/account/utils.py:119).
StaffCanManage ==
    [][\A w \in Workers :
        Undisturbed(w) /\ call[w].request.by \notin Superusers
          /\ call[w].request.op = "staffDelete" =>
            \A p \in Permissions :
                (\E u \in db.staff : CanManage(db, u, p))
                  => \E u \in db'.staff : CanManage(db', u, p)]_vars

\* KeepsManageable, whatever was saved since the checks.
AlwaysManageable ==
    [][\A w \in Workers :
        Saves(w) /\ call[w].request.by \notin Superusers =>
            \A p \in Protected(db, call[w].request) :
                Manageable(db, p) => Manageable(db', p)]_vars

=============================================================================
