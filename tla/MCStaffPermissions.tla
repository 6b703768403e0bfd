-------------------------- MODULE MCStaffPermissions --------------------------
(***************************************************************************)
(* StaffPermissions for TLC: a superuser, three other users, two groups.   *)
(***************************************************************************)
EXTENDS StaffPermissions, TLC

CONSTANTS root, ann, bob, eve, team, desk, manage_staff, manage_users

Everyone == { root, ann, bob, eve }
TeamAndDesk == { team, desk }
StaffAndUsers == { manage_staff, manage_users }

Rows(inTeam, inDesk, teamMay, deskMay, inactive) ==
    [ users |-> { root, ann, bob }, staff |-> { root, ann, bob },
      active |-> { root, ann, bob } \ inactive, groups |-> TeamAndDesk,
      permissions |-> (team :> teamMay) @@ (desk :> deskMay),
      members |-> (team :> inTeam) @@ (desk :> inDesk) ]

\* Two managers of everything; one who manages staff through one group and
\* the rest through the other; a manager beside one who is inactive.
SomeRows ==
    { Rows({ ann, bob }, {}, { manage_staff, manage_users }, {}, {}),
      Rows({ ann, bob }, { ann }, { manage_staff }, { manage_users }, {}),
      Rows({ ann, bob }, { ann }, { manage_staff, manage_users }, { manage_users }, { bob }) }

AllRows ==
    { Rows(m, n, p, q, i) : m, n \in SUBSET { ann, bob },
        p, q \in SUBSET StaffAndUsers, i \in SUBSET { ann, bob } }

Blank ==
    [ op |-> "staffCreate", by |-> root, group |-> team, users |-> {},
      add_permissions |-> {}, remove_permissions |-> {}, add_users |-> {},
      remove_users |-> {}, add_groups |-> {}, remove_groups |-> {}, is_active |-> "kept" ]

AtMostOne(S) == { {} } \cup { { x } : x \in S }

Requestors == { root, ann, bob }

GroupRequests ==
    { [ Blank EXCEPT !.op = "permissionGroupUpdate", !.by = u, !.group = g,
                     !.add_permissions = a, !.remove_permissions = r,
                     !.add_users = i, !.remove_users = o ] :
        u \in Requestors, g \in TeamAndDesk, a, r \in AtMostOne(StaffAndUsers),
        i \in AtMostOne({ ann, bob }), o \in SUBSET { ann, bob } }
      \cup
    { [ Blank EXCEPT !.op = "permissionGroupDelete", !.by = u, !.group = g ] :
        u \in Requestors, g \in TeamAndDesk }
      \cup
    { [ Blank EXCEPT !.op = "permissionGroupCreate", !.by = u, !.group = g,
                     !.add_permissions = a, !.add_users = { bob } ] :
        u \in Requestors, g \in TeamAndDesk, a \in SUBSET StaffAndUsers }

StaffRequests ==
    { [ Blank EXCEPT !.op = "staffUpdate", !.by = u, !.users = { v },
                     !.add_groups = a, !.remove_groups = r, !.is_active = t ] :
        u \in Requestors, v \in { root, ann, bob }, a, r \in AtMostOne(TeamAndDesk),
        t \in { "kept", "on", "off" } }
      \cup
    { [ Blank EXCEPT !.op = o, !.by = u, !.users = { v } ] :
        o \in { "staffDelete", "staffBulkDelete" }, u \in Requestors, v \in { root, ann, bob } }
      \cup
    { [ Blank EXCEPT !.op = "staffBulkDelete", !.by = root, !.users = { ann, bob } ] }
      \cup
    { [ Blank EXCEPT !.op = "staffCreate", !.by = u, !.users = { eve }, !.add_groups = a,
                     !.is_active = t ] :
        u \in Requestors, a \in AtMostOne(TeamAndDesk), t \in { "kept", "off" } }
      \cup
    { [ Blank EXCEPT !.op = "userBulkSetActive", !.by = u, !.users = { ann, bob },
                     !.is_active = t ] : u \in Requestors, t \in { "on", "off" } }

AllRequests == GroupRequests \cup StaffRequests
=============================================================================
