SPECIFICATION Spec
CONSTANTS
  root = root
  ann = ann
  bob = bob
  eve = eve
  team = team
  desk = desk
  manage_staff = manage_staff
  manage_users = manage_users
  w1 = w1
  w2 = w2
  Users <- Everyone
  Groups <- TeamAndDesk
  Permissions <- StaffAndUsers
  ManageStaff = manage_staff
  ManageUsers = manage_users
  Superusers = {root}
  Buyers = {bob}
  Workers = {w1}
  Initial <- SomeRows
  Requests <- AllRequests
  MaxCalls = 2
CHECK_DEADLOCK FALSE
PROPERTY StaffCanManage
