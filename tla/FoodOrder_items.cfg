CONSTANTS
  root = root
  ann = ann
  bob = bob
  r1 = r1
  r2 = r2
  m1 = m1
  m2 = m2
  o1 = o1
  i1 = i1
  i2 = i2
  q1 = q1
  q2 = q2
  Users = {root, ann}
  Root = root
  Deleted = Deleted
  Nobody = Nobody
  Same = Same
  Restaurants = {r1, r2}
  MenuItems = {m1, m2}
  RestaurantOf <- MCRestaurantOf
  Orders = {o1}
  Items = {i1, i2}
  Contents = {1, 2}
  Requests = {q1, q2}
  Routes = {"create", "remove", "addItem", "patchItem", "deleteItem", "setItemPaid", "deleteUser", "cleanup", "removeRestaurant"}
  Drafts <- MCDrafts
  Patches = {}
  MaxTime = 2
  Retention = 0
SPECIFICATION Spec
SYMMETRY SlotSymmetry
CHECK_DEADLOCK FALSE
INVARIANTS NoDangling SharedRowsStay FoodOfRestaurant
PROPERTIES ItemHistory SettledStays
