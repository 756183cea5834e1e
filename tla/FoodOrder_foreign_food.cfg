CONSTANTS
  root = root
  ann = ann
  bob = bob
  r1 = r1
  r2 = r2
  m1 = m1
  m2 = m2
  o1 = o1
  i1 = i1
  i2 = i2
  q1 = q1
  q2 = q2
  Users = {root, ann}
  Root = root
  Deleted = Deleted
  Nobody = Nobody
  Same = Same
  Restaurants = {r1, r2}
  MenuItems = {m1, m2}
  RestaurantOf <- MCRestaurantOf
  Orders = {o1}
  Items = {i1}
  Contents = {1}
  Requests = {q1, q2}
  Routes = {"create", "patch", "addItem"}
  Drafts <- MCDrafts
  Patches <- RestaurantPatches
  MaxTime = 1
  Retention = 0
SPECIFICATION Spec
SYMMETRY SlotSymmetry
CHECK_DEADLOCK FALSE
INVARIANT FoodOfRestaurant
