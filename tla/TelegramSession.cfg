\* Overlapping requests, logins, logouts, activities and processes that come and
\* go; one contact, so that a list with the user alone is a part of the list.
SPECIFICATION Spec
CONSTANTS
  Contact = {c1}
  Self = self
  Pickable = {c1}
  Request = {r1, r2}
  MaxPosts = 2
SYMMETRY TelegramSymmetry
INVARIANTS TypeOK AuthFollowsTd LoggedOutStays AllContacts SelectionRestored
