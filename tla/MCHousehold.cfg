SPECIFICATION Spec
CONSTANTS
    owner = owner
    admin = admin
    None = None
    Home = {h1, h2}
    Category = {c1, c2}
    Item = {i1}
    User = {owner, admin}
    Name = {n1}
    Admin = {admin}
    Request = {r1, r2}
    Kind <- AllKinds
SYMMETRY Symmetry
CHECK_DEADLOCK FALSE
INVARIANTS ItemsWellPlaced PreCheckedInsert DeadlocksNeedHomeLast
PROPERTIES OwnersAreStable
