CONSTANTS
    Tabs = {"Storage", "Memory"}
    Storage = "Storage"
    Users = {u1, u2}
    NoUser = NoUser
    Calls = {c1, c2}
    MaxMutations = 1
    Outages = {"timeout"}
SPECIFICATION Spec
SYMMETRY MCSymmetry
INVARIANTS OneQueryPerTab NoHelperNoQuery DetailOwned
PROPERTIES VisitKeepsData
