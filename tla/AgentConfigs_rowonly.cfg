SPECIFICATION Spec
CONSTANTS
    Leaf = Leaf
    Parent = Parent
    Leaf1 = Leaf1
    Leaf2 = Leaf2
    Refers = Refers
    Alone = Alone
    A1 = A1
    A2 = A2
    U1 = U1
    U2 = U2
    None = None
    Agents = {Leaf, Parent}
    Configs = {Leaf1, Leaf2, Refers, Alone}
    Refs <- MCRefs
    Uploads <- MCUploads
    Threads = {Leaf, Parent}
    Admins = {A1, A2}
    Users = {U1}
    Faults = FALSE
    Restarts = FALSE
INVARIANTS AgentWithRowHasYaml
