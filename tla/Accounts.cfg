SPECIFICATION Spec
CONSTANTS
    AtOnce = 2
    Scenes <- MCScenes
    Disturbances = 1
    Failures = {"statement", "task", "restart"}
    Users = {ann, bob, rob, cleo, new}
    ann = ann
    bob = bob
    rob = rob
    cleo = cleo
    Nobody = nobody
    Root = new
    Codes = {k1, k2}
    k1 = k1
    k2 = k2
    Mobiles = {m1, m2}
    m1 = m1
    m2 = m2
    Chats = {c1}
    c1 = c1
    FirstUsers <- MCFirstUsers
    Devices = {d1, d2}
    MaxCredentials = 1
    Past = 1
    Tokens = 2
    MaxKeep = 1
CHECK_DEADLOCK FALSE
INVARIANTS
    LinksAreSound
    FlagsHaveOwners
PROPERTIES
    AnAdminRemains
    RightsAreKept
    NoUpdateIsPassedOver
