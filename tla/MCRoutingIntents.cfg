SPECIFICATION IntentsSpec
CONSTANTS
    a = a
    i = i
    r1 = r1
    u1 = u1
    Owners = {a, i}
    Routes = {r1}
    Uids = {u1}
    UidOf <- MCUidOf
    Managed = {i}
    Intents = {i}
INVARIANTS
    IntentsInv
PROPERTIES
    CoreFreed
    ImplementsAttach
