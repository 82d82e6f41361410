SPECIFICATION Spec
CONSTANTS
    a = a
    b = b
    r1 = r1
    r2 = r2
    u1 = u1
    u2 = u2
    Owners = {a, b}
    Routes = {r1, r2}
    Uids = {u1, u2}
    UidOf <- MCUidOf
    Managed = {b}
INVARIANTS
    NoOrphan
    IndInv
PROPERTIES
    ForeignUntouched
    ImplementsLedger
