\* Three clients on two threads.
CONSTANTS
    Threads = {t1, t2}
    Logins = {a, b, c}
    None = None
    Garbage = Garbage
    MaxClients = 3
SPECIFICATION Spec
SYMMETRY Symmetry
CHECK_DEADLOCK FALSE
INVARIANTS
    ClientsInv
    LoginsUnique
PROPERTY
    IssuedIsAccepted
