SPECIFICATION Spec
CONSTANTS
    t1 = t1
    t2 = t2
    t3 = t3
    a1 = a1
    a2 = a2
    a3 = a3
    b1 = b1
    b1x = b1x
    b2 = b2
    b3 = b3
    bad = bad
    p1 = p1
    p2 = p2
    NoAtom = NoAtom
    ZeroProv = ZeroProv
    NoFile = NoFile
    TornFile = TornFile
    NoReceipt = NoReceipt
    TxIds = {t1, t2, t3}
    Atoms = {a1, a2, a3}
    Bodies = {b1, b1x, b2, b3, bad}
    Provs = {p1, p2}
    AtomOf <- MCAtomOf
    Requests <- UpdateRequests
    MaxGenerations = 3
    MaxFaults = 0
    FaultsIn <- Nowhere
    TornWrites = FALSE
INVARIANT
    ReopenSucceeds
