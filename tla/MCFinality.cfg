SPECIFICATION Spec
CONSTANTS
    v1 = v1
    v2 = v2
    v3 = v3
    byz = byz
    p1 = p1
    p2 = p2
    p3 = p3
    p4 = p4
    Validators <- MCValidators
    Processes <- MCProcesses
    Owner <- MCOwner
    Byzantine = {byz}
    Domains = {"Vote"}
    Heights = {1}
    Hashes = {"a", "b"}
    Absent = Absent
    Torn = Torn
INVARIANTS
    NoDoubleSign
    Agreement
PROPERTIES
    ImplementsFinalizedBlocks
