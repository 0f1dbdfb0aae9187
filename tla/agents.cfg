SPECIFICATION Spec
CONSTANTS
    Ids = {a1, a2}
    NoDoc = NoDoc
    Names = {n1, n2}
    Namespaces = {s1, s2}
    Calls = {c1, c2}
    MaxFaults = 1
SYMMETRY Symmetric
INVARIANTS
    TypeOK
    OneAgentPerName
    
PROPERTIES
    DeadOnlyByStaleWriter
