SPECIFICATION Spec
CONSTANTS
    c1 = c1
    c2 = c2
    c3 = c3
    k1 = k1
    k2 = k2
    a1 = a1
    a2 = a2
    n1 = n1
    v1 = v1
    v2 = v2
    p1 = p1
    p2 = p2
    u1 = u1
    CustomerIds = {c1, c2, c3}
    ContactIds = {k1, k2}
    AddressIds = {a1, a2}
    NoteIds = {n1}
    Values = {v1, v2}
    Profiles = {p1, p2}
    Statuses = {"blocked"}
    Users = {u1}
    Nobody = Nobody
SYMMETRY Interchangeable
INVARIANTS
    MergesLeadSomewhere
    RowsStayUnique
PROPERTIES
    MergeKeepsAll
    MergedLeftAlone
