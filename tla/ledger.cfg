SPECIFICATION Spec
CONSTANTS
    w = w
    v = v
    x = x
    e1 = e1
    e2 = e2
    e3 = e3
    e4 = e4
    e5 = e5
    e6 = e6
    Event = Event
    Doc = Doc
    w0 = w0
    v0 = v0
    g1 = g1
    g2 = g2
    g3 = g3
    g4 = g4
    g5 = g5
    g6 = g6
    h1 = h1
    k1 = k1
    k2 = k2
    k3 = k3
    r1 = r1
    r2 = r2
    r3 = r3
    c1 = c1
    c2 = c2
    None = None
    Raw = Raw
    Workspace = {w, v}
    Object = {x, e1, e2, e3, e4, e5, e6}
    Kind = {Raw, Event, Doc}
    KindOf <- Kinds
    Generation = {w0, v0, g1, g2, g3, g4, g5, g6, h1}
    Genesis <- GenesisOf
    Key = {k1, k2, k3}
    Request = {r1, r2, r3}
    Mutation <- Shared
    InitialStore <- Events
    Uploaded = {x}
    Caller = {c1, c2}
SYMMETRY CallerSymmetry
INVARIANTS
    QuarantineFollowsHistory
    LedgerBacked
    AuditChainIntact
