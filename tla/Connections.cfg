SPECIFICATION Spec
CONSTANTS
    Conns = {c}
    Listeners = {l}
    FDs = {f1, f2}
    MaxJobs = 2
    None = None
INVARIANTS
    BoundMeansRegistered
PROPERTIES
    Deletable
    ListenerServed
