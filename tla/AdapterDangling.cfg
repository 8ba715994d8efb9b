SPECIFICATION Spec
CONSTANTS
    zero = zero
    disc = disc
    first = first
    second = second
    b1 = b1
    b2 = b2
    b3 = b3
    b4 = b4
    ZeroImage = zero
    EmptyCallback = EmptyCallback
    NoHook = NoHook
    Null = Null
    Freed = Freed
    Images <- MCImages
    Generations <- MCGenerations
    Addresses <- MCAddresses
    Keys <- MCKeys
    SessionIdentity <- MCIdentity
    Callbacks <- MCCallbacks
    Bindings <- MCBindings
SYMMETRY MCSymmetry
INVARIANT ContextsAlwaysLive
\* The process may terminate, and a destroyed adapter does nothing.
CHECK_DEADLOCK FALSE
