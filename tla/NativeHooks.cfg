SPECIFICATION Spec
CONSTANTS
    zero = zero
    disc = disc
    first = first
    second = second
    cpu = cpu
    host = host
    ZeroImage = zero
    Cpu = cpu
    EmptyCallback = EmptyCallback
    NoHook = NoHook
    Untranslated = Untranslated
    Nobody = Nobody
    Images <- MCImages
    Generations <- MCGenerations
    Addresses <- MCAddresses
    Callbacks <- MCCallbacks
    Hosts <- MCHosts
SYMMETRY MCSymmetry
INVARIANT TypeOK
INVARIANT CodeCoherent
INVARIANT ChangesExclusive
PROPERTY ChangesInvalidated
PROPERTY ServesTable
