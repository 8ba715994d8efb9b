SPECIFICATION Spec
CONSTANTS
    zero = zero
    disc = disc
    ZeroImage = zero
    Images <- MCImages
    Generations <- MCGenerations
    Addresses <- MCAddresses
    MaxTickets = 3
INVARIANT TypeOK
INVARIANT OneEntry
INVARIANT EntersOwnKey
INVARIANT NoOrphanBlock
PROPERTY LivesOnce
\* Every ticket of the bound may be spent.
CHECK_DEADLOCK FALSE
