SPECIFICATION Spec
CONSTANTS
    Readers = {hub, h1, h2}
    NumFuncs <- MCNumFuncs
INVARIANT
    LoadedMeansRegistered
PROPERTY
    ReadersOnlyRead
