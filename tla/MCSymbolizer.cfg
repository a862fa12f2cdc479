\* Utf8: texts of up to four bytes, over the bounds that utf8_lead() and
\* matched_length() compare with.
\* SymbolizedProfile: windows of up to three stacks that share addresses, names
\* and spans, with the sampler's frames before, between and instead of the
\* application's.
\* SymbolCache: two handlers, two builds, two addresses, a firmware file that
\* changes twice, a symbols directory that changes once, two profiles.
SPECIFICATION MCSpec
CONSTANTS
    Bytes <- MCBytes
    MaxLength = 4
    StackLists <- MCStackLists
    NoSpan = "none"
    Utf8Of <- MCUtf8Of
    Hex <- MCHex
    BuildId = "build"
    FunctionOf <- MCFunctionOf
    IsrNames <- MCIsrNames
    a1 = a1
    a2 = a2
    b1 = b1
    b2 = b2
    h1 = h1
    h2 = h2
    Builds = {b1, b2}
    Addresses = {a1, a2}
    Handlers = {h1, h2}
    Absent = Absent
    Partial = Partial
    None = None
    Unresolved = Unresolved
    Addr2lineFails = TRUE
    MaxWrites = 2
    MaxFilings = 1
    MaxRequests = 2
SYMMETRY MCSymmetry
INVARIANTS
    ResultIsUtf8
    ReplacesAsRecommended
    DocumentTellsTheStacks
    TablesHaveNoDuplicates
    ForwardedProfileIsTheApplication
    LocationsAreNamed
    CachedHashIsCurrent
    ForeignNamesOnlyAfterReplacement
PROPERTIES
    EveryIterationMovesOn
CHECK_DEADLOCK FALSE
