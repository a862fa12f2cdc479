\* Two tasks that log three messages, up to three nested on one task, over one
\* provider, while the exporters of records and profiles print.
SPECIFICATION CSpec
CONSTANTS
    t1 = t1
    t2 = t2
    Tasks = {t1, t2}
    Providers = {p1}
    NoProvider = NoProvider
    MaxMessages = 3
    MaxNesting = 3
    Tags = {"otel.log"}
    LogTag = "otel.log"
    ProfileTag = "otel.profile"
    Chars <- MCChars
    TextOf <- MCTextOf
    Newline = Newline
    Nul = Nul
    MaxExports = 3
SYMMETRY MCSymmetry
INVARIANTS
    OnlyOutermostEmits
    OuterMessagesAreEmitted
    LinesAreWhole
    NothingEchoes
