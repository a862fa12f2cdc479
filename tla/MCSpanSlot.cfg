\* One task, contexts of two spans and one without a span, up to three deep;
\* tasks share nothing but the set of stamped spans.
SPECIFICATION Spec
CONSTANTS
    Tasks = {t1}
    a = a
    b = b
    ca = ca
    cb = cb
    cnone = cnone
    NoSpan = NoSpan
    Contexts <- MCContexts
    Spans <- MCSpans
    SpanOf <- MCSpanOf
    StampKey = TRUE
    MaxDepth = 3
    SeqModulus = 4
INVARIANTS
    SampledSpanIsActive
    SettledSlotIsExact
    SampledSpanIsStamped
PROPERTIES
    NoRepeatedStamp
