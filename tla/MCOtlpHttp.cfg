\* The exporter of one signal with two documents, and the profiles exporter with
\* two windows: the second may overtake the first.
SPECIFICATION FairSpec
CONSTANTS
    traces = traces
    profiles = profiles
    Signals <- MCSignals
    Profiles = profiles
    MaxDocuments <- MCMaxDocuments
INVARIANTS
    OneEndPerRequest
PROPERTIES
    ImplementsDelivery
    EveryExportReturns
