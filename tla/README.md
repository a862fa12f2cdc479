# A verification project for esp-opentelemetry-cpp

TLA+ models of the component's own logic, TLC configurations that check them on
small instances, and TLAPS proofs for every instance, of every safety property
the runs check.
Paths below are relative to the repository; `PROJECT.json` maps every definition
to the lines it models.

## 1. Inventory

The repository wraps opentelemetry-cpp for ESP-IDF: setup calls for four signals
(traces, logs, metrics, profiles), exporters over HTTP, JTAG and the console, a
sampling profiler that runs on a timer interrupt, and a host-side symbolizer
(Python) between the device and the collector.

| Component | State | Operations | Interacts with | What makes it correct |
|---|---|---|---|---|
| Sample ring (`esp_profiling.cpp`) | per core: `head`, `tail`, slots; two counters | `on_timer` (interrupt), `drain_rings` (task) | interrupt and task share memory without a lock | no data race; delivery once, whole, in order; drops only when full; everything is drained |
| Span slot (`esp_task_span_slot.cpp`) | per task: a seqlocked span id and the last stamped span | `Attach`, `Detach`, the interrupt's read, task deletion | context stack of opentelemetry-cpp; sampling interrupt | the interrupt never sees a torn or ended span; every span it sees is stamped, once |
| Aggregation and windows (`esp_profiling.cpp`) | `g_agg`, `g_agg_index`, the window | `aggregate`, `drain_rings`, `publish`, the loop of `export_task` | all rings; the profiles exporter | exact counts; index and table agree; each sample is accounted for |
| Profiler timing | clocks, `next_publish`, ring fill | sampling, draining, exporting | timer, scheduler, network | drops only behind a slow export; length and stamps of windows |
| JTAG channel (`esp_jtag_channel.cpp`) | a mutex, a two-block host channel | `WriteDocument`, `Flush` | every exporter's task; the host | one document per line; truthful results; no writer blocked for ever |
| Profiles document (`esp_profiles_document.cpp`) | dictionary tables, two passes, a buffer | `export_profiles` | aggregation, exporter, symbolizer | the tables decode to the window; the buffer is freed |
| UTF-8 repair (same file) | one loop | `to_utf8` | task names from FreeRTOS | ends, and its result is UTF-8 as Unicode recommends |
| Symbolizer caches (`tools/symbolizer`) | hash cache, address cache | `do_POST`, `_find_elf`, `_sha256`, `_resolve` | handler threads; a file the developer rebuilds, files in the symbols directory | no stale hash; no names of another build but from a file that was one |
| Symbolizer enrichment | function table, line lists | `symbolize` | the device's document | right names; sampler frames cut, other stacks intact |
| Signal setup (`esp_tracing.cpp`, `esp_logs.cpp`, `esp_metrics.cpp`, `esp_profiling.cpp`, `esp_export_thread.hpp`) | guards, providers, per-task thread configuration | the four setup calls | concurrent application tasks; SDK threads | first installation stays; no orphaned thread; large stacks only where meant |
| Log bridge (`esp_logs.cpp`) | thread-local re-entry flag | `esp_opentelemetry_log_and_emit` | console, provider, and whatever logs during an emission | no recursion; every outer message emitted once |
| HTTP client transport (`esp_http_client_transport.cpp`) | a session: `request_`, `active_`, `cancelled_`; an `esp_http_client` handle | `SendRequest`, `PerformSync`, `CancelSession`, `FinishSession` | OTLP exporters of traces, logs, metrics; the SDK's response handler | one end per request on every path; the handle freed |
| OTLP/HTTP exporters (`esp_otlp_http_exporters.cpp`, `workarounds/otlp_http_exporter_esp.cc`) | options; one request at a time | `Export`, `Shutdown` | the transport, or `esp_http_client` directly (profiles); collector or symbolizer | every export returns; what is reported delivered is stored |
| Symbolizer forwarding (`__main__.py`) | a thread per request | `do_POST`, `_forward` | device, collector | confirms only what the collector confirmed; sends nothing twice |
| esp_log and ostream exporters (`esp_log_exporters.cpp`, `esp_profiles_exporter.cpp`) | a line buffer per exporter | `overflow`, `Export`, `Shutdown` | the console, whose macros the log bridge also replaces | whole lines; no echo |
| JTAG exporters (`esp_jtag_exporters.cpp`) | none | `Append`, `ForceFlush`, `Export` | the JTAG channel | what each caller is told of the channel's result |
| POSIX shims, aligned allocation, git reference, profiling stub, examples | none to speak of | | | |

What is hard here: an interrupt that may hit between any two instructions of the
task it samples; an interrupt on one core against a task on the other; exports
that hold up the task that drains the rings; a host that stops reading in the
middle of a document, or is not there at all; two hops of HTTP that give up on each other at different times; setup calls
from several tasks; recursion through logging;
a file that changes under two caches; numeric bounds of a hand-written UTF-8
decoder. `PROJECT.json` lists the hazards at their lines, with the properties
that would catch each one going wrong.

## 2. Modules

| Module | Models | Composition |
|---|---|---|
| `LossyQueue` | what the ring promises: a bounded queue that loses only by refusing | implemented by `SampleRing`, used by `ProfileWindow` |
| `SampleRing`, `SampleRing_proofs` | ring, interrupt and drain, one shared access per step | `MCSampleRing` |
| `SpanSlot`, `SpanSlot_proofs` | `Attach`, `Detach`, seqlock, stamp, out of memory, task exit | `MCSpanSlot` |
| `ProfileWindow`, `ProfileWindow_proofs` (which also holds the proofs about `DrainTiming`) | all rings (as `LossyQueue`s), the table, the index, the windows | `MCProfiler` |
| `DrainTiming` | one core's ring and the export task on a clock | `MCProfiler`, `MCDrainTiming` |
| `JtagChannel`, `JtagChannel_proofs` | the exporters' tasks, the lock, the app-trace channel, a host that comes and goes | `MCJtagChannel` |
| `Utf8` | `to_utf8`, with a reference definition of well-formed UTF-8 | `MCSymbolizer` |
| `ProfilesDocument` | `export_profiles`: both passes, every failure path | extended by `SymbolizedProfile` |
| `SymbolizedProfile` | the symbolizer's `symbolize()` on the document the device sent | `MCSymbolizer` |
| `SymbolCache` | handlers, the two caches, the firmware's ELF file and those in the symbols directory, and who writes them | `MCSymbolizer`, `MCSymbolCache` |
| `Symbolizer_proofs` | | the proofs about `ProfilesDocument`, `SymbolizedProfile`, `SymbolCache` and `Utf8` |
| `SignalSetup`, `SignalSetup_proofs` | the setup calls of all four signals | `MCSignalSetup` |
| `LogBridge` | nested log calls, the flag, provider changes | extended by `LogConsole` |
| `EspLogExporters` | the line buffer in front of `ESP_LOGI`, the tag's filter, the profiles exporter | instance in `LogConsole` |
| `LogConsole`, `LogConsole_proofs` | bridge and exporters on one console | `MCLogConsole` |
| `Delivery` | what exporting over HTTP promises: each document stored at most once, and only what is stored confirmed | implemented by `OtlpHttp` |
| `OtlpHttp`, `OtlpHttp_proofs` (which also holds the proofs about `Delivery`) | the sessions of the signals' exporters, the profiles exporter, the symbolizer's handler threads, the collector | `MCOtlpHttp` |

`MCProfiler` and `MCSymbolizer` each hold modules that share no variable. A behaviour
of such a run is one of `ProfileWindow` or of `DrainTiming`; or it is the loop of
`Utf8` over one name, after which, where the name is empty, either a window goes
through `SymbolizedProfile` or requests come to `SymbolCache`. So each module is
explored in full, and the numbers of states add up instead of multiplying.

Names follow the code. An action is one handler, or one step of it between two
points where another actor can come in. Operators named after a fault
(`HasRoomUnchecked`, `DetachNoUpdate`, ...) are not used by any specification:
each is a plausible bug of the definition after it, and substituting it makes the
property that `PROJECT.json` lists fail.

How state and actions correspond to the code, where it is not the obvious:

* **SampleRing** splits `on_timer` into its check for room, the walk of the stack,
  the read of the span, the two counters and the store of `head`; and a drain
  into the snapshot of `head`, the two halves of a sample and the store of
  `tail`. Steps interleave sequentially consistently. The code uses
  release/acquire on `head` and `tail`, which gives the same behaviours as long
  as the payload accesses are free of races; that is `NoDataRace`, which is
  proved. `total` and `spanned` are two further steps because their order shows.
* **SpanSlot** has the interrupt's read as a state function: the interrupt runs
  on the core of the task it samples, so the task stands still, and the read is
  checked in every state. A span id is two words, written in either order, as
  the compiler may between the two fences.
* **ProfileWindow** uses the queue rather than the ring, which the refinement
  theorem justifies. An interrupt is two steps, the sample (`head`) and the counter
  (`total`); `uncounted` are the cores between them. `leftOut`, `lost`, `exported`
  and `window` are history.
* **DrainTiming** has one sampling period as its unit. The task takes its next
  step between `ready` and `deadline`. `missed` and `exportTook` are history: the
  samples that found the ring full since the last drain, and the export that
  followed it. The wall clock and the monotonic clock show the same time, read at
  the moments the code reads them.
* **JtagChannel** has two blocks, as the app-trace controller does: one being
  filled, one exposed to the host. With a host (`connected`), a write fails when
  neither has room, which stands for its timeout. Without one the channel is in
  post-mortem mode (`examples/jtag/README.md:113-116`, `Kconfig.projbuild:77-79`):
  the blocks are swapped without waiting, and what nobody read is overwritten
  (`unread`). The host may come and leave at any step. `gone` keeps every byte that
  left the blocks, either way. A document is the sequence of its byte positions.
* **ProfilesDocument** abstracts JSON to the record it encodes; both passes
  (measure, write) are actions that may fail.
* **SymbolCache** has one path of the firmware's ELF file, which is searched by hash,
  and one `<build_id>.elf` for each build in the symbols directory. The latter
  start out absent; any content may be put there at any time (`FileUnder`), the
  right one, another build's or a part of one, and `Find` only asks whether there is
  a file. `addr2line` opens whichever path was found some time later, and may fail
  even on a good file.
* **SignalSetup** keeps, for each task, the esp-pthread configuration that the
  next thread it creates will get.
* **LogBridge** keeps a stack of calls per task, because `EmitLogRecord` may log.
  A record is known by the message it was made of.
* **EspLogExporters** takes a text as characters of which line ends and NULs
  matter. The application may change a tag's level between any two lines.
  **LogConsole** lets the batch processor (external) hand each record of the
  bridge to the log exporter, which prints with ESP-IDF's own macro.
* **JtagChannel** also has the two ways of `esp_jtag_exporters.cpp`: the profiles
  exporter returns the channel's result, the appender of the other signals
  drops it; and a flush, without the lock, from any task.
* **OtlpHttp** has, for a signal's exporter, each step of `SendRequest` and
  `PerformSync`, with what the handler is told (`told`); for the profiles
  exporter, each step of its `Export`; and for each request on its way a record
  of what the receiver has done with it. Giving up (a refusal, a reset, a timeout)
  may happen in any state of the request and leaves it with the receiver, whole
  or cut off. The symbolizer's request to the collector is the second half
  (`forwarded`, `reply`) of the same record, and outlives its sender as well.
  Statuses are three representative answers. The collector, `esp_http_client` and
  the SDK's `OtlpHttpClient` are external.

## 3. Runs

`CHECK_DEADLOCK FALSE` is set in `MCSymbolizer`, whose computations end, and in
`MCSymbolCacheOverride` and `MCSignalSetup`, where the bound on requests and calls
is used up. In every other run a state without a successor
is an error. The runs whose property fails are in section 6.

| Run | Bounds | What it shows |
|---|---|---|
| `ring` | 3 slots, 5 interrupts, 2 stacks, with and without a span, counters modulo 3 | both indices wrap, the ring fills, drops happen, counters wrap: `NoDataRace`, `DeliveredInOrder`, `CountersAgree`; `ImplementsQueue` (refinement); `EventuallyDrained` |
| `slot` | 1 task, 2 spans, 3 contexts, 3 deep, `seq` modulo 4, allocation may fail at any time | `SampledSpanIsActive`, `SettledSlotIsExact`, `SampledSpanIsStamped`, `NoRepeatedStamp` |
| `profiler`, contents | 2 cores, rings of 2, a table of 2, 4 interrupts, samples that only the right key tells apart | `TableCountsStacks`, `IndexMatchesTable`, `SamplesAreConserved` |
| `profiler`, clocks | 20 Hz, so that a period is the drain interval of 50 ms; 26 slots (1.25 s), windows of 5 s, exports of up to the client's timeout of 5 s, lateness 1; 215 periods, two windows | `LossNeedsASlowExport`, `WindowLength`, `StartIsOffByOneExport` |
| `timing_defaults` | 100 Hz, 128 slots, 50 ms, windows of 5 s, exports of up to 5 s, never late | `NoSampleDropped` fails |
| `timing_start` | as the clocks of `profiler` | `StartMarksTheSamples` fails |
| `jtag` | 3 tasks, one of them the profiler's, a document each, chunks of 2 and blocks of 3 bytes, a host that comes, reads and leaves at any time | `DocumentsAreContiguous`, `ExactlyOneNewline`, `ResultTellsWhatWasWritten`, `EveryCallReturns` |
| `jtag_mix` | as `jtag` | `LineIsNeverAMix` fails |
| `symbolizer`, names | 12 byte values, one on each side of the bounds the code compares with; up to 4 bytes, the longest character | `ResultIsUtf8`, `ReplacesAsRecommended`, `EveryIterationMovesOn` |
| `symbolizer`, windows | up to 3 stacks; shared addresses, colliding names, sampler frames anywhere | `DocumentTellsTheStacks` (which includes that the body is freed), `TablesHaveNoDuplicates`, `ForwardedProfileIsTheApplication`, `LocationsAreNamed` |
| `symbolizer`, caches | 2 handlers, 2 builds, 2 addresses, 2 rewrites of the firmware's file, 1 change of the symbols directory, a failing `addr2line`, 2 profiles | `CachedHashIsCurrent`, `ForeignNamesOnlyAfterReplacement` |
| `cache_override` | no rewrite, 2 changes of the symbols directory, no failing `addr2line` | `OverrideIsHonoured` fails |
| `setup` | 3 tasks, 3 calls of all signals, in all forms | `NoThreadIsOrphaned`, `OnlyExportThreadsAreLarge`, `FirstInstallationStays`, `TracingIsSetUp` |
| `logs` | 2 tasks, 3 messages, up to 3 nested, a provider that is installed at any time, texts that end in or span line ends and contain a NUL, 3 exports | `OnlyOutermostEmits`, `OuterMessagesAreEmitted`, `LinesAreWhole`, `NothingEchoes` |
| `http` | 1 signal and the profiles exporter, 2 documents each, any hop giving up at any time, shutdown at any time | `OneEndPerRequest`, `ImplementsDelivery` (refinement), `EveryExportReturns` |

Why these bounds are enough: in `ring`, five interrupts go once and a half
around three slots, so that every relation of `head`, `tail` and the snapshot
occurs; the theorems remove the bound. In `slot`, tasks share nothing but the set
of stamped spans, and three contexts allow a detach in the middle of the stack;
again the theorems hold for all tasks. In `slot`'s single task the
stamps of several tasks on one span do not meet; there `NoRepeatedStamp` rests on
its theorem. In `profiler`, the two stacks of the table
are fewer than the kinds of samples, and an export may take four times
what the ring holds, and samples are lost; the rate is low, the ratios are the code's. In `jtag`, the documents are empty, shorter
than a chunk, and longer than a chunk, which is a whole block; a task's second call starts
where its first did, as `WriteDocument` keeps nothing but the lock, and the theorems hold for any number of them. Of the caches, two rewrites are a rebuild in
place (whole, partial, whole) or bring a build back to where it was, two profiles
fill and use each cache, and one change can file the right, the wrong or half a
file. In `logs`, three messages are the outermost call, one that
nests in it and one after it or of another task. In `http`, two documents let the
second overtake the first, whose request the exporter has given up; exporters
share nothing but the collector, and the theorems hold for any number of them and
of documents. Each type invariant is the first conjunct of a run's invariant.

### Fairness

* `SampleRing`: an interrupt handler that began runs to its end, and FreeRTOS
  runs the export task (priority 1, above idle) again after every `vTaskDelay`.
  Nothing makes the timer fire.
* `JtagChannel`: a task inside `WriteDocument` runs; the write and the flush have
  timeouts, and only the mutex is waited for without one (`portMAX_DELAY`).
  Nothing makes the host come or read, and `EveryCallReturns` does not need it to. Weak
  fairness on taking the lock is enough because calls are bounded in the model.
* `OtlpHttp`: an exporter's task runs on, and `esp_http_client_perform` returns by
  its timeout (set in both exporters) at the latest. Nothing makes the symbolizer
  or the collector answer, and `EveryExportReturns` does not need them to; it does
  need each path of `PerformSync` to tell the handler of an end, because the SDK's
  synchronous export waits for one.
* `SignalSetup`: a task in a setup call runs on.

## 4. Proofs

`SampleRing_proofs`, for every capacity of at least 2, every counter modulus,
every bound on the interrupts and every set of stacks and spans:

* `TypeCorrect`, `Delivery` (`DeliveredInOrder`), `RaceFreedom` (`NoDataRace`),
  `DropsOnlyWhenFull` (`DropOnlyWhenFull`), `CountersAreExact` (`CountersAgree`) and
  `Refinement` (`ImplementsQueue`).
* The properties are not inductive: that a slot is not overwritten while it is
  read follows from where `head` is, which follows from how many samples were
  published. The inductive invariant `IInv` therefore says that the distance from
  `tail` to `head` is the number of samples published but not drained
  (`Occupancy`), that the slots between them hold those samples (`Contents`), that
  an interrupt that fills a slot has room for it (`Room`), that the task's
  snapshot lies between the indices (`Snapshot`), and that what the task has
  copied is still in its slot (`CopyOK`).
* `CountersAgree` needs a second one, `Counting`: after the store of `head` the
  total is one behind until the interrupt counts it, and before that store a
  spanned sample is one ahead. Its arithmetic rests on
  `WrappedSuccessor`, (x % m + 1) % m = (x + 1) % m.
* The refinement maps the store of `head` to `Accept`, a failed check to `Refuse`,
  the store of `tail` to `Consume`, and every other step to a stutter. The check
  for room reads a `tail` that may be stale; it can only have moved to make more
  room, so the queue has room at the later store of `head` too.

`SpanSlot_proofs`, for every set of tasks, contexts and spans, every depth and every
even modulus of `seq` (it must be even: parity has to survive the wrap):

* `TypeCorrect`, `SampledSpan` (`SampledSpanIsActive`), `SettledSlot`
  (`SettledSlotIsExact`), from `IInv`, which says where in an update each task is:
  `seq` is odd exactly while fields are being written, the fields already written
  are those of the current span, and outside an update the slot shows the current
  span, or the one from before the call while the call has not reached its update.
* `SampledSpanStamped` (`SampledSpanIsStamped`) and `NoStampTwice`
  (`NoRepeatedStamp`), from `SInv`: the span of every context on the stack is
  stamped, but for the one just pushed; so are the spans in the slot; and the slot
  remembers the task's last stamp unless memory ran out at it. A span that is
  skipped is the remembered one, so it is stamped; a detach leaves a prefix of the
  stack.

`ProfileWindow_proofs`, of `DrainTiming`, for every rate, interval,
latency, export time and length of the run:

* `LossesAreBounded` (`LossNeedsASlowExport`): whatever the ring's size, the samples
  dropped between two drains are no more than what the export between them, the
  drain interval and twice the lateness exceed it by; `WindowsKeepTheirLength`
  (`WindowLength`); and `StartsAreNear` (`StartIsOffByOneExport`): on the monotonic
  clock no sample is older than its window, and the start a document states is
  later than its oldest sample by one export at most. The invariant bounds, at
  each of the task's steps, when the ring was last empty (so how many samples have
  come since, in it or missed), when the window began by either clock and what its
  oldest sample can be.

The same module, of `ProfileWindow`, for every number of cores and size of rings
and table:

* `KeyTellsStacksApart`: the concatenated key is injective on what makes a stack,
  whatever bytes follow the task's name. `IndexIsExact` (`IndexMatchesTable`) and
  `TableIsExact` (`TableCountsStacks`) follow by an invariant that the table has
  one entry for each stack of the window, with its count, in the position the
  index gives for its key.
* `NoSampleIsForgotten` (`SamplesAreConserved`): the counts of `exported`, `lost`,
  `leftOut`, the table and the rings add up to the number of samples taken. The sums are
  over any number of cores and stacks, without induction, and count a sample whose
  interrupt has not reached its counter yet (`Published`): `SumOf(f)` is the size of
  a set with `f[x]` elements for each `x`, a step adds one element to such a set or
  removes one, and the invariant `Conserved` carries that these sets are finite.

`OtlpHttp_proofs`, for every set of signals and number of documents:

* `OneEnd` (`OneEndPerRequest`) and `Refinement` (`ImplementsDelivery`). The invariant
  says what the handler has been told at each step (`Session`), that the fate of a
  document is open exactly while its export is under way (`Fate`), that requests
  carry different documents, none of them the one about to be sent (`Numbered`,
  `Once`, `Fresh`), that the last request is the one whose answer is told
  (`Current`), and that a document is stored if and only if the collector's answer
  to its request is Ok, which is the only way to an Ok for the device (`Honest`).
  The refinement maps `Begin` and `BeginProfiles` to `Submit`, the end of an export
  to `Confirm` or `GiveUp`, the collector's steps to `Store`, all else to a stutter.
* `DeliveredIsStored` and `StoredOnceAndInOrder` are what `Delivery` is worth: what is
  confirmed is stored; nothing is stored twice; and a document is overtaken only
  after its exporter has given it up. With the refinement, `DeliveredWindowIsStored`
  and `WindowsOnceAndInOrder` state the same of `OtlpHttp`.

`LogConsole_proofs`, for every number of tasks, providers and messages and every
nesting:

* `NoRecursion`, `MessagesAreEmitted`, `RecordsDoNotEcho`. The invariant: a task has
  at most two calls in progress, the second of which returns at the flag, which is
  set exactly while the first emits; the first call's message alone is an outer
  one; and an outer message on the console has a record, or the call that will
  make it is still in progress, never both.
* `NoLineIsTorn` (`LinesAreWhole`), for texts of any characters: what a buffer
  printed is the text written to it so far, cut at its line ends, up to the NUL where
  `ESP_LOGI` ends a line. The invariant `PrintInv` says that the text ends with the
  buffered rest, that each printed line is one of the text's, and that writing more
  moves no line that is ended already; how texts and exports meet does not matter.

`JtagChannel_proofs`, for every number of tasks, documents of any length, every
chunk and block size and every host:

* `Contiguity` (`DocumentsAreContiguous`), `SingleNewline` (`ExactlyOneNewline`) and
  `ResultsAreTrue` (`ResultTellsWhatWasWritten`), with and without a host. None is inductive: that a chunk may
  follow the last byte needs that no other task wrote in between, and what a result
  says needs where the document lies. `IInv` says that exactly the task between
  taking and giving the lock holds it (`Mutex`); that a task's count of written bytes
  agrees with where it is (`Progress`); that the bytes of its last document, as many
  as it counted, lie together from some position on (`Laid`); that the writer
  of a document appends to its own last byte (`AtEnd`); and that the stream
  otherwise ends with a newline, or with a document whose newline failed
  (`LineIsEnded`). A flush, a swap and the host move bytes between the blocks
  and out of them and leave the stream, their concatenation, as it is. As long as
  a host stays, only bytes it has read leave (the `Attendance` lemmas).

`Symbolizer_proofs`, for windows of any number of stacks of any depth, all names,
addresses and functions, any number of builds, handlers and requests, and all texts:

* `StacksAreTold` (`DocumentTellsTheStacks`) and `NoTableEntryTwice`
  (`TablesHaveNoDuplicates`), from `PInv`. The decoded document is known only at the
  end; the invariant says what holds in the middle of the loops: the tables have no
  doubles and are indexed exactly, a finished sample's indices lead to its labels and
  its stack's addresses, and the location list being written leads to the first
  `d` addresses. Every table only grows, so what an index leads to stays.
* `LocationsLeadToTheirFunction` (`LocationsAreNamed`) and `ApplicationIsForwarded`
  (`ForwardedProfileIsTheApplication`), from `SInv`, which contains `PInv`: the
  received document is the exported one with more strings and with its first `l`
  stacks trimmed; a function's key leads back to its name and its file; the marked
  frames are the sampler's.
* `HashesAreCurrent` and `NamesAreForeignOnlyAfterReplacement`, from `CacheInv`: whatever a handler read between two steps of another or of the
  developer's build is tied to the time stamp it saw, so a hash, in the cache or in a
  handler's hands, is the file's as long as its stamp is (`HashIsOfStamp`,
  `Handling`), and a name that is not the build's own came from a file that was
  replaced, or was never its own (`NamesAreOwned`, `FilesAreKnown`).
* `NamesBecomeUtf8` (`ResultIsUtf8`), `TheLoopMovesOn` (`EveryIterationMovesOn`) and
  `ReplacementFollowsUnicode` (`ReplacesAsRecommended`), for texts of any length and any bytes, from `Utf8Inv`:
  what is written is made of whole characters, and followed by what the standard
  recommends for the rest of the text it is what the standard recommends for the
  text. Under it lie `CharsAndStarts`, that `utf8_lead()` reads the rows of Table 3-7
  (`LeadOfRow`, `RowOfLead`), and `StartAdvised`, that `matched_length()` counts the
  longest start of a character. The two reference functions are recursive over the
  text; `WholeStays` and `RecommendedBytes` argue about them from the
  shortest beginning, or rest, of which the claim is false.

`SignalSetup_proofs`, for every number of tasks and calls:

* `FirstStays`, `ThreadsAreOwned`, `LargeStacks`. The invariant: at most one task is
  between the guard of tracing or logs and its installation, and only while
  nothing is installed; every export thread belongs to what is installed or to a
  task that will install it or shut it down; the configuration for a large stack
  is in force only around the construction.

The assumptions are the named `ASSUME`s of the modules; TLC evaluates them in the
runs. Some deserve a word: `NewlineAssumption` says that the newline is no byte of a
document's body, which is JSON on one line; `StackListsAssumption` that a stack has
at least one address, as `sample_stack()` records the interrupted one first;
`SpecialsAssumption` that the markers of a cache's empty entry and of a file that is
absent or half written are different from stamps and from each other;
`TextsAssumption` that messages are texts. Each invariant was checked by TLC before it was proved.

Only model-checked: all liveness (`EventuallyDrained`, `EveryCallReturns`,
`EveryExportReturns`, `TracingIsSetUp`), which is out of the prover's
reach with fairness and ENABLED.

## 5. Not modelled, and why

* POSIX shims: `nanosleep` turns seconds and nanoseconds into ticks with
  `pdMS_TO_TICKS`, an ESP-IDF macro whose width and rounding depend on a
  configuration the repository does not hold; the rest returns constants.
* Aligned allocation, `sys/mman.h`, git reference, profiling stub: stateless
  wrappers around ESP-IDF, and constants.
* Examples, tests, build files: read for configuration and documented behaviour.
* JSON text, hexadecimal formatting, log wording; `BuildUrl()`, `ToEspMethod()`,
  headers and the factories of exporters, which only fill records that are handed
  on.
* The SDK (batch processors, `OtlpHttpClient`, Ostream exporters), `esp_http_client`,
  the app-trace controller and the collector are external: modelled as far as the
  code here relies on them.
* In the symbolizer: a machine without `addr2line`, several search paths,
  documents that the device does not write, requests for other paths and health
  checks. A request that cannot be symbolized is forwarded as it is, which no
  property tells from one that can.
* `SampleRing` has one ring; `ProfileWindow` has all of them. Memory exhaustion at
  the profiler's setup aborts the program and is not a behaviour of the model.

## 6. Where the code and its words differ

Checked by a run:

* **Two documents may share a line** (`jtag_mix`). The result of writing the final
  newline is ignored (`esp_jtag_channel.cpp:85`); `examples/jtag/README.md:23` says
  that a line is never a mix. `ExactlyOneNewline` says how far the claim does hold.

* **A slow export overflows the ring** (`timing_defaults`). `publish()` runs in the
  drain loop (`esp_profiling.cpp:276`) for up to the exporter's 5 s
  (`esp_otlp_http_exporters.cpp:105`); a default ring holds 1.27 s of samples at 100
  Hz. The comment at `:234` and `Kconfig.projbuild:157-158` have it that the rings
  never overflow. `LossNeedsASlowExport` says what is true: the export has to
  outlast the ring, after one drain interval and the task's lateness. With 16 slots
  at 1000 Hz, both allowed by Kconfig, no export is needed: 50 samples arrive between two
  drains and 15 fit, where the comment at `:248-250` excludes an overflow.
* **A document's start is later than its first samples** (`timing_start`).
  `wall_start` is read after `publish()` returned (`esp_profiling.cpp:281`), and the
  samples taken meanwhile belong to the next document. The comment at `:264-266`
  says that it marks when the samples were taken. `StartIsOffByOneExport` says by how
  much it may not; `mono_start`, which the duration is measured from, does mark it.
* **A failed resolution is for ever** (`cache_override`). Empty names are cached as
  well (`symbolizer.py:136`), so a build whose file was half copied when its first
  profile came stays unresolved after its own ELF file lies in the symbols
  directory, until the symbolizer is restarted; `:9-10` and
  `tools/symbolizer/README.md:18-19` call that file an override.
Seen while modelling; the models contain the behaviour and no run is spent on it:

* In the app-trace's post-mortem mode every write succeeds, so the JTAG profiles
  exporter returns true (`esp_jtag_channel.cpp:99`) for a document that is
  overwritten, where `include/esp_profiles_exporter.hpp:33-34` says that it returns
  false for one that could not be delivered. `examples/jtag/README.md` does say that
  spans are simply overwritten. `ResultTellsWhatWasWritten` says what the result
  does tell: `unread` may hold a document that was reported written.
* The symbolizer caches under the build id it matched whatever `addr2line` finds
  later in the file of that path (`symbolizer.py:134-136`); the comment at `:65-68`
  gives the key as the reason why no stale resolutions are served. This is one of
  the two cases that `ForeignNamesOnlyAfterReplacement` exempts (`replaced`); the
  other is the developer's own, a file under the wrong name (`misfiled`), which is
  not hashed (`:97-99`).
* The guard of profiling (`esp_profiling.cpp:328`) is a plain `bool`, where tracing and
  logs exchange an atomic: two tasks may both pass it, each starts an export task,
  and the second replaces the exporter of the first, which the comment at `:332-333`
  and `include/esp_profiling.hpp:30-31` exclude. `FirstInstallationStays` holds the
  code to what the guard can do: once no call is between it and the installation
  (`ProfilingSettled`), no later call replaces anything.
* `on_timer` counts the span (`:159`) before the sample (`:162`), so a reader of
  both counters may see more spanned samples than samples.
* What a caller is told is not always what happened. The JTAG appender drops
  `WriteDocument`'s result, so traces, logs and metrics count as exported when the
  channel was full (`Answer` in `JtagChannel`); the
  esp_log profiles exporter returns true when its tag is filtered; the SDK's
  processors are told success after a failed synchronous HTTP export.
* A document that the device counts as lost may have reached the collector: the
  device gives a window up after 5 s, the symbolizer a forwarded request after
  10 s, and neither withdraws what it sent. Nothing sends a document twice, which
  is what makes `Delivery` hold; a window that was not delivered is gone.
* `CancelSession` and `FinishSession` set flags that nothing reads while a request
  runs, and the request's compression and retry policy are stored and never used.

## 7. What is left

1. An abstract line printer that `JtagChannel` implements.
2. An abstract window, a bag of stacks, that `ProfileWindow` implements.
