----------------------------- MODULE SymbolCache -----------------------------
(***************************************************************************)
(* The lookups and the two caches of the host-side symbolizer              *)
(* (tools/symbolizer/src/symbolizer/symbolizer.py): the handler threads    *)
(* of its ThreadingHTTPServer, which share one Symbolizer without a lock,  *)
(* find the ELF file of a profile's build, by its name in the symbols      *)
(* directory or by its hash, and resolve addresses with addr2line, while   *)
(* the developer rebuilds the firmware in place and files ELF files in     *)
(* that directory.                                                         *)
(*                                                                         *)
(* A build stands for the content of its ELF file and for the hash of it,  *)
(* which is the build id.  A name that addr2line finds for an address is   *)
(* represented by the build it is right for.  One path is searched by      *)
(* hash; what the document is made of with the names is left out.          *)
(***************************************************************************)
EXTENDS Naturals

CONSTANTS
    Builds,         \* the firmware builds there are
    Addresses,      \* the addresses in profiles
    Handlers,       \* handler threads
    Absent,         \* the file's content when there is none
    Partial,        \* ... when it is being written, and the hash of that
    None,           \* nothing cached
    Unresolved,     \* addr2line failed: the empty name
    Addr2lineFails, \* whether addr2line may fail for a good file, too
    MaxWrites,      \* bounds how often the firmware's file changes
    MaxFilings,     \* bounds how often the symbols directory does
    MaxRequests     \* bounds the profiles that are received

ASSUME FailsAssumption    == Addr2lineFails \in BOOLEAN
ASSUME NoBuildsAssumption == {Absent, Partial, None, Unresolved} \cap Builds = {}
ASSUME SpecialsAssumption == None \notin Nat \cup {Absent, Partial, Unresolved} /\ Absent # Partial
ASSUME BoundsAssumption   == MaxWrites \in Nat /\ MaxFilings \in Nat /\ MaxRequests \in Nat

VARIABLES
    content, stamp,     \* the firmware's ELF file; its (mtime, size)
    archive,            \* what <build_id>.elf in the symbols directory holds
    filings,            \* how often that has changed
    hash_cache,         \* _hash_cache[path]: [stamp, digest], or None
    addr_cache,         \* _addr_cache: (build_id, address) -> name, or None
    handler,            \* where a handler is
    build, wanted,      \* its profile's build id and addresses
    st,                 \* _sha256: the result of os.stat
    digest,             \* _sha256: the hash of what it read
    override,           \* _find_elf: whether it took the archived file
    misses,             \* _resolve: the addresses that were not cached
    result,             \* _resolve: the names found so far
    requests,           \* history: how many profiles were received
    matchStamp,         \* history: the file's stamp when it was hashed for the match
    replaced,           \* history: the builds resolved with a file that had changed
    misfiled            \* history: the builds whose archived file was another's

file   == <<content, stamp>>
symbolsDir == <<archive, filings>>
caches == <<hash_cache, addr_cache>>
hist   == <<matchStamp, replaced, misfiled>>
cacheVars == <<file, symbolsDir, caches, handler, build, wanted, st, digest, override, misses, result,
               requests, hist>>

Contents == Builds \cup {Absent, Partial}
Names    == Builds \cup {Unresolved}

CacheInit ==
    /\ content \in Contents /\ stamp = 0
    /\ archive = [b \in Builds |-> Absent] /\ filings = 0
    /\ hash_cache = [stamp |-> None, digest |-> None]
    /\ addr_cache = [b \in Builds |-> [a \in Addresses |-> None]]
    /\ handler = [h \in Handlers |-> "idle"]
    /\ build \in [Handlers -> {CHOOSE b \in Builds : TRUE}]
    /\ wanted = [h \in Handlers |-> {}]
    /\ st = [h \in Handlers |-> 0]
    /\ digest = [h \in Handlers |-> None]
    /\ override = [h \in Handlers |-> FALSE]
    /\ misses = [h \in Handlers |-> {}]
    /\ result = [h \in Handlers |-> [a \in Addresses |-> None]]
    /\ requests = 0
    /\ matchStamp = [h \in Handlers |-> 0]
    /\ replaced = {} /\ misfiled = {}

\* The developer's build (external): the file is removed, written, or
\* complete; its stamp changes each time and never returns to an older one.
WriteFile(c) ==
    /\ stamp < MaxWrites
    /\ c # content
    /\ content' = c
    /\ stamp' = stamp + 1
    /\ UNCHANGED <<symbolsDir, caches, handler, build, wanted, st, digest, override, misses, result,
                   requests, hist>>

\* The developer's files (external): any file can be put under the name of any
\* build, is seen while it is copied, and can be taken away.
FileUnder(b, c) ==
    /\ filings < MaxFilings
    /\ c # archive[b]
    /\ archive' = [archive EXCEPT ![b] = c]
    /\ filings' = filings + 1
    /\ misfiled' = IF c \in Builds \ {b} THEN misfiled \cup {b} ELSE misfiled
    /\ UNCHANGED <<file, caches, handler, build, wanted, st, digest, override, misses, result,
                   requests, matchStamp, replaced>>

Goto(h, step) == handler' = [handler EXCEPT ![h] = step]

\* do_POST: a profile of build b.
ReceiveProfile(h, b, addresses) ==
    /\ handler[h] = "idle"
    /\ requests < MaxRequests
    /\ requests' = requests + 1
    /\ build' = [build EXCEPT ![h] = b]
    /\ wanted' = [wanted EXCEPT ![h] = addresses]
    /\ Goto(h, "find")
    /\ UNCHANGED <<file, symbolsDir, caches, st, digest, override, misses, result, hist>>

-----------------------------------------------------------------------------
(* _find_elf and _sha256 *)

\* A file under the build's name goes before the search of the build
\* directories, whatever it holds: it is not hashed.
Find(h) ==
    /\ handler[h] = "find"
    /\ override' = [override EXCEPT ![h] = archive[build[h]] # Absent]
    /\ Goto(h, IF archive[build[h]] # Absent THEN "lookup" ELSE "stat")
    /\ UNCHANGED <<file, symbolsDir, caches, build, wanted, st, digest, misses, result, requests, hist>>

\* Where a handler goes on with a file of that hash: without a match the
\* profile is forwarded as it is.
Matched(h, d) == IF d = build[h] THEN "lookup" ELSE "reply"

\* os.stat, which fails without a file.
Stat(h) ==
    /\ handler[h] = "stat"
    /\ st' = [st EXCEPT ![h] = stamp]
    /\ matchStamp' = [matchStamp EXCEPT ![h] = stamp]
    /\ Goto(h, IF content = Absent THEN "reply" ELSE "compare")
    /\ UNCHANGED <<file, symbolsDir, caches, build, wanted, digest, override, misses, result, requests,
                   replaced, misfiled>>

\* _hash_cache.get: the cached hash if it is of a file of that stamp.
Compare(h) ==
    /\ handler[h] = "compare"
    /\ IF hash_cache.stamp = st[h]
         THEN /\ digest' = [digest EXCEPT ![h] = hash_cache.digest]
              /\ Goto(h, Matched(h, hash_cache.digest))
         ELSE Goto(h, "read") /\ UNCHANGED digest
    /\ UNCHANGED <<file, symbolsDir, caches, build, wanted, st, override, misses, result, requests, hist>>

\* open and file_digest: what the file holds by now.
ReadFile(h) ==
    /\ handler[h] = "read"
    /\ matchStamp' = [matchStamp EXCEPT ![h] = stamp]
    /\ IF content = Absent
         THEN Goto(h, "reply") /\ UNCHANGED digest
         ELSE digest' = [digest EXCEPT ![h] = content] /\ Goto(h, "remember")
    /\ UNCHANGED <<file, symbolsDir, caches, build, wanted, st, override, misses, result, requests,
                   replaced, misfiled>>

\* The stamp a hash is cached with: of the file as it is when the hash is
\* known, and of the file before it was read.
StampAfterwards(h) == stamp
StampOfHash(h) == st[h]

Remember(h) ==
    /\ handler[h] = "remember"
    /\ hash_cache' = [stamp |-> StampOfHash(h), digest |-> digest[h]]
    /\ Goto(h, Matched(h, digest[h]))
    /\ UNCHANGED <<file, symbolsDir, addr_cache, build, wanted, st, digest, override, misses, result, requests, hist>>

-----------------------------------------------------------------------------
(* _resolve *)

\* What an address is cached under: its build id, or nothing but the path of
\* the file.
KeyOfPath(h) == CHOOSE b \in Builds : TRUE
Key(h) == build[h]

\* The cached names; only what is missing reaches addr2line.
Lookup(h) ==
    /\ handler[h] = "lookup"
    /\ misses' = [misses EXCEPT ![h] = {a \in wanted[h] : addr_cache[Key(h)][a] = None}]
    /\ result' = [result EXCEPT ![h] =
                    [a \in Addresses |-> IF a \in wanted[h] THEN addr_cache[Key(h)][a] ELSE None]]
    /\ Goto(h, IF misses'[h] = {} THEN "reply" ELSE "run")
    /\ UNCHANGED <<file, symbolsDir, caches, build, wanted, st, digest, override, requests, hist>>

\* addr2line opens the file at the path, which for the firmware need not be the
\* one that was hashed any more.  Where it cannot read it, or fails, every name
\* is empty.
Opened(h) == IF override[h] THEN archive[build[h]] ELSE content
Resolutions(h) ==
    (IF Opened(h) \in Builds THEN {Opened(h)} ELSE {Unresolved})
        \cup (IF Addr2lineFails THEN {Unresolved} ELSE {})

Run(h) ==
    /\ handler[h] = "run"
    /\ \E name \in Resolutions(h) :
         result' = [result EXCEPT ![h] =
                      [a \in Addresses |-> IF a \in misses[h] THEN name ELSE @[a]]]
    /\ replaced' = IF ~override[h] /\ stamp # matchStamp[h]
                     THEN replaced \cup {build[h]} ELSE replaced
    /\ Goto(h, "cache")
    /\ UNCHANGED <<file, symbolsDir, caches, build, wanted, st, digest, override, misses, requests,
                   matchStamp, misfiled>>

\* Every fresh result is cached, a failure included.
Cache(h) ==
    /\ handler[h] = "cache"
    /\ addr_cache' = [addr_cache EXCEPT ![Key(h)] =
                        [a \in Addresses |-> IF a \in misses[h] THEN result[h][a] ELSE @[a]]]
    /\ Goto(h, "reply")
    /\ UNCHANGED <<file, symbolsDir, hash_cache, build, wanted, st, digest, override, misses, result, requests, hist>>

\* The document goes to the collector, and the calls' variables end.
Reply(h) ==
    /\ handler[h] = "reply"
    /\ wanted' = [wanted EXCEPT ![h] = {}]
    /\ st' = [st EXCEPT ![h] = 0]
    /\ digest' = [digest EXCEPT ![h] = None]
    /\ override' = [override EXCEPT ![h] = FALSE]
    /\ misses' = [misses EXCEPT ![h] = {}]
    /\ result' = [result EXCEPT ![h] = [a \in Addresses |-> None]]
    /\ matchStamp' = [matchStamp EXCEPT ![h] = 0]
    /\ Goto(h, "idle")
    /\ UNCHANGED <<file, symbolsDir, caches, build, requests, replaced, misfiled>>

CacheNext ==
    \/ \E c \in Contents : WriteFile(c)
    \/ \E b \in Builds, c \in Contents : FileUnder(b, c)
    \/ \E h \in Handlers :
         \/ \E b \in Builds, addresses \in (SUBSET Addresses) \ {{}} : ReceiveProfile(h, b, addresses)
         \/ Find(h) \/ Stat(h) \/ Compare(h) \/ ReadFile(h) \/ Remember(h)
         \/ Lookup(h) \/ Run(h) \/ Cache(h) \/ Reply(h)

CacheSpec == CacheInit /\ [][CacheNext]_cacheVars

-----------------------------------------------------------------------------
CacheTypeOK ==
    /\ content \in Contents /\ stamp \in 0 .. MaxWrites
    /\ archive \in [Builds -> Contents] /\ filings \in 0 .. MaxFilings
    /\ hash_cache.digest \in Builds \cup {Partial, None}
    /\ addr_cache \in [Builds -> [Addresses -> Names \cup {None}]]
    /\ handler \in [Handlers -> {"idle", "find", "stat", "compare", "read", "remember",
                                 "lookup", "run", "cache", "reply"}]
    /\ result \in [Handlers -> [Addresses -> Names \cup {None}]]
    /\ replaced \cup misfiled \subseteq Builds

\* A cached hash that the file's stamp says is still good is the hash of what
\* the file holds, although the file may be written between the stat and the
\* read and two handlers may store their hashes in either order.
CachedHashIsCurrent ==
    /\ CacheTypeOK
    /\ content # Absent /\ hash_cache.stamp = stamp => hash_cache.digest = content

\* Names of one build are given to a profile of another only after a file
\* that had matched was replaced before addr2line opened it, or another's file
\* was put under the build's name: neither cache confuses two builds by
\* itself, and a failing addr2line leaves nothing but empty names.
ForeignNamesOnlyAfterReplacement ==
    \A h \in Handlers, a \in Addresses :
        handler[h] = "reply" /\ result[h][a] \in Builds \ {build[h]} =>
            build[h] \in replaced \cup misfiled

\* symbolizer.py and the symbolizer's README have it that a build's own ELF
\* file in the symbols directory overrides what is found otherwise: a handler
\* that took it, where no other's file ever lay, replies with the names of it,
\* cached ones included.
OverrideIsHonoured ==
    \A h \in Handlers, a \in Addresses :
        handler[h] = "reply" /\ override[h] /\ a \in wanted[h] \ misses[h]
          /\ archive[build[h]] = build[h] /\ build[h] \notin misfiled =>
              result[h][a] = build[h]

=============================================================================
