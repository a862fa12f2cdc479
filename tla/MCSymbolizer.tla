----------------------------- MODULE MCSymbolizer -----------------------------
(* Small instances of Utf8, of SymbolizedProfile, which composes the device's  *)
(* document with the symbolizer, and of SymbolCache, the symbolizer's caches.  *)
(* They share no variable: a behaviour is the loop over a name, followed, where *)
(* the name is empty, by one of the other two.                                 *)
EXTENDS SymbolizedProfile, Utf8, MCSymbolCache

\* A byte on each side of the bounds that utf8_lead() and matched_length()
\* compare with.
MCBytes == {65, 128, 143, 144, 159, 160, 192, 194, 224, 237, 240, 244}

\* Two names that become the same text, a task named like a span's id, and
\* one whose name is the key of an attribute.
MCUtf8Of == [cut |-> "net", net |-> "net", hex |-> "05", key |-> "span_id"]
MCHex    == [five |-> "05", six |-> "06"]

\* Two functions of the sampler's, two static functions of one name, one
\* named like a task, and an address nothing is known of.
MCFunctionOf ==
    (1 :> [name |-> "on_timer", file |-> "esp_profiling.cpp", line |-> 157])
    @@ (2 :> [name |-> "gptimer_isr", file |-> "gptimer.c", line |-> 9])
    @@ (3 :> [name |-> "net", file |-> "a.cpp", line |-> 1])
    @@ (4 :> [name |-> "net", file |-> "b.cpp", line |-> 1])
    @@ (5 :> [name |-> "", file |-> "", line |-> 0])
    @@ (6 :> [name |-> "net", file |-> "a.cpp", line |-> 2])
MCIsrNames == {"on_timer", "gptimer_isr"}

\* Any two stacks of the larger set, and any three of the smaller.
MCStacks ==
    [count : {1, 2}, name : {"cut", "net", "hex", "key"}, span : {"none", "five"},
     pcs : {<<1, 2, 3>>, <<2, 1>>, <<5, 1, 6>>}]
    \cup [count : {1}, name : {"net"}, span : {"five", "six"}, pcs : {<<1, 4, 1, 3>>, <<3>>}]
MCFewStacks ==
    [count : {2}, name : {"net"}, span : {"none", "five"},
     pcs : {<<1, 2, 3>>, <<1, 4, 1, 3>>, <<2, 1>>}]
MCStackLists == BoundedSeq(MCStacks, 2) \cup SeqOf(MCFewStacks, 3)

\* Only the empty name is followed by a window or by requests, one of the two.
NoName   == text = <<>>
NoStacks == stacks = <<>> /\ exporter = TRUE
NoFile   == content = Absent

MCInit ==
    \/ NoStacks /\ SInit /\ (NoFile \/ NoName) /\ CacheInit /\ Utf8Init
    \/ NoName /\ Utf8Init /\ NoFile /\ CacheInit /\ SInit
MCNext ==
    \/ Utf8Next /\ UNCHANGED <<svars, cacheVars>>
    \/ /\ done /\ NoName /\ NoFile /\ stamp = 0 /\ filings = 0 /\ requests = 0
       /\ SNext
       /\ UNCHANGED <<utf8Vars, cacheVars>>
    \/ /\ done /\ NoName /\ NoStacks /\ pc = "start"
       /\ CacheNext
       /\ UNCHANGED <<utf8Vars, svars>>
MCVars == <<utf8Vars, svars, cacheVars>>
MCSpec == MCInit /\ [][MCNext]_MCVars
=============================================================================
