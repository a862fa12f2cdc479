--------------------------- MODULE ProfilesDocument ---------------------------
(***************************************************************************)
(* export_profiles() of src/integration/esp_profiles_document.cpp: turns   *)
(* a window's stacks into one ProfilesData document whose samples refer,   *)
(* by index, to tables of strings, locations, attributes and stacks, and   *)
(* hands it to the exporter the application installed.                     *)
(*                                                                         *)
(* A stack is a record [count, name, span, pcs].  Strings are values that  *)
(* only compare; Utf8Of is to_utf8(), which Utf8 describes, and Hex the    *)
(* hexadecimal form of a span id.  Indices are 0-based, as in the          *)
(* document.  The serialiser is left out: both passes of write_document()  *)
(* emit the record that Document describes.                                *)
(***************************************************************************)
EXTENDS Naturals, Sequences, SequencesExt

CONSTANTS
    StackLists,         \* the windows publish() may pass
    NoSpan,             \* has_span = false
    Utf8Of, Hex,        \* the conversions of a name and of a span id
    BuildId             \* hex(app_elf_sha256)

\* sample_stack() records one address at least.
AStack == [count : Nat, name : DOMAIN Utf8Of, span : {NoSpan} \cup DOMAIN Hex,
           pcs : Seq(Nat) \ {<<>>}]
ASSUME StackListsAssumption == StackLists \subseteq Seq(AStack)

VARIABLES
    exporter,           \* whether g_exporter is set
    stacks,             \* the argument
    pc,                 \* where export_profiles() is
    i, d,               \* the loops of resolve() and add_sample()
    strings, locations, attributes, stack_locations, samples,   \* Document
    location_index, attribute_index,                            \* Resolver
    body,               \* whether the buffer of the document is allocated
    exported            \* the document Export() was called with, if any

tables == <<strings, locations, attributes, stack_locations, samples,
            location_index, attribute_index>>
vars == <<exporter, stacks, pc, i, d, tables, body, exported>>

NoDocument == [none |-> TRUE]
Fixed == <<"", "samples", "count", "process.executable.build_id">>
kStrBuildId == 3

\* The element of a table at a 0-based index.
At(table, k) == table[k + 1]

Init ==
    /\ exporter \in BOOLEAN
    /\ stacks \in StackLists
    /\ pc = "start" /\ i = 0 /\ d = 0
    /\ strings = <<>> /\ locations = <<>> /\ attributes = <<>>
    /\ stack_locations = <<>> /\ samples = <<>>
    /\ location_index = {} /\ attribute_index = {}
    /\ body = FALSE /\ exported = NoDocument

\* Without an exporter, or without stacks, nothing happens; else the Resolver
\* is constructed.
Start ==
    /\ pc = "start"
    /\ IF ~exporter \/ stacks = <<>>
         THEN pc' = "return" /\ UNCHANGED tables
         ELSE /\ pc' = "locations"
              /\ strings' = Fixed
              /\ attributes' = <<[key |-> kStrBuildId, value |-> BuildId]>>
              /\ UNCHANGED <<locations, stack_locations, samples, location_index,
                             attribute_index>>
    /\ UNCHANGED <<exporter, stacks, i, d, body, exported>>

-----------------------------------------------------------------------------
(* add_sample *)

Stack == At(stacks, i)

\* A location that is never found again.
location_for_anew(addr) ==
    /\ locations' = Append(locations, addr)
    /\ UNCHANGED location_index
    /\ stack_locations' = Append(stack_locations, Len(locations))

\* An address has one location, however many stacks it is in.
location_for(addr) ==
    IF \E e \in location_index : e[1] = addr
      THEN \E e \in location_index :
             /\ e[1] = addr
             /\ stack_locations' = Append(stack_locations, e[2])
             /\ UNCHANGED <<locations, location_index>>
      ELSE /\ locations' = Append(locations, addr)
           /\ location_index' = location_index \cup {<<addr, Len(locations)>>}
           /\ stack_locations' = Append(stack_locations, Len(locations))

AddLocation ==
    /\ pc = "locations"
    /\ d < Len(Stack.pcs)
    /\ location_for(At(Stack.pcs, d))
    /\ d' = d + 1
    /\ UNCHANGED <<exporter, stacks, pc, i, strings, attributes, samples,
                   attribute_index, body, exported>>

\* intern: the index of a string, and the strings with it.
Interned(table, s) ==
    IF \E k \in 1 .. Len(table) : table[k] = s
      THEN [index |-> (CHOOSE k \in 1 .. Len(table) : table[k] = s) - 1, strings |-> table]
      ELSE [index |-> Len(table), strings |-> Append(table, s)]

\* The keys by which an attribute is found again.
DedupeByValue(key, value) == value
Dedupe(key, value) == <<key, value>>

\* attribute_for: the tables with the attribute, and the indices a sample has
\* with it.
WithAttribute(t, key, value) ==
    LET known == {e \in t.found : e[1] = Dedupe(key, value)}
        str   == Interned(t.strings, key)
    IN  IF known # {}
          THEN [t EXCEPT !.indices = Append(@, (CHOOSE e \in known : TRUE)[2])]
          ELSE [strings    |-> str.strings,
                attributes |-> Append(t.attributes, [key |-> str.index, value |-> value]),
                found      |-> t.found \cup {<<Dedupe(key, value), Len(t.attributes)>>},
                indices    |-> Append(t.indices, Len(t.attributes))]

\* The sample gets its labels; its locations are the last depth ones.
AddSample ==
    /\ pc = "locations"
    /\ d = Len(Stack.pcs)
    /\ LET now    == [strings |-> strings, attributes |-> attributes,
                      found |-> attribute_index, indices |-> <<>>]
           named  == WithAttribute(now, "thread_name", Utf8Of[Stack.name])
           linked == IF Stack.span = NoSpan THEN named
                       ELSE WithAttribute(named, "span_id", Hex[Stack.span])
       IN  /\ strings' = linked.strings
           /\ attributes' = linked.attributes
           /\ attribute_index' = linked.found
           /\ samples' = Append(samples, [first   |-> Len(stack_locations) - d,
                                          indices |-> linked.indices])
    /\ i' = i + 1 /\ d' = 0
    /\ pc' = IF i + 1 < Len(stacks) THEN "locations" ELSE "measure"
    /\ UNCHANGED <<exporter, stacks, locations, stack_locations, location_index,
                   body, exported>>

-----------------------------------------------------------------------------
(* write_document, twice, and Export *)

\* write_profile and write_dictionary
Document ==
    [samples    |-> [k \in 1 .. Len(stacks) |->
                        [stack |-> k - 1, value |-> stacks[k].count,
                         attributes |-> samples[k].indices]],
     strings    |-> strings,
     mapping    |-> [attributes |-> <<0>>],
     locations  |-> locations,
     stackTable |-> [k \in 1 .. Len(stacks) |->
                        SubSeq(stack_locations, samples[k].first + 1,
                               samples[k].first + Len(stacks[k].pcs))],
     attributes |-> attributes]

\* The first pass may fail to measure the document.
Measure ==
    /\ pc = "measure"
    /\ pc' \in {"allocate", "return"}
    /\ UNCHANGED <<exporter, stacks, i, d, tables, body, exported>>

\* heap_caps_malloc_prefer
Allocate ==
    /\ pc = "allocate"
    /\ \/ pc' = "write" /\ body' = TRUE
       \/ pc' = "return" /\ UNCHANGED body
    /\ UNCHANGED <<exporter, stacks, i, d, tables, exported>>

\* The second pass; its document is exported unless it failed.  What Export()
\* returns is ignored.
Write ==
    /\ pc = "write"
    /\ pc' = "free"
    /\ exported' \in {Document, NoDocument}
    /\ UNCHANGED <<exporter, stacks, i, d, tables, body>>

Free ==
    /\ pc = "free"
    /\ pc' = "return"
    /\ body' = FALSE
    /\ UNCHANGED <<exporter, stacks, i, d, tables, exported>>

Next == Start \/ AddLocation \/ AddSample \/ Measure \/ Allocate \/ Write \/ Free

Spec == Init /\ [][Next]_vars

-----------------------------------------------------------------------------
(* What a reader of the document makes of it *)

Value(doc, a) == [key   |-> At(doc.strings, At(doc.attributes, a).key),
                  value |-> At(doc.attributes, a).value]

Label(doc, sample, key) ==
    LET values == {Value(doc, sample.attributes[k]).value : k \in
                       {k \in 1 .. Len(sample.attributes) :
                            Value(doc, sample.attributes[k]).key = key}}
    IN  IF values = {} THEN NoSpan ELSE CHOOSE v \in values : TRUE

Decoded(doc) ==
    [k \in 1 .. Len(doc.samples) |->
        LET sample == doc.samples[k]
            stack  == At(doc.stackTable, sample.stack)
        IN  [count |-> sample.value,
             name  |-> Label(doc, sample, "thread_name"),
             span  |-> Label(doc, sample, "span_id"),
             pcs   |-> [n \in 1 .. Len(stack) |-> At(doc.locations, stack[n])]]]

Labelled(s) ==
    [count |-> s.count, name |-> Utf8Of[s.name],
     span |-> IF s.span = NoSpan THEN NoSpan ELSE Hex[s.span], pcs |-> s.pcs]

TypeOK ==
    /\ pc \in {"start", "locations", "measure", "allocate", "write", "free", "return"}
    /\ i \in 0 .. Len(stacks) /\ d \in Nat
    /\ \A k \in 1 .. Len(stack_locations) : stack_locations[k] \in 0 .. Len(locations) - 1
    /\ \A k \in 1 .. Len(attributes) : attributes[k].key \in 0 .. Len(strings) - 1
    /\ body \in BOOLEAN

\* Read back through its tables, an exported document gives every stack of
\* the window, in order, with its count, its task's name, its span or none,
\* and its addresses; and the build id by which the symbolizer finds the ELF
\* file.  The buffer it was written to is freed on every path.
DocumentTellsTheStacks ==
    /\ exported # NoDocument =>
        /\ Decoded(exported) = [k \in 1 .. Len(stacks) |-> Labelled(stacks[k])]
        /\ Value(exported, exported.mapping.attributes[1])
             = [key |-> "process.executable.build_id", value |-> BuildId]
    /\ pc = "return" => ~body

\* The tables' indices are in range, and no table holds an entry twice: the
\* document grows with the distinct addresses, names and spans of a window,
\* not with its stacks.
TablesHaveNoDuplicates ==
    TypeOK /\ IsInjective(strings) /\ IsInjective(locations) /\ IsInjective(attributes)
=============================================================================
