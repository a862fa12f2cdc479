-------------------------- MODULE SymbolizedProfile --------------------------
(***************************************************************************)
(* The way of a profile from the device to the collector: export_profiles  *)
(* (ProfilesDocument) writes it with raw addresses, and symbolize() of     *)
(* tools/symbolizer/src/symbolizer/symbolizer.py gives its locations       *)
(* functions and lines, trims the frames of the sampler itself off every   *)
(* stack and drops the samples that have no other.                         *)
(*                                                                         *)
(* What addr2line finds for an address is FunctionOf; how it is found and  *)
(* cached is SymbolCache.  A function is a record [name, file, line]; the  *)
(* empty name stands for an address without one.                           *)
(***************************************************************************)
EXTENDS ProfilesDocument, FiniteSets

CONSTANTS
    FunctionOf,     \* what _resolve() returns for each address
    IsrNames        \* the names ISR_FRAME_RE finds a match in

VARIABLES
    step,           \* where symbolize() is
    l,              \* its loops over locations and stacks
    doc,            \* the profiles it enriches in place
    functions,      \* functionTable: pairs of indices into the strings
    func_index,     \* _resolve()d pairs of a name and a file, and their index
    lines,          \* the locations' line lists: [function, line], or NoLine
    is_isr,
    fully_trimmed

symbols == <<l, functions, func_index, lines, is_isr, fully_trimmed>>
svars == <<vars, step, doc, symbols>>

NoLine == [none |-> TRUE]

SInit ==
    /\ Init
    /\ step = "idle" /\ l = 0 /\ doc = NoDocument
    /\ functions = <<>> /\ func_index = {}
    /\ lines = <<>> /\ is_isr = <<>> /\ fully_trimmed = {}

\* The exporter posts the document to the symbolizer, which finds the ELF
\* file of its build.
Receive ==
    /\ step = "idle"
    /\ exported # NoDocument
    /\ doc' = exported
    /\ lines' = [k \in 1 .. Len(exported.locations) |-> NoLine]
    /\ is_isr' = [k \in 1 .. Len(exported.locations) |-> FALSE]
    /\ step' = "locations"
    /\ UNCHANGED <<vars, l, functions, func_index, fully_trimmed>>

\* What tells two functions apart; the variant forgets the file.
FunctionKeyByName(f) == f.name
FunctionKey(f) == <<f.name, f.file>>

\* The index of a function about to be added.
NewIndex == Len(functions)

\* The line list of a location whose function is known, and the function and
\* its strings where they are new.
AddFunction(f) ==
    LET known == {e \in func_index : e[1] = FunctionKey(f)}
        name  == Interned(doc.strings, f.name)
        path  == Interned(name.strings, f.file)
        index == IF known # {} THEN (CHOOSE e \in known : TRUE)[2] ELSE NewIndex
    IN  /\ lines' = [lines EXCEPT ![l + 1] = [function |-> index, line |-> f.line]]
        /\ IF known # {}
             THEN UNCHANGED <<functions, func_index, doc>>
             ELSE /\ functions' = Append(functions, [name |-> name.index, file |-> path.index])
                  /\ func_index' = func_index \cup {<<FunctionKey(f), index>>}
                  /\ doc' = [doc EXCEPT !.strings = path.strings]

Location ==
    /\ step = "locations" /\ l < Len(doc.locations)
    /\ LET f == FunctionOf[At(doc.locations, l)]
       IN  IF f.name = ""
             THEN UNCHANGED <<functions, func_index, doc, lines, is_isr>>
             ELSE /\ is_isr' = [is_isr EXCEPT ![l + 1] = f.name \in IsrNames]
                  /\ AddFunction(f)
    /\ l' = l + 1
    /\ UNCHANGED <<vars, step, fully_trimmed>>

LocationsDone ==
    /\ step = "locations" /\ l = Len(doc.locations)
    /\ step' = "stacks" /\ l' = 0
    /\ UNCHANGED <<vars, doc, functions, func_index, lines, is_isr, fully_trimmed>>

\* How many frames of a stack are cut off: the leading ones of the sampler.
Cut(idx) == Cardinality({k \in 1 .. Len(idx) : \A n \in 1 .. k : At(is_isr, idx[n])})

\* A stack of nothing else that is emptied like the others.
TrimToNothing ==
    /\ step = "stacks" /\ l < Len(doc.stackTable)
    /\ LET idx == At(doc.stackTable, l)
       IN  /\ doc' = [doc EXCEPT !.stackTable[l + 1] = SubSeq(idx, Cut(idx) + 1, Len(idx))]
           /\ UNCHANGED fully_trimmed
    /\ l' = l + 1
    /\ UNCHANGED <<vars, step, functions, func_index, lines, is_isr>>

\* A stack of nothing else is left as it is, and its samples are dropped.
Trim ==
    /\ step = "stacks" /\ l < Len(doc.stackTable)
    /\ LET idx == At(doc.stackTable, l)
       IN  IF Cut(idx) = Len(idx) /\ idx # <<>>
             THEN fully_trimmed' = fully_trimmed \cup {l} /\ UNCHANGED doc
             ELSE /\ doc' = [doc EXCEPT !.stackTable[l + 1] = SubSeq(idx, Cut(idx) + 1, Len(idx))]
                  /\ UNCHANGED fully_trimmed
    /\ l' = l + 1
    /\ UNCHANGED <<vars, step, functions, func_index, lines, is_isr>>

\* What a list comprehension keeps of a sequence: the elements at the positions
\* in K, in order.
Kept(seq, K) ==
    [n \in 1 .. Cardinality(K) |-> seq[CHOOSE k \in K : Cardinality({j \in K : j <= k}) = n]]

DropSamples ==
    /\ step = "stacks" /\ l = Len(doc.stackTable)
    /\ doc' = [doc EXCEPT !.samples =
                  Kept(@, {k \in 1 .. Len(@) : @[k].stack \notin fully_trimmed})]
    /\ step' = "forwarded"
    /\ UNCHANGED <<vars, symbols>>

SNext ==
    \/ Next /\ UNCHANGED <<step, doc, symbols>>
    \/ Receive \/ Location \/ LocationsDone \/ Trim \/ DropSamples

SSpec == SInit /\ [][SNext]_svars

-----------------------------------------------------------------------------
STypeOK ==
    /\ step \in {"idle", "locations", "stacks", "forwarded"}
    /\ \A k \in 1 .. Len(lines) :
           lines[k] = NoLine \/ lines[k].function \in 0 .. Len(functions) - 1
    /\ \A k \in 1 .. Len(functions) :
           {functions[k].name, functions[k].file} \subseteq 0 .. Len(doc.strings) - 1

IsSampler(addr) == FunctionOf[addr].name \in IsrNames \ {""}

\* What should arrive of a stack: the part from the first frame that is not
\* the sampler's on.
Application(s) ==
    LET first == {n \in 1 .. Len(s.pcs) : ~IsSampler(s.pcs[n])}
    IN  IF first = {} THEN <<>>
          ELSE SubSeq(s.pcs, CHOOSE n \in first : \A m \in first : n <= m, Len(s.pcs))

Expected ==
    LET interrupted == Kept(stacks, {k \in 1 .. Len(stacks) : Application(stacks[k]) # <<>>})
    IN  [k \in 1 .. Len(interrupted) |->
            Labelled([interrupted[k] EXCEPT !.pcs = Application(interrupted[k])])]

\* From the profiler's table to the collector: every stack that was in
\* application code arrives, with its count, name and span, cut down to its
\* application frames, and no other does.
ForwardedProfileIsTheApplication ==
    step = "forwarded" => Decoded(doc) = Expected

\* Every location of a known function leads to that function's name, its own
\* file and its line, whatever functions share a name or a file.
LocationsAreNamed ==
    /\ STypeOK
    /\ step = "forwarded" =>
        \A k \in 1 .. Len(doc.locations) :
            LET f == FunctionOf[doc.locations[k]]
            IN  IF f.name = "" THEN lines[k] = NoLine
                  ELSE /\ lines[k].line = f.line
                       /\ At(doc.strings, At(functions, lines[k].function).name) = f.name
                       /\ At(doc.strings, At(functions, lines[k].function).file) = f.file

=============================================================================
