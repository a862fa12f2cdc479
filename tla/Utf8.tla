--------------------------------- MODULE Utf8 ---------------------------------
(***************************************************************************)
(* to_utf8() of src/integration/esp_profiles_document.cpp: makes UTF-8 of  *)
(* a task name, which FreeRTOS truncates by bytes.  json_generator fails   *)
(* the whole document on a string that is not UTF-8, so what comes out of  *)
(* this loop decides whether a window is exported at all.                  *)
(*                                                                         *)
(* Texts are sequences of bytes without a zero; offset is the i of the     *)
(* code, from 0 on.  The reference it is checked against is Table 3-7 of   *)
(* the Unicode standard, which the code cites, written as a table.         *)
(***************************************************************************)
EXTENDS Naturals, Sequences, FiniteSetsExt

CONSTANTS
    Bytes,      \* the bytes a text is made of
    MaxLength   \* bounds the texts

ASSUME BytesAssumption     == Bytes \subseteq 1 .. 255
ASSUME MaxLengthAssumption == MaxLength \in Nat

VARIABLES
    text,       \* the argument
    offset,     \* the loop variable
    utf8,       \* the result so far
    done        \* the loop has been left

utf8Vars == <<text, offset, utf8, done>>

size == Len(text)
ReplacementCharacter == <<239, 191, 189>>

NoLead == [length |-> 0, min |-> 0, max |-> 0]

\* Leads that do not restrict the second byte any further than the rest.
utf8_lead_uniform(byte) ==
    CASE byte < 128           -> [length |-> 1, min |-> 0, max |-> 0]
      [] byte \in 194 .. 223  -> [length |-> 2, min |-> 128, max |-> 191]
      [] byte \in 224 .. 239  -> [length |-> 3, min |-> 128, max |-> 191]
      [] byte \in 240 .. 244  -> [length |-> 4, min |-> 128, max |-> 191]
      [] OTHER                -> NoLead

\* The length of the sequence a byte starts and the range of its second byte.
utf8_lead(byte) ==
    CASE byte < 128           -> [length |-> 1, min |-> 0, max |-> 0]
      [] byte \in 194 .. 223  -> [length |-> 2, min |-> 128, max |-> 191]
      [] byte = 224           -> [length |-> 3, min |-> 160, max |-> 191]
      [] byte = 237           -> [length |-> 3, min |-> 128, max |-> 159]
      [] byte \in (225 .. 239) \ {237} -> [length |-> 3, min |-> 128, max |-> 191]
      [] byte = 240           -> [length |-> 4, min |-> 144, max |-> 191]
      [] byte \in 241 .. 243  -> [length |-> 4, min |-> 128, max |-> 191]
      [] byte = 244           -> [length |-> 4, min |-> 128, max |-> 143]
      [] OTHER                -> NoLead

\* Whether the byte at offset + m may follow in lead's sequence.
Continues(lead, m) ==
    text[offset + m + 1] \in IF m = 1 THEN lead.min .. lead.max ELSE 128 .. 191

\* How many bytes of lead's sequence are well-formed from offset on.
matched_length(lead) ==
    LET limit == Min({lead.length, size - offset})
        bad   == {m \in 1 .. limit - 1 : ~Continues(lead, m)}
    IN  IF bad = {} THEN limit ELSE Min(bad)

\* How far an iteration moves on: never past the bytes it did not match, and
\* past one in any case.  The variants go byte by byte, and by what matched only.
StrideBytewise(lead)  ==
    IF lead.length > 0 /\ matched_length(lead) = lead.length THEN lead.length ELSE 1
StrideMatched(lead)   == matched_length(lead)
Stride(lead)          == Max({matched_length(lead), 1})

Utf8Init ==
    /\ text \in UNION {[1 .. n -> Bytes] : n \in 0 .. MaxLength}
    /\ offset = 0 /\ utf8 = <<>> /\ done = FALSE

\* A whole character is copied, ...
Character(lead) ==
    /\ lead.length > 0 /\ matched_length(lead) = lead.length
    /\ utf8' = utf8 \o SubSeq(text, offset + 1, offset + lead.length)
    /\ offset' = offset + Stride(lead)
    /\ UNCHANGED done

\* Whether the end of the text cuts a character off.
CutOff(lead) == lead.length > 0 /\ matched_length(lead) < lead.length
                    /\ offset + matched_length(lead) = size

\* ... one cut off by the end of the text is dropped, ...
Incomplete(lead) ==
    /\ CutOff(lead)
    /\ done' = TRUE
    /\ UNCHANGED <<offset, utf8>>

\* ... and any other sequence becomes one U+FFFD.
IllFormed(lead) ==
    /\ matched_length(lead) < lead.length \/ lead.length = 0
    /\ ~CutOff(lead)
    /\ utf8' = utf8 \o ReplacementCharacter
    /\ offset' = offset + Stride(lead)
    /\ UNCHANGED done

Iterate ==
    /\ ~done /\ offset < size
    /\ LET lead == utf8_lead(text[offset + 1])
       IN  Character(lead) \/ Incomplete(lead) \/ IllFormed(lead)
    /\ UNCHANGED text

Return ==
    /\ ~done /\ offset >= size
    /\ done' = TRUE
    /\ UNCHANGED <<text, offset, utf8>>

Utf8Next == Iterate \/ Return

Utf8Spec == Utf8Init /\ [][Utf8Next]_utf8Vars

-----------------------------------------------------------------------------
(* Unicode, Table 3-7: well-formed UTF-8 byte sequences *)

Tail80 == 128 .. 191
Table == {<<0 .. 127>>,
          <<194 .. 223, Tail80>>,
          <<{224}, 160 .. 191, Tail80>>,
          <<225 .. 236, Tail80, Tail80>>,
          <<{237}, 128 .. 159, Tail80>>,
          <<238 .. 239, Tail80, Tail80>>,
          <<{240}, 144 .. 191, Tail80, Tail80>>,
          <<241 .. 243, Tail80, Tail80, Tail80>>,
          <<{244}, 128 .. 143, Tail80, Tail80>>}

Matches(s, row) == Len(s) <= Len(row) /\ \A k \in 1 .. Len(s) : s[k] \in row[k]
IsChar(s)  == \E row \in Table : Len(s) = Len(row) /\ Matches(s, row)
IsStart(s) == s # <<>> /\ \E row \in Table : Len(s) < Len(row) /\ Matches(s, row)

\* Which of a text's beginnings are made of whole characters.
WholeUpTo(s) ==
    LET upTo[k \in 0 .. Len(s)] ==
            k = 0 \/ \E n \in 1 .. Min({4, k}) :
                        IsChar(SubSeq(s, k - n + 1, k)) /\ upTo[k - n]
    IN  upTo

IsUtf8(s) == WholeUpTo(s)[Len(s)]

\* The Unicode standard's recommendation ("substitution of maximal
\* subparts"), and the file's own rule for the end of the text: what is to
\* become of the text from offset k on.
RecommendedFrom(s) ==
    LET from[k \in 0 .. Len(s)] ==
            LET part(n)  == SubSeq(s, k + 1, k + n)
                chars    == {n \in 1 .. Min({4, Len(s) - k}) : IsChar(part(n))}
                starts   == {n \in 1 .. Min({4, Len(s) - k}) : IsStart(part(n))}
                longest  == IF starts = {} THEN 1 ELSE Max(starts)
            IN  CASE k = Len(s) -> <<>>
                  [] k < Len(s) /\ chars # {} -> part(Max(chars)) \o from[k + Max(chars)]
                  [] k < Len(s) /\ chars = {} /\ k + longest = Len(s) /\ starts # {} -> <<>>
                  [] OTHER -> ReplacementCharacter \o from[k + longest]
    IN  from

Recommended == RecommendedFrom(text)[0]

-----------------------------------------------------------------------------
Utf8TypeOK ==
    /\ text \in Seq(Bytes) /\ size <= MaxLength
    /\ offset \in 0 .. size
    /\ done \in BOOLEAN

\* At every moment the loop is inside the text and its result is UTF-8,
\* whatever the text: no byte after the name's terminator is read, and
\* json_generator never fails a document for a task's name.
ResultIsUtf8 == Utf8TypeOK /\ IsUtf8(utf8)

\* "Each ill-formed sequence becomes one U+FFFD, as Unicode recommends": the
\* loop over bytes computes what the standard defines over the set of
\* well-formed sequences.
ReplacesAsRecommended == done => utf8 = Recommended

\* The loop ends, whatever the text: every iteration but the last moves on,
\* past bytes of the text only.
EveryIterationMovesOn == [][done' \/ offset' \in offset + 1 .. size]_utf8Vars
=============================================================================
