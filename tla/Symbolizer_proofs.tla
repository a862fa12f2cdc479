-------------------------- MODULE Symbolizer_proofs --------------------------
(***************************************************************************)
(* Of the way of a profile to the collector, for stacks, names, functions  *)
(* and builds of any number.                                               *)
(*                                                                         *)
(* ProfilesDocument: PInv says what the tables hold in the middle of the   *)
(* two loops.  The strings and the attributes are without doubles, every   *)
(* attribute index handed out reads as the key and the value it was asked  *)
(* for, a finished sample carries its stack's labels, and the stack lists  *)
(* written so far lead through the locations to the addresses.             *)
(*                                                                         *)
(* SymbolizedProfile: SInv adds what symbolize() may rely on while it      *)
(* changes the document in place: its own table of strings only grows, the *)
(* function of a name and a file leads back to both, the frames marked are *)
(* those of the sampler, and the stacks already trimmed are the exported   *)
(* ones from their first other frame on.                                   *)
(*                                                                         *)
(* SymbolCache: CacheInv says of each handler which hash, name and file    *)
(* its request can still rely on while others replace the files.           *)
(*                                                                         *)
(* Utf8: Utf8Inv says that what is written, followed by what the Unicode   *)
(* standard recommends for the rest of the name, is what it recommends for *)
(* the name.                                                               *)
(***************************************************************************)
EXTENDS SymbolizedProfile, SymbolCache, Utf8, FiniteSetTheorems, WellFoundedInduction, TLAPS

-----------------------------------------------------------------------------
(* Sets of positions *)

LEMMA LeastElement ==
    ASSUME NEW T, T \subseteq Nat, T # {}
    PROVE  \E m \in T : \A n \in T : m <= n
<1>1. PICK m \in T : \A n \in T : ~ (<<n, m>> \in OpToRel(<, Nat))
  BY NatLessThanWellFounded, WFMin
<1>2. ASSUME NEW n \in T PROVE m <= n
  <2>1. m \in Nat /\ n \in Nat
    OBVIOUS
  <2>2. ~ (n < m)
    BY <1>1, <2>1 DEF OpToRel
  <2> QED BY <2>1, <2>2
<1> QED BY <1>2

\* The positions Kept() chooses are in K.
Rank(K, k) == Cardinality({j \in K : j <= k})

LEMMA KeptPosition ==
    ASSUME NEW N \in Nat, NEW K, K \subseteq 1 .. N, NEW n \in 1 .. Cardinality(K)
    PROVE  \E k \in K : Rank(K, k) = n
<1> DEFINE UpTo(m) == {j \in K : j <= m}
           T == {m \in Nat : n <= Cardinality(UpTo(m))}
<1>0. IsFiniteSet(1 .. N)
  BY FS_Interval
<1>1. IsFiniteSet(K) /\ Cardinality(K) \in Nat
  BY <1>0, FS_Subset, FS_CardinalityType
<1>2. \A m : IsFiniteSet(UpTo(m)) /\ Cardinality(UpTo(m)) \in Nat
  <2> TAKE m
  <2>1. UpTo(m) \in SUBSET K
    OBVIOUS
  <2> HIDE DEF UpTo
  <2>2. IsFiniteSet(UpTo(m))
    BY <1>1, <2>1, FS_Subset
  <2> QED BY <2>2, FS_CardinalityType
<1>3. UpTo(N) = K /\ UpTo(0) = {}
  <2>1. \A j \in K : j \in Nat /\ j <= N /\ ~ (j <= 0)
    OBVIOUS
  <2> QED BY <2>1
<1>4. N \in T /\ 0 \notin T
  <2>1. Cardinality({}) = 0
    BY FS_EmptySet
  <2> HIDE DEF UpTo
  <2> QED BY <1>1, <1>3, <2>1
<1>5. PICK m \in T : \A x \in T : m <= x
  BY <1>4, LeastElement
<1>6. m \in Nat /\ m # 0 /\ m - 1 \in Nat /\ m - 1 \notin T
  <2> HIDE DEF T
  <2>1. m \in Nat
    BY DEF T
  <2> QED BY <1>4, <1>5, <2>1
<1>7. Cardinality(UpTo(m - 1)) < n /\ n <= Cardinality(UpTo(m)) /\ n \in Nat
  <2>1. n <= Cardinality(UpTo(m)) /\ ~ (n <= Cardinality(UpTo(m - 1)))
    BY <1>5, <1>6
  <2> HIDE DEF UpTo
  <2> QED BY <1>1, <1>2, <2>1
<1>8. UpTo(m) = UpTo(m - 1) \cup (IF m \in K THEN {m} ELSE {})
  <2>1. \A j \in K : j <= m <=> j <= m - 1 \/ j = m
    BY <1>6
  <2> QED BY <2>1, <1>6
<1>9. m \in K
  <2>1. m \notin K => UpTo(m) = UpTo(m - 1)
    BY <1>8
  <2> HIDE DEF UpTo
  <2> QED BY <1>2, <1>7, <2>1
<1>10. m \notin UpTo(m - 1)
  BY <1>6
<1>11. Cardinality(UpTo(m)) = Cardinality(UpTo(m - 1)) + 1
  <2>1. UpTo(m) = UpTo(m - 1) \cup {m}
    BY <1>8, <1>9
  <2> HIDE DEF UpTo
  <2>2. Cardinality(UpTo(m - 1) \cup {m}) = Cardinality(UpTo(m - 1)) + 1
    BY <1>2, <1>10, FS_AddElement
  <2> QED BY <2>1, <2>2
<1>12. Cardinality(UpTo(m)) = n
  <2> HIDE DEF UpTo
  <2> QED BY <1>2, <1>7, <1>11
<1> QED BY <1>9, <1>12 DEF Rank

\* The frames of a stack that come before the first that is not the sampler's.
LEMMA Leading ==
    ASSUME NEW N \in Nat, NEW S, S \subseteq 1 .. N,
           NEW lead, lead = {k \in 1 .. N : \A n \in 1 .. k : n \in S}
    PROVE  /\ S = 1 .. N => Cardinality(lead) = N
           /\ \A m \in (1 .. N) \ S :
                (\A n \in (1 .. N) \ S : m <= n) => Cardinality(lead) = m - 1
<1>1. Cardinality(1 .. N) = N
  BY FS_Interval
<1>2. ASSUME S = 1 .. N PROVE lead = 1 .. N
  BY <1>2
<1>3. ASSUME NEW m \in (1 .. N) \ S, \A n \in (1 .. N) \ S : m <= n
      PROVE  Cardinality(lead) = m - 1
  <2>1. lead = 1 .. m - 1
    <3>1. ASSUME NEW k \in lead PROVE k \in 1 .. m - 1
      <4>1. k \in 1 .. N /\ (m \in 1 .. k => m \in S)
        OBVIOUS
      <4> QED BY <4>1
    <3>2. ASSUME NEW k \in 1 .. m - 1 PROVE k \in lead
      <4>1. k \in 1 .. N
        OBVIOUS
      <4>2. ASSUME NEW n \in 1 .. k PROVE n \in S
        <5>1. n \in 1 .. N /\ ~ (m <= n)
          OBVIOUS
        <5> QED BY <1>3, <5>1
      <4> QED BY <4>1, <4>2
    <3> QED BY <3>1, <3>2
  <2>2. Cardinality(1 .. m - 1) = m - 1
    <3>1. 1 \in Int /\ m - 1 \in Int /\ (m - 1) - 1 + 1 = m - 1 /\ (1 > m - 1 => m - 1 = 0)
      OBVIOUS
    <3>2. Cardinality(1 .. m - 1) = IF 1 > m - 1 THEN 0 ELSE ((m - 1) - 1) + 1
      BY <3>1, FS_Interval
    <3> QED BY <3>1, <3>2
  <2> QED BY <2>1, <2>2
<1> QED BY <1>1, <1>2, <1>3, SMTT(30)

-----------------------------------------------------------------------------
(* The tables of the document *)

Keys == {"", "samples", "count", "process.executable.build_id", "thread_name", "span_id"}
Values ==
    {BuildId} \cup {Utf8Of[n] : n \in DOMAIN Utf8Of} \cup {Hex[s] : s \in DOMAIN Hex}
Attribute == [key : Nat, value : Values]

\* What an attribute is found by.
Known(str, a) == Dedupe(At(str, a.key), a.value)

\* The strings and the attributes hold nothing twice, and attribute_index finds
\* every attribute but the id id, which no sample carries.
TablesOk(str, att, found) ==
    /\ str \in Seq(Keys) /\ IsInjective(str)
    /\ Len(str) >= 4 /\ str[4] = "process.executable.build_id"
    /\ att \in Seq(Attribute) /\ IsInjective(att)
    /\ Len(att) >= 1 /\ att[1] = [key |-> kStrBuildId, value |-> BuildId]
    /\ \A k \in 1 .. Len(att) : att[k].key < Len(str)
    /\ found = {<<Known(str, att[k]), k - 1>> : k \in 2 .. Len(att)}

\* The attribute at an index.
Carries(str, att, a, key, value) ==
    /\ a \in 0 .. Len(att) - 1 /\ At(att, a).key \in 0 .. Len(str) - 1
    /\ At(str, At(att, a).key) = key /\ At(att, a).value = value

\* The labels of a sample are the name of its stack's task, and its span if it
\* has one.
HasLabels(str, att, indices, s) ==
    /\ Len(indices) = IF s.span = NoSpan THEN 1 ELSE 2
    /\ Carries(str, att, indices[1], "thread_name", Utf8Of[s.name])
    /\ s.span # NoSpan => Carries(str, att, indices[2], "span_id", Hex[s.span])

\* n locations from first + 1 on lead to the first n of the addresses.
Lead(loc, idx, first, n, pcs) ==
    /\ first + n <= Len(idx)
    /\ \A m \in 1 .. n : At(loc, idx[first + m]) = pcs[m]

ASample == [first : Nat, indices : Seq(Nat)]

PTypes ==
    /\ exporter \in BOOLEAN /\ body \in BOOLEAN
    /\ stacks \in Seq(AStack)
    /\ pc \in {"start", "locations", "measure", "allocate", "write", "free", "return"}
    /\ i \in 0 .. Len(stacks) /\ d \in Nat
    /\ samples \in Seq(ASample)
    /\ locations \in Seq(Nat) /\ stack_locations \in Seq(Nat)

Filled == TablesOk(strings, attributes, attribute_index)
Blank  == strings = <<>> /\ attributes = <<>> /\ attribute_index = {}

Located ==
    /\ IsInjective(locations)
    /\ location_index = {<<locations[k], k - 1>> : k \in 1 .. Len(locations)}
    /\ \A k \in 1 .. Len(stack_locations) : stack_locations[k] < Len(locations)

\* The samples that add_sample() has finished.
Sampled ==
    /\ Len(samples) <= Len(stacks)
    /\ \A k \in 1 .. Len(samples) :
         /\ Lead(locations, stack_locations, samples[k].first, Len(stacks[k].pcs), stacks[k].pcs)
         /\ HasLabels(strings, attributes, samples[k].indices, stacks[k])

\* Where export_profiles() is.
Placed ==
    /\ pc = "start" => Blank /\ samples = <<>> /\ i = 0 /\ d = 0
    /\ pc = "return" => Filled \/ Blank
    /\ pc \notin {"start", "return"} => Filled
    /\ pc = "locations" =>
         /\ i < Len(stacks) /\ Len(samples) = i
         /\ d \in 0 .. Len(Stack.pcs) /\ d <= Len(stack_locations)
         /\ Lead(locations, stack_locations, Len(stack_locations) - d, d, Stack.pcs)
    /\ pc \in {"measure", "allocate", "write", "free"} => Len(samples) = Len(stacks)
    /\ body => pc \in {"write", "free"}

\* The exported document is what the tables still hold.
ExportedIsDocument ==
    exported # NoDocument =>
        /\ pc \in {"free", "return"} /\ Filled /\ Len(samples) = Len(stacks)
        /\ exported = Document

PInv == PTypes /\ Located /\ Sampled /\ Placed /\ ExportedIsDocument

-----------------------------------------------------------------------------
\* A table that has grown.
Longer(t, u) == Len(t) <= Len(u) /\ \A k \in 1 .. Len(t) : u[k] = t[k]

LEMMA InternedString ==
    ASSUME NEW S, NEW str \in Seq(S), IsInjective(str), NEW s \in S,
           NEW r, r = Interned(str, s)
    PROVE  /\ r.strings \in Seq(S) /\ IsInjective(r.strings) /\ Longer(str, r.strings)
           /\ r.index \in 0 .. Len(r.strings) - 1 /\ At(r.strings, r.index) = s
<1>1. CASE \E k \in 1 .. Len(str) : str[k] = s
  <2> DEFINE n == CHOOSE k \in 1 .. Len(str) : str[k] = s
  <2>1. n \in 1 .. Len(str) /\ str[n] = s
    BY <1>1
  <2>2. r.index = n - 1 /\ r.strings = str
    BY <1>1 DEF Interned
  <2> HIDE DEF n
  <2> QED BY <2>1, <2>2 DEF Longer, At
<1>2. CASE ~ \E k \in 1 .. Len(str) : str[k] = s
  <2>1. r.index = Len(str) /\ r.strings = Append(str, s)
    BY <1>2 DEF Interned
  <2> DEFINE u == Append(str, s)
  <2>2. u \in Seq(S) /\ Len(u) = Len(str) + 1 /\ u[Len(str) + 1] = s
    OBVIOUS
  <2>3. \A k \in 1 .. Len(str) : u[k] = str[k]
    OBVIOUS
  <2> HIDE DEF u
  <2>4. IsInjective(u)
    BY <1>2, <2>2, <2>3 DEF IsInjective
  <2> QED BY <2>1, <2>2, <2>3, <2>4 DEF Longer, At, u
<1> QED BY <1>1, <1>2

LEMMA LongerCarries ==
    ASSUME NEW str, NEW att, NEW str2, NEW att2, Longer(str, str2), Longer(att, att2),
           NEW a, NEW key, NEW value, Carries(str, att, a, key, value),
           Len(str) \in Nat, Len(att) \in Nat, Len(str2) \in Nat, Len(att2) \in Nat
    PROVE  Carries(str2, att2, a, key, value)
<1>1. a \in 0 .. Len(att2) - 1 /\ att2[a + 1] = att[a + 1]
  BY DEF Carries, Longer
<1> DEFINE n == att[a + 1].key
<1>3. n \in 0 .. Len(str) - 1
  BY DEF Carries, At
<1>2. n \in 0 .. Len(str2) - 1 /\ str2[n + 1] = str[n + 1]
  <2> HIDE DEF n
  <2> QED BY <1>3 DEF Longer
<1> QED BY <1>1, <1>2 DEF Carries, At

\* The tables that add_sample() hands from one label to the next.
Tables(t) ==
    /\ t = [strings |-> t.strings, attributes |-> t.attributes, found |-> t.found,
            indices |-> t.indices]
    /\ TablesOk(t.strings, t.attributes, t.found) /\ t.indices \in Seq(Nat)

Labels == {"thread_name", "span_id"}

\* r is t with one more index, of that label.
Grown(t, r, key, value) ==
    /\ Tables(r) /\ Longer(t.strings, r.strings) /\ Longer(t.attributes, r.attributes)
    /\ \E a \in Nat : /\ r.indices = Append(t.indices, a)
                       /\ Carries(r.strings, r.attributes, a, key, value)

LEMMA Attributed ==
    ASSUME NEW t, Tables(t), NEW key \in Labels, NEW value \in Values
    PROVE  Grown(t, WithAttribute(t, key, value), key, value)
<1> DEFINE str == t.strings
           att == t.attributes
           found == t.found
           indices == t.indices
           r == WithAttribute(t, key, value)
           known == {e \in found : e[1] = <<key, value>>}
<1>3. t = [strings |-> str, attributes |-> att, found |-> found, indices |-> indices]
  BY DEF Tables
<1>4. TablesOk(str, att, found) /\ indices \in Seq(Nat) /\ key \in {"thread_name", "span_id"}
  BY DEF Tables, Labels
<1> SUFFICES /\ TablesOk(r.strings, r.attributes, r.found)
             /\ Longer(str, r.strings) /\ Longer(att, r.attributes)
             /\ \E a \in Nat : /\ r.indices = Append(indices, a)
                                /\ Carries(r.strings, r.attributes, a, key, value)
  <2>1. r = [strings |-> r.strings, attributes |-> r.attributes, found |-> r.found,
             indices |-> r.indices]
    BY <1>3 DEF WithAttribute
  <2>2. \A a \in Nat : Append(indices, a) \in Seq(Nat)
    BY <1>4
  <2> HIDE DEF r
  <2>3. Tables(r)
    BY <2>1, <2>2 DEF Tables
  <2> QED BY <2>3 DEF Grown, r
<1> HIDE DEF str, att, found, indices
<1>0. /\ str \in Seq(Keys) /\ IsInjective(str) /\ Len(str) \in Nat /\ Len(att) \in Nat
      /\ att \in Seq(Attribute) /\ Len(str) >= 4 /\ Len(att) >= 1
      /\ \A k \in 1 .. Len(att) : att[k] \in Attribute /\ att[k].key \in 0 .. Len(str) - 1
  <2>1. str \in Seq(Keys) /\ att \in Seq(Attribute) /\ Len(str) >= 4 /\ Len(att) >= 1 /\ IsInjective(str)
    BY <1>4 DEF TablesOk
  <2>2. \A k \in 1 .. Len(att) : att[k] \in Attribute
    BY <2>1
  <2>3. \A k \in 1 .. Len(att) : att[k].key \in Nat /\ att[k].key < Len(str)
    BY <1>4, <2>2 DEF Attribute, TablesOk
  <2> QED BY <2>1, <2>2, <2>3
<1>1. CASE known # {}
  <2> DEFINE e == CHOOSE e \in known : TRUE
  <2>1. e \in known
    BY <1>1
  <2>2. r = [t EXCEPT !.indices = Append(indices, e[2])]
    BY <1>1 DEF WithAttribute, Dedupe, found, indices
  <2> HIDE DEF e
  <2>3. PICK k \in 2 .. Len(att) : e = <<Known(str, att[k]), k - 1>>
    BY <1>4, <2>1 DEF TablesOk
  <2>4. At(str, att[k].key) = key /\ att[k].value = value
    BY <2>1, <2>3 DEF Known, Dedupe
  <2>5. att[k].key \in 0 .. Len(str) - 1 /\ k - 1 \in 0 .. Len(att) - 1
    BY <1>0
  <2>6. Carries(str, att, k - 1, key, value)
    BY <2>4, <2>5 DEF Carries, At
  <2>7. r.strings = str /\ r.attributes = att /\ r.found = found /\ r.indices = Append(indices, k - 1)
    BY <2>2, <2>3, <1>3
  <2>8. Longer(str, str) /\ Longer(att, att)
    BY <1>0 DEF Longer
  <2>9. k - 1 \in Nat
    OBVIOUS
  <2>10. Carries(r.strings, r.attributes, k - 1, key, value) /\ TablesOk(r.strings, r.attributes, r.found)
    BY <1>4, <2>6, <2>7
  <2> QED BY <2>7, <2>8, <2>9, <2>10
<1>2. CASE known = {}
  <2> DEFINE s == Interned(str, key)
             new == [key |-> s.index, value |-> value]
             att2 == Append(att, new)
             found2 == found \cup {<<<<key, value>>, Len(att)>>}
  <2>1. r = [strings |-> s.strings, attributes |-> att2, found |-> found2,
             indices |-> Append(indices, Len(att))]
    BY <1>2 DEF WithAttribute, Dedupe, found, str, att, indices
  <2>2. /\ s.strings \in Seq(Keys) /\ IsInjective(s.strings) /\ Longer(str, s.strings)
        /\ s.index \in 0 .. Len(s.strings) - 1 /\ At(s.strings, s.index) = key
    <3>1. key \in Keys
      BY <1>4 DEF Keys
    <3> QED BY <1>0, <3>1, InternedString DEF s
  <2> HIDE DEF s
  <2>21. Len(s.strings) \in Nat
    BY <2>2
  <2>3. new \in Attribute /\ new.key = s.index /\ new.value = value
    BY <2>2 DEF Attribute
  <2>4. /\ att2 \in Seq(Attribute) /\ Len(att2) = Len(att) + 1 /\ att2[Len(att) + 1] = new
        /\ \A k \in 1 .. Len(att) : att2[k] = att[k]
    BY <1>0, <2>3
  <2>41. Len(att2) \in Nat /\ Longer(att, att2)
    BY <1>0, <2>4 DEF Longer
  <2> HIDE DEF new, att2, found2
  <2>42. \A n \in 0 .. Len(str) - 1 : At(s.strings, n) = At(str, n)
    BY <1>0, <2>2, <2>21 DEF Longer, At
  <2>5. \A k \in 1 .. Len(att) : /\ att2[k].key = att[k].key /\ att2[k].value = att[k].value
                                 /\ att[k].key \in 0 .. Len(str) - 1
                                 /\ At(s.strings, att[k].key) = At(str, att[k].key)
    BY <1>0, <2>4, <2>42
  <2>6. \A k \in 1 .. Len(att) : att[k] # new
    <3> SUFFICES ASSUME NEW k \in 1 .. Len(att), att[k] = new PROVE FALSE
      OBVIOUS
    <3>1. At(str, att[k].key) = key /\ att[k].value = value
      BY <2>2, <2>3, <2>5
    <3>2. CASE k = 1
      BY <1>4, <3>1, <3>2 DEF TablesOk, kStrBuildId, At
    <3>3. CASE k \in 2 .. Len(att)
      <4>1. <<Known(str, att[k]), k - 1>> \in found
        BY <1>4, <3>3 DEF TablesOk
      <4>2. Known(str, att[k]) = <<key, value>>
        BY <3>1 DEF Known, Dedupe
      <4> QED BY <4>1, <4>2, <1>2
    <3> QED BY <3>2, <3>3
  <2>7. IsInjective(att2)
    <3>1. DOMAIN att2 = 1 .. Len(att) + 1 /\ DOMAIN att = 1 .. Len(att)
      BY <1>0, <2>4
    <3>2. \A k, m \in 1 .. Len(att) : att[k] = att[m] => k = m
      BY <1>4, <3>1 DEF TablesOk, IsInjective
    <3>3. \A k, m \in 1 .. Len(att) + 1 : att2[k] = att2[m] => k = m
      <4>1. \A k \in 1 .. Len(att) + 1 : k \in 1 .. Len(att) \/ k = Len(att) + 1
        BY <1>0
      <4> QED BY <2>4, <2>6, <3>2, <4>1
    <3> QED BY <3>1, <3>3 DEF IsInjective
  <2>8. found2 = {<<Known(s.strings, att2[k]), k - 1>> : k \in 2 .. Len(att2)}
    <3>1. \A k \in 2 .. Len(att) : Known(s.strings, att2[k]) = Known(str, att[k])
      BY <2>5 DEF Known, Dedupe
    <3>2. Known(s.strings, att2[Len(att) + 1]) = <<key, value>>
      BY <2>2, <2>3, <2>4 DEF Known, Dedupe
    <3>3. Len(att) \in Nat /\ Len(att) >= 1 /\ found = {<<Known(str, att[k]), k - 1>> : k \in 2 .. Len(att)}
      BY <1>4 DEF TablesOk
    <3>4. 2 .. Len(att2) = (2 .. Len(att)) \cup {Len(att) + 1} /\ (Len(att) + 1) - 1 = Len(att)
      BY <2>4, <3>3
    <3>5. {<<Known(s.strings, att2[k]), k - 1>> : k \in 2 .. Len(att)} = found
      BY <3>1, <3>3
    <3>6. {<<Known(s.strings, att2[k]), k - 1>> : k \in 2 .. Len(att2)}
            = {<<Known(s.strings, att2[k]), k - 1>> : k \in 2 .. Len(att)}
              \cup {<<Known(s.strings, att2[Len(att) + 1]), (Len(att) + 1) - 1>>}
      BY <3>4
    <3> QED BY <3>2, <3>4, <3>5, <3>6 DEF found2
  <2>9. TablesOk(s.strings, att2, found2)
    <3>1. Len(s.strings) >= 4 /\ s.strings[4] = "process.executable.build_id"
      BY <1>0, <1>4, <2>2 DEF Longer, TablesOk
    <3>2. Len(att2) >= 1 /\ att2[1] = [key |-> kStrBuildId, value |-> BuildId]
      BY <1>0, <1>4, <2>4 DEF TablesOk
    <3>3. \A k \in 1 .. Len(att2) : att2[k].key < Len(s.strings)
      <4>1. \A k \in 1 .. Len(att) : att2[k].key < Len(s.strings)
        <5> SUFFICES ASSUME NEW k \in 1 .. Len(att) PROVE att2[k].key < Len(s.strings)
          OBVIOUS
        <5>1. att2[k].key = att[k].key /\ att[k].key \in 0 .. Len(str) - 1
          BY <2>5
        <5>2. Len(str) <= Len(s.strings)
          BY <2>2 DEF Longer
        <5> QED BY <5>1, <5>2, <2>21, <1>0
      <4>2. att2[Len(att) + 1].key < Len(s.strings)
        BY <2>2, <2>21, <2>3, <2>4
      <4>3. \A k \in 1 .. Len(att2) : k \in 1 .. Len(att) \/ k = Len(att) + 1
        BY <1>0, <2>4
      <4> QED BY <4>1, <4>2, <4>3
    <3> QED BY <2>2, <2>4, <2>7, <2>8, <3>1, <3>2, <3>3 DEF TablesOk
  <2>10. Carries(s.strings, att2, Len(att), key, value)
    <3>1. At(att2, Len(att)) = new /\ Len(att) \in 0 .. Len(att2) - 1
      BY <1>0, <2>4 DEF At
    <3> QED BY <2>2, <2>3, <3>1 DEF Carries
  <2>11. /\ r.strings = s.strings /\ r.attributes = att2 /\ r.found = found2
         /\ r.indices = Append(indices, Len(att))
    BY <2>1
  <2> QED BY <2>2, <2>9, <2>10, <2>41, <1>0, <2>11
<1> QED BY <1>1, <1>2

-----------------------------------------------------------------------------
LEMMA Extended ==
    ASSUME NEW str, NEW att, NEW found, TablesOk(str, att, found)
    PROVE  Len(str) \in Nat /\ Len(att) \in Nat
BY DEF TablesOk

LEMMA LabelsStay ==
    ASSUME NEW str, NEW att, NEW str2, NEW att2, Longer(str, str2), Longer(att, att2),
           NEW indices, NEW s, HasLabels(str, att, indices, s),
           Len(str) \in Nat, Len(att) \in Nat, Len(str2) \in Nat, Len(att2) \in Nat
    PROVE  HasLabels(str2, att2, indices, s)
<1>1. Carries(str2, att2, indices[1], "thread_name", Utf8Of[s.name])
  BY LongerCarries DEF HasLabels
<1>2. s.span # NoSpan => Carries(str2, att2, indices[2], "span_id", Hex[s.span])
  BY LongerCarries DEF HasLabels
<1> QED BY <1>1, <1>2 DEF HasLabels

LEMMA InitPInv == ASSUME StackLists \subseteq Seq(AStack) PROVE Init => PInv
<1> SUFFICES ASSUME Init PROVE PInv
  OBVIOUS
<1>1. PTypes
  <2>1. stacks \in Seq(AStack) /\ Len(stacks) \in Nat
    BY DEF Init
  <2>2. samples = <<>> /\ locations = <<>> /\ stack_locations = <<>> /\ i = 0 /\ d = 0 /\ pc = "start"
    BY DEF Init
  <2>3. exporter \in BOOLEAN /\ body \in BOOLEAN
    BY DEF Init
  <2>4. <<>> \in Seq(ASample) /\ <<>> \in Seq(Nat) /\ 0 \in 0 .. Len(stacks)
    BY <2>1
  <2> QED BY <2>1, <2>2, <2>3, <2>4 DEF PTypes
<1>2. Located
  BY DEF Init, Located, IsInjective
<1>3. Sampled
  BY <1>1 DEF Init, Sampled, PTypes
<1>4. Placed
  BY DEF Init, Placed, Blank
<1>5. ExportedIsDocument
  BY DEF Init, ExportedIsDocument
<1> QED BY <1>1, <1>2, <1>3, <1>4, <1>5 DEF PInv

LEMMA StartPInv == ASSUME PInv, Start PROVE PInv'
<1> USE DEF PInv
<1>1. CASE ~exporter \/ stacks = <<>>
  BY <1>1 DEF Start, PTypes, Located, Sampled, Lead, Placed, Filled, Blank, ExportedIsDocument, tables
<1>2. CASE exporter /\ stacks # <<>>
  <2>0. /\ pc = "start" /\ pc' = "locations" /\ strings' = Fixed
        /\ attributes' = <<[key |-> kStrBuildId, value |-> BuildId]>>
        /\ UNCHANGED <<locations, stack_locations, samples, location_index, attribute_index>>
        /\ UNCHANGED <<exporter, stacks, i, d, body, exported>>
    BY <1>2 DEF Start
  <2>1. /\ samples = <<>> /\ i = 0 /\ d = 0 /\ attribute_index = {} /\ ~body
        /\ exported = NoDocument
    BY <2>0 DEF Placed, Blank, ExportedIsDocument
  <2>2. PTypes'
    BY <2>0 DEF PTypes
  <2>3. Located'
    BY <2>0 DEF Located
  <2>4. Sampled'
    BY <2>0, <2>1 DEF Sampled, PTypes
  <2>5. Filled'
    <3>1. Fixed \in Seq(Keys) /\ Len(Fixed) = 4 /\ Fixed[4] = "process.executable.build_id"
      BY DEF Fixed, Keys
    <3>2. IsInjective(Fixed)
      <4>1. DOMAIN Fixed = {1, 2, 3, 4}
        BY DEF Fixed
      <4>2. /\ Fixed[1] = "" /\ Fixed[2] = "samples" /\ Fixed[3] = "count"
            /\ Fixed[4] = "process.executable.build_id"
        BY DEF Fixed
      <4> QED BY <4>1, <4>2 DEF IsInjective
    <3> DEFINE id == [key |-> kStrBuildId, value |-> BuildId]
    <3>3. id \in Attribute /\ id.key = 3
      BY DEF Attribute, Values, kStrBuildId
    <3> HIDE DEF id
    <3>4. <<id>> \in Seq(Attribute) /\ Len(<<id>>) = 1 /\ <<id>>[1] = id
      BY <3>3
    <3>5. IsInjective(<<id>>)
      BY <3>4 DEF IsInjective
    <3>6. TablesOk(Fixed, <<id>>, {})
      BY <3>1, <3>2, <3>3, <3>4, <3>5 DEF TablesOk, id
    <3> QED BY <2>0, <2>1, <3>6 DEF Filled, id
  <2>6. Placed'
    <3>1. Len(stacks) \in Nat /\ Len(stacks) > 0
      BY <1>2 DEF PTypes
    <3>2. stacks[1] \in AStack
      BY <3>1 DEF PTypes
    <3>3. Len(stacks[1].pcs) \in Nat /\ Len(stack_locations) \in Nat /\ Len(samples) = 0
      BY <3>2, <2>1 DEF AStack, PTypes
    <3> QED BY <2>0, <2>1, <2>5, <3>1, <3>3 DEF Placed, Lead, Stack, At
  <2>7. ExportedIsDocument'
    BY <2>0, <2>1 DEF ExportedIsDocument
  <2> QED BY <2>2, <2>3, <2>4, <2>6, <2>7
<1> QED BY <1>1, <1>2 DEF PTypes, Start

\* The location of the next address of the stack.
LEMMA LocationFor ==
    ASSUME PTypes, Located, NEW addr \in Nat, location_for(addr)
    PROVE  \E k \in Nat :
             /\ stack_locations' = Append(stack_locations, k)
             /\ k < Len(locations') /\ At(locations', k) = addr
             /\ Longer(locations, locations') /\ locations' \in Seq(Nat)
             /\ IsInjective(locations')
             /\ location_index' = {<<locations'[n], n - 1>> : n \in 1 .. Len(locations')}
<1>0. Len(locations) \in Nat /\ locations \in Seq(Nat) /\ DOMAIN locations = 1 .. Len(locations)
  BY DEF PTypes
<1>1. CASE \E e \in location_index : e[1] = addr
  <2>1. PICK e \in location_index : /\ e[1] = addr
                                    /\ stack_locations' = Append(stack_locations, e[2])
                                    /\ UNCHANGED <<locations, location_index>>
    BY <1>1 DEF location_for
  <2>2. PICK n \in 1 .. Len(locations) : e = <<locations[n], n - 1>>
    BY <2>1 DEF Located
  <2>3. n - 1 \in Nat /\ n - 1 < Len(locations) /\ At(locations, n - 1) = addr
    BY <1>0, <2>1, <2>2 DEF At
  <2>4. Longer(locations, locations)
    BY <1>0 DEF Longer
  <2>5. stack_locations' = Append(stack_locations, n - 1)
    BY <2>1, <2>2
  <2> QED BY <1>0, <2>1, <2>3, <2>4, <2>5 DEF Located
<1>2. CASE ~ \E e \in location_index : e[1] = addr
  <2>1. /\ locations' = Append(locations, addr)
        /\ location_index' = location_index \cup {<<addr, Len(locations)>>}
        /\ stack_locations' = Append(stack_locations, Len(locations))
    BY <1>2 DEF location_for
  <2> DEFINE u == Append(locations, addr)
  <2>2. /\ u \in Seq(Nat) /\ Len(u) = Len(locations) + 1 /\ u[Len(locations) + 1] = addr
        /\ \A n \in 1 .. Len(locations) : u[n] = locations[n]
    BY <1>0
  <2> HIDE DEF u
  <2>3. \A n \in 1 .. Len(locations) : locations[n] # addr
    <3> SUFFICES ASSUME NEW n \in 1 .. Len(locations), locations[n] = addr PROVE FALSE
      OBVIOUS
    <3>1. <<locations[n], n - 1>> \in location_index /\ <<locations[n], n - 1>>[1] = addr
      BY DEF Located
    <3> QED BY <3>1, <1>2
  <2>4. IsInjective(u)
    <3>1. DOMAIN u = 1 .. Len(locations) + 1
      BY <1>0, <2>2
    <3>2. \A n \in 1 .. Len(locations) + 1 : n \in 1 .. Len(locations) \/ n = Len(locations) + 1
      BY <1>0
    <3>3. \A n, m \in 1 .. Len(locations) : locations[n] = locations[m] => n = m
      BY <1>0 DEF Located, IsInjective
    <3>4. \A n, m \in 1 .. Len(locations) + 1 : u[n] = u[m] => n = m
      BY <2>2, <2>3, <3>2, <3>3
    <3> QED BY <3>1, <3>4 DEF IsInjective
  <2>5. location_index' = {<<u[n], n - 1>> : n \in 1 .. Len(u)}
    <3>1. 1 .. Len(u) = (1 .. Len(locations)) \cup {Len(locations) + 1} /\ (Len(locations) + 1) - 1 = Len(locations)
      BY <1>0, <2>2
    <3>2. {<<u[n], n - 1>> : n \in 1 .. Len(locations)} = location_index
      BY <2>2 DEF Located
    <3>3. {<<u[n], n - 1>> : n \in 1 .. Len(u)}
            = {<<u[n], n - 1>> : n \in 1 .. Len(locations)}
              \cup {<<u[Len(locations) + 1], (Len(locations) + 1) - 1>>}
      BY <3>1
    <3> QED BY <2>1, <2>2, <3>1, <3>2, <3>3
  <2>6. Longer(locations, u) /\ Len(locations) < Len(u) /\ At(u, Len(locations)) = addr
    BY <1>0, <2>2 DEF Longer, At
  <2> QED BY <1>0, <2>1, <2>2, <2>4, <2>5, <2>6 DEF u
<1> QED BY <1>1, <1>2

\* Locations that lead to the addresses of a stack go on doing so.
LEMMA LeadStays ==
    ASSUME NEW loc \in Seq(Nat), NEW idx \in Seq(Nat), NEW loc2 \in Seq(Nat), NEW idx2 \in Seq(Nat),
           Longer(loc, loc2), Longer(idx, idx2), \A m \in 1 .. Len(idx) : idx[m] < Len(loc),
           NEW first \in Nat, NEW n \in Nat, NEW pcs, Lead(loc, idx, first, n, pcs)
    PROVE  Lead(loc2, idx2, first, n, pcs)
<1>1. Len(idx) \in Nat /\ Len(idx2) \in Nat /\ Len(loc) \in Nat /\ Len(idx) <= Len(idx2)
  BY DEF Longer
<1>2. first + n <= Len(idx2)
  BY <1>1 DEF Lead
<1>3. ASSUME NEW m \in 1 .. n PROVE At(loc2, idx2[first + m]) = pcs[m]
  <2>1. first + m \in 1 .. Len(idx)
    BY <1>1 DEF Lead
  <2>2. idx2[first + m] = idx[first + m]
    BY <2>1 DEF Longer
  <2>3. idx[first + m] \in Nat /\ idx[first + m] < Len(loc)
    BY <2>1
  <2>4. \A q \in 0 .. Len(loc) - 1 : At(loc2, q) = At(loc, q)
    BY <1>1 DEF Longer, At
  <2>5. At(loc2, idx[first + m]) = At(loc, idx[first + m])
    BY <1>1, <2>3, <2>4, SMTT(30)
  <2> QED BY <2>2, <2>5 DEF Lead
<1> QED BY <1>2, <1>3 DEF Lead

LEMMA AddLocationPInv == ASSUME PInv, AddLocation PROVE PInv'
<1> USE DEF PInv
<1> DEFINE addr == At(Stack.pcs, d)
           len == Len(stack_locations)
<1>0. /\ pc = "locations" /\ d' = d + 1
      /\ UNCHANGED <<exporter, stacks, pc, i, strings, attributes, samples,
                     attribute_index, body, exported>>
  BY DEF AddLocation
<1>1. /\ i < Len(stacks) /\ i \in Nat /\ d \in Nat /\ len \in Nat /\ d <= len /\ stack_locations \in Seq(Nat)
      /\ Lead(locations, stack_locations, len - d, d, Stack.pcs)
  BY <1>0 DEF PTypes, Placed
<1>2. Stack \in AStack
  BY <1>1 DEF Stack, At, PTypes
<1>3. d < Len(Stack.pcs) /\ Len(Stack.pcs) \in Nat /\ addr \in Nat /\ location_for(addr)
  BY <1>1, <1>2 DEF AddLocation, AStack, At
<1> HIDE DEF addr
<1>4. PICK k \in Nat :
        /\ stack_locations' = Append(stack_locations, k)
        /\ k < Len(locations') /\ At(locations', k) = addr
        /\ Longer(locations, locations') /\ locations' \in Seq(Nat)
        /\ IsInjective(locations')
        /\ location_index' = {<<locations'[n], n - 1>> : n \in 1 .. Len(locations')}
  BY <1>3, LocationFor
<1>5. /\ stack_locations' \in Seq(Nat) /\ Len(stack_locations') = len + 1 /\ stack_locations'[len + 1] = k
      /\ \A n \in 1 .. len : stack_locations'[n] = stack_locations[n]
  BY <1>1, <1>4
<1>6. Longer(stack_locations, stack_locations')
  BY <1>1, <1>5 DEF Longer
<1> HIDE DEF len
<1>7. PTypes'
  BY <1>0, <1>4, <1>5 DEF PTypes
<1>8. Located'
  <2>1. Len(locations) \in Nat /\ Len(locations') \in Nat /\ Len(locations) <= Len(locations')
    BY <1>4 DEF Longer, PTypes
  <2>2. ASSUME NEW n \in 1 .. Len(stack_locations') PROVE stack_locations'[n] < Len(locations')
    <3>1. n \in 1 .. len \/ n = len + 1
      BY <1>1, <1>5
    <3>2. CASE n = len + 1
      BY <1>4, <1>5, <3>2
    <3>3. CASE n \in 1 .. len
      <4>1. stack_locations'[n] = stack_locations[n] /\ stack_locations[n] \in Nat /\ stack_locations[n] < Len(locations)
        <5>1. n \in 1 .. Len(stack_locations)
          BY <3>3 DEF len
        <5>2. stack_locations[n] \in Nat /\ stack_locations[n] < Len(locations)
          BY <1>1, <5>1 DEF Located
        <5> QED BY <1>5, <3>3, <5>2
      <4> QED BY <2>1, <4>1
    <3> QED BY <3>1, <3>2, <3>3
  <2> QED BY <1>4, <2>2 DEF Located
<1>90. /\ locations \in Seq(Nat) /\ \A m \in 1 .. Len(stack_locations) : stack_locations[m] < Len(locations)
  BY DEF PTypes, Located
<1>91. /\ locations \in Seq(Nat) /\ stack_locations \in Seq(Nat)
       /\ locations' \in Seq(Nat) /\ stack_locations' \in Seq(Nat)
       /\ Longer(locations, locations') /\ Longer(stack_locations, stack_locations')
       /\ \A m \in 1 .. Len(stack_locations) : stack_locations[m] < Len(locations)
  BY <1>1, <1>4, <1>5, <1>6, <1>90
<1>9. Sampled'
  <2>1. ASSUME NEW n \in 1 .. Len(samples)
        PROVE  Lead(locations', stack_locations', samples[n].first, Len(stacks[n].pcs), stacks[n].pcs)
    <3>0. n \in 1 .. Len(samples) /\ samples \in Seq(ASample)
      BY DEF PTypes
    <3>1. samples[n].first \in Nat
      <4>1. samples[n] \in ASample
        BY <3>0
      <4> QED BY <4>1 DEF ASample
    <3>2. Len(samples) <= Len(stacks) /\ Len(stacks) \in Nat /\ Len(samples) \in Nat /\ stacks \in Seq(AStack)
      BY DEF Sampled, PTypes
    <3>3. stacks[n] \in AStack
      BY <3>2
    <3>4. Len(stacks[n].pcs) \in Nat
      BY <3>3 DEF AStack
    <3>5. Lead(locations, stack_locations, samples[n].first, Len(stacks[n].pcs), stacks[n].pcs)
      BY DEF Sampled
    <3> DEFINE first == samples[n].first
               pcs == stacks[n].pcs
               count == Len(pcs)
               loc == locations
               loc2 == locations'
               idx == stack_locations
               idx2 == stack_locations'
    <3>6. first \in Nat /\ count \in Nat /\ Lead(loc, idx, first, count, pcs)
      BY <3>1, <3>4, <3>5
    <3>7. /\ loc \in Seq(Nat) /\ idx \in Seq(Nat) /\ loc2 \in Seq(Nat) /\ idx2 \in Seq(Nat)
          /\ Longer(loc, loc2) /\ Longer(idx, idx2) /\ \A m \in 1 .. Len(idx) : idx[m] < Len(loc)
      BY <1>91
    <3> HIDE DEF first, pcs, count, loc, idx, loc2, idx2
    <3>8. Lead(loc2, idx2, first, count, pcs)
      BY <3>6, <3>7, LeadStays
    <3> QED BY <3>8 DEF first, pcs, count, loc2, idx2
  <2>2. UNCHANGED <<samples, stacks, strings, attributes>>
    BY <1>0
  <2> QED BY <2>1, <2>2 DEF Sampled
<1>10. Placed'
  <2>1. Filled'
    BY <1>0 DEF Placed, Filled
  <2>2. Lead(locations', stack_locations', (len + 1) - (d + 1), d + 1, Stack.pcs)
    <3>1. len - d \in Nat /\ (len + 1) - (d + 1) = len - d
      BY <1>1
    <3>2. Lead(locations', stack_locations', len - d, d, Stack.pcs)
      BY <1>1, <1>91, <3>1, LeadStays
    <3>3. Len(stack_locations') = len + 1 /\ (len - d) + (d + 1) = len + 1
      BY <1>1, <1>5
    <3>4. ASSUME NEW m \in 1 .. d + 1
          PROVE  At(locations', stack_locations'[(len - d) + m]) = Stack.pcs[m]
      <4>1. CASE m \in 1 .. d
        BY <3>2, <4>1 DEF Lead
      <4>2. CASE m = d + 1
        BY <3>3, <4>2, <1>4, <1>5 DEF At, addr
      <4> QED BY <4>1, <4>2, <1>1
    <3> DEFINE first == len - d
               more == d + 1
    <3>5. first + more <= Len(stack_locations')
      BY <1>1, <3>1, <3>3
    <3>6. \A m \in 1 .. more : At(locations', stack_locations'[first + m]) = Stack.pcs[m]
      BY <3>4
    <3> HIDE DEF first, more
    <3>7. Lead(locations', stack_locations', first, more, Stack.pcs)
      BY <3>5, <3>6 DEF Lead
    <3> QED BY <3>1, <3>7 DEF first, more
  <2>3. Stack' = Stack
    BY <1>0 DEF Stack, At
  <2>4. d' \in 0 .. Len(Stack.pcs) /\ d' <= Len(stack_locations')
    BY <1>0, <1>1, <1>3, <1>5
  <2>5. Len(samples) = i /\ (body => FALSE)
    BY <1>0 DEF Placed
  <2>6. Lead(locations, stack_locations, Len(stack_locations) - d, d, Stack.pcs)'
    BY <1>0, <1>5, <2>2, <2>3
  <2> QED BY <1>0, <1>1, <2>1, <2>3, <2>4, <2>5, <2>6 DEF Placed
<1>11. ExportedIsDocument'
  BY <1>0 DEF ExportedIsDocument
<1> QED BY <1>7, <1>8, <1>9, <1>10, <1>11

\* What a sample's labels add to the tables.
LEMMA LabelsAdded ==
    ASSUME NEW now, Tables(now), now.indices = <<>>, NEW s \in AStack,
           NEW named, named = WithAttribute(now, "thread_name", Utf8Of[s.name]),
           NEW r, r = IF s.span = NoSpan THEN named
                        ELSE WithAttribute(named, "span_id", Hex[s.span])
    PROVE  /\ Tables(r) /\ Longer(now.strings, r.strings) /\ Longer(now.attributes, r.attributes)
           /\ HasLabels(r.strings, r.attributes, r.indices, s)
<1>1. Utf8Of[s.name] \in Values /\ (s.span # NoSpan => Hex[s.span] \in Values)
  BY DEF AStack, Values
<1>2. Grown(now, named, "thread_name", Utf8Of[s.name])
  BY <1>1, Attributed DEF Labels
<1>3. PICK a \in Nat : /\ named.indices = <<a>>
                       /\ Carries(named.strings, named.attributes, a, "thread_name", Utf8Of[s.name])
  <2>1. \A a \in Nat : Append(<<>>, a) = <<a>>
    OBVIOUS
  <2> QED BY <1>2, <2>1 DEF Grown
<1>4. CASE s.span = NoSpan
  <2>1. r = named
    BY <1>4
  <2>2. Len(<<a>>) = 1 /\ <<a>>[1] = a
    OBVIOUS
  <2> QED BY <1>2, <1>3, <1>4, <2>1, <2>2 DEF HasLabels, Grown
<1>5. CASE s.span # NoSpan
  <2>1. Grown(named, r, "span_id", Hex[s.span])
    BY <1>1, <1>2, <1>5, Attributed DEF Labels, Grown
  <2>2. PICK b \in Nat : /\ r.indices = Append(<<a>>, b)
                         /\ Carries(r.strings, r.attributes, b, "span_id", Hex[s.span])
    BY <1>3, <2>1 DEF Grown
  <2>3. Len(r.indices) = 2 /\ r.indices[1] = a /\ r.indices[2] = b
    <3>1. \A x \in Nat : /\ Len(Append(<<a>>, x)) = 2 /\ Append(<<a>>, x)[1] = a
                         /\ Append(<<a>>, x)[2] = x
      OBVIOUS
    <3> QED BY <2>2, <3>1
  <2>4. /\ Len(now.strings) \in Nat /\ Len(named.strings) \in Nat /\ Len(r.strings) \in Nat
        /\ Len(now.attributes) \in Nat /\ Len(named.attributes) \in Nat /\ Len(r.attributes) \in Nat
    BY <1>2, <2>1, Extended DEF Grown, Tables
  <2>5. Carries(r.strings, r.attributes, a, "thread_name", Utf8Of[s.name])
    <3>1. Longer(named.strings, r.strings) /\ Longer(named.attributes, r.attributes)
      BY <2>1 DEF Grown
    <3> QED BY <1>3, <2>4, <3>1, LongerCarries, SMTT(30)
  <2>6. Longer(now.strings, r.strings) /\ Longer(now.attributes, r.attributes)
    <3>1. ASSUME NEW t, NEW u, NEW v, Longer(t, u), Longer(u, v),
                 Len(t) \in Nat, Len(u) \in Nat, Len(v) \in Nat
          PROVE  Longer(t, v)
      BY <3>1 DEF Longer
    <3> QED BY <1>2, <2>1, <2>4, <3>1 DEF Grown
  <2> QED BY <1>5, <2>1, <2>2, <2>3, <2>5, <2>6 DEF HasLabels, Grown
<1> QED BY <1>4, <1>5

LEMMA AddSamplePInv == ASSUME PInv, AddSample PROVE PInv'
<1> USE DEF PInv
<1> DEFINE now    == [strings |-> strings, attributes |-> attributes,
                      found |-> attribute_index, indices |-> <<>>]
           named  == WithAttribute(now, "thread_name", Utf8Of[Stack.name])
           linked == IF Stack.span = NoSpan THEN named
                       ELSE WithAttribute(named, "span_id", Hex[Stack.span])
           new    == [first |-> Len(stack_locations) - d, indices |-> linked.indices]
           n      == Len(samples)
<1>1. /\ pc = "locations" /\ d = Len(Stack.pcs)
      /\ strings' = linked.strings /\ attributes' = linked.attributes
      /\ attribute_index' = linked.found
      /\ samples' = Append(samples, new)
      /\ i' = i + 1 /\ d' = 0
      /\ pc' = IF i + 1 < Len(stacks) THEN "locations" ELSE "measure"
      /\ UNCHANGED <<exporter, stacks, locations, stack_locations, location_index, body, exported>>
  BY DEF AddSample
<1>2. /\ Filled /\ i < Len(stacks) /\ n = i /\ i \in Nat /\ Len(stacks) \in Nat
      /\ d \in Nat /\ d <= Len(stack_locations) /\ Len(stack_locations) \in Nat
      /\ Lead(locations, stack_locations, Len(stack_locations) - d, d, Stack.pcs)
      /\ samples \in Seq(ASample)
  BY <1>1 DEF PTypes, Placed
<1>3. Stack \in AStack /\ Stack = stacks[n + 1]
  BY <1>2 DEF Stack, At, PTypes
<1>4. /\ TablesOk(strings', attributes', attribute_index')
      /\ Longer(strings, strings') /\ Longer(attributes, attributes')
      /\ linked.indices \in Seq(Nat) /\ HasLabels(strings', attributes', linked.indices, Stack)
  <2>2. Tables(now) /\ now.indices = <<>> /\ now.strings = strings /\ now.attributes = attributes
    <3>1. TablesOk(strings, attributes, attribute_index) /\ <<>> \in Seq(Nat)
      BY <1>2 DEF Filled
    <3> QED BY <3>1 DEF Tables
  <2> HIDE DEF linked, named, now
  <2>1. /\ TablesOk(linked.strings, linked.attributes, linked.found)
        /\ Longer(strings, linked.strings) /\ Longer(attributes, linked.attributes)
        /\ linked.indices \in Seq(Nat)
        /\ HasLabels(linked.strings, linked.attributes, linked.indices, Stack)
    <3>1. /\ Tables(linked) /\ Longer(now.strings, linked.strings)
          /\ Longer(now.attributes, linked.attributes)
          /\ HasLabels(linked.strings, linked.attributes, linked.indices, Stack)
      BY <1>3, <2>2, LabelsAdded DEF linked, named
    <3> QED BY <2>2, <3>1 DEF Tables
  <2> QED BY <1>1, <2>1
<1> HIDE DEF linked, named, now
<1>5. new \in ASample /\ new.first = Len(stack_locations) - d /\ new.indices = linked.indices
  BY <1>2, <1>4 DEF ASample
<1> HIDE DEF new
<1>6. /\ samples' \in Seq(ASample) /\ Len(samples') = n + 1 /\ samples'[n + 1] = new
      /\ \A k \in 1 .. n : samples'[k] = samples[k]
  BY <1>1, <1>2, <1>5
<1> HIDE DEF n
<1>7. PTypes'
  <2>1. i + 1 \in 0 .. Len(stacks)
    BY <1>2
  <2> QED BY <1>1, <1>6, <2>1 DEF PTypes
<1>8. Located'
  BY <1>1 DEF Located
<1>9. Sampled'
  <2>1. ASSUME NEW k \in 1 .. n
        PROVE  HasLabels(strings', attributes', samples[k].indices, stacks[k])
    <3>1. HasLabels(strings, attributes, samples[k].indices, stacks[k])
      BY DEF Sampled, n
    <3>2. /\ Len(strings) \in Nat /\ Len(attributes) \in Nat
          /\ Len(strings') \in Nat /\ Len(attributes') \in Nat
      BY <1>2, <1>4, Extended DEF Filled
    <3> DEFINE t == strings
               t2 == strings'
               a == attributes
               a2 == attributes'
               x == samples[k].indices
               y == stacks[k]
    <3>3. /\ HasLabels(t, a, x, y) /\ Len(t) \in Nat /\ Len(a) \in Nat
          /\ Len(t2) \in Nat /\ Len(a2) \in Nat /\ Longer(t, t2) /\ Longer(a, a2)
      BY <1>4, <3>1, <3>2
    <3> HIDE DEF t, t2, a, a2, x, y
    <3>4. HasLabels(t2, a2, x, y)
      BY <3>3, LabelsStay
    <3> QED BY <3>4 DEF t2, a2, x, y
  <2>2. \A k \in 1 .. n :
          Lead(locations, stack_locations, samples[k].first, Len(stacks[k].pcs), stacks[k].pcs)
    BY DEF Sampled, n
  <2>3. ASSUME NEW k \in 1 .. n + 1
        PROVE  /\ Lead(locations, stack_locations, samples'[k].first, Len(stacks[k].pcs), stacks[k].pcs)
               /\ HasLabels(strings', attributes', samples'[k].indices, stacks[k])
    <3>1. CASE k \in 1 .. n
      BY <1>6, <2>1, <2>2, <3>1
    <3>2. CASE k = n + 1
      BY <1>1, <1>2, <1>3, <1>4, <1>5, <1>6, <3>2
    <3> QED BY <3>1, <3>2, <1>2
  <2>4. n + 1 <= Len(stacks)
    BY <1>2 DEF n
  <2> QED BY <1>1, <1>6, <2>3, <2>4 DEF Sampled
<1>10. Placed'
  <2>1. Filled'
    BY <1>4 DEF Filled
  <2>2. CASE i + 1 < Len(stacks)
    <3>1. pc' = "locations" /\ Len(samples') = i'
      BY <1>1, <1>2, <1>6, <2>2 DEF n
    <3>2. stacks[i + 2] \in AStack
      BY <1>2, <2>2 DEF PTypes
    <3>3. Len(stacks[i + 2].pcs) \in Nat
      BY <3>2 DEF AStack
    <3>4. Stack' = stacks[i + 2]
      BY <1>1, <1>2 DEF Stack, At
    <3>5. Lead(locations, stack_locations, Len(stack_locations) - 0, 0, stacks[i + 2].pcs)
      BY <1>2 DEF Lead
    <3>6. ~body
      BY <1>1 DEF Placed
    <3> QED BY <1>1, <1>2, <2>1, <2>2, <3>1, <3>3, <3>4, <3>5, <3>6 DEF Placed
  <2>3. CASE ~(i + 1 < Len(stacks))
    <3>1. pc' = "measure" /\ Len(samples') = Len(stacks)
      BY <1>1, <1>2, <1>6, <2>3 DEF n
    <3>2. ~body
      BY <1>1 DEF Placed
    <3> QED BY <1>1, <2>1, <3>1, <3>2 DEF Placed
  <2> QED BY <2>2, <2>3
<1>11. ExportedIsDocument'
  BY <1>1 DEF ExportedIsDocument
<1> QED BY <1>7, <1>8, <1>9, <1>10, <1>11

\* The steps that leave the tables as they are.
LEMMA WritingPInv ==
    ASSUME PInv, Measure \/ Allocate \/ Write \/ Free
    PROVE  PInv'
<1> USE DEF PInv
<1>1. /\ pc' \in {"allocate", "write", "free", "return"}
      /\ pc \in {"measure", "allocate", "write", "free"}
      /\ UNCHANGED <<exporter, stacks, i, d, tables>>
      /\ body' \in BOOLEAN
      /\ body' => pc' \in {"write", "free"}
  <2>1. CASE Measure
    BY <2>1 DEF Measure, PTypes, Placed
  <2>2. CASE Allocate
    <3>1. pc = "allocate" /\ ~body
      BY <2>2 DEF Allocate, Placed
    <3>2. CASE pc' = "write" /\ body' = TRUE
      BY <2>2, <3>1, <3>2 DEF Allocate
    <3>3. CASE pc' = "return" /\ UNCHANGED body
      <4>1. ~body'
        BY <3>1, <3>3, Zenon
      <4>2. body' = FALSE
        BY <3>1, <3>3 DEF PTypes
      <4>3. UNCHANGED <<exporter, stacks, i, d, tables>>
        BY <2>2 DEF Allocate
      <4> QED BY <3>1, <3>3, <4>1, <4>2, <4>3
    <3> QED BY <2>2, <3>2, <3>3 DEF Allocate
  <2>3. CASE Write
    BY <2>3 DEF Write, PTypes, Placed
  <2>4. CASE Free
    BY <2>4 DEF Free, PTypes, Placed
  <2> QED BY <2>1, <2>2, <2>3, <2>4
<1>2. Filled /\ Len(samples) = Len(stacks)
  BY <1>1 DEF Placed
<1>3. PTypes' /\ Located' /\ Sampled'
  BY <1>1 DEF PTypes, Located, Sampled, tables
<1>4. Placed'
  BY <1>1, <1>2 DEF Placed, Filled, tables
<1>5. ExportedIsDocument'
  <2>1. Document' = Document /\ Filled'
    BY <1>1, <1>2 DEF Document, tables, Filled
  <2>2. CASE Write
    BY <1>1, <1>2, <2>1, <2>2 DEF Write, ExportedIsDocument, tables
  <2>3. CASE Measure \/ Allocate \/ Free
    BY <1>1, <1>2, <2>1, <2>3 DEF Measure, Allocate, Free, ExportedIsDocument, tables
  <2> QED BY <2>2, <2>3
<1> QED BY <1>3, <1>4, <1>5

LEMMA NextPInv == PInv /\ [Next]_vars => PInv'
<1> SUFFICES ASSUME PInv, [Next]_vars PROVE PInv'
  OBVIOUS
<1>1. CASE UNCHANGED vars
  BY <1>1 DEF vars, tables, PInv, PTypes, Located, Sampled, Placed, Filled, Blank, Stack,
              ExportedIsDocument, Document
<1> QED BY <1>1, StartPInv, AddLocationPInv, AddSamplePInv, WritingPInv DEF Next

-----------------------------------------------------------------------------
\* export_profiles() fills its tables entry by entry, and at every step an
\* index it handed out reads as what it was handed out for.
THEOREM DocumentInductive == Spec => []PInv
<1>1. Init => PInv
  BY InitPInv, StackListsAssumption
<1>2. PInv /\ [Next]_vars => PInv'
  BY NextPInv
<1> QED BY <1>1, <1>2, PTL DEF Spec

LEMMA NoDuplicates == PInv => TablesHaveNoDuplicates
<1> SUFFICES ASSUME PInv PROVE TablesHaveNoDuplicates
  OBVIOUS
<1> USE DEF PInv
<1>1. Filled \/ Blank
  BY DEF Placed, PTypes
<1>2. /\ IsInjective(strings) /\ IsInjective(attributes)
      /\ \A k \in 1 .. Len(attributes) : attributes[k].key \in 0 .. Len(strings) - 1
  <2>1. CASE Filled
    <3>1. /\ strings \in Seq(Keys) /\ attributes \in Seq(Attribute)
          /\ IsInjective(strings) /\ IsInjective(attributes)
      BY <2>1 DEF Filled, TablesOk
    <3>2. ASSUME NEW k \in 1 .. Len(attributes) PROVE attributes[k].key \in 0 .. Len(strings) - 1
      <4>1. attributes[k] \in Attribute
        BY <3>1
      <4>2. attributes[k].key \in Nat /\ attributes[k].key < Len(strings)
        BY <2>1, <4>1 DEF Filled, TablesOk, Attribute
      <4>3. Len(strings) \in Nat
        BY <3>1
      <4> QED BY <4>2, <4>3
    <3> QED BY <3>1, <3>2
  <2>2. CASE Blank
    BY <2>2 DEF Blank, IsInjective
  <2> QED BY <1>1, <2>1, <2>2
<1>3. \A k \in 1 .. Len(stack_locations) : stack_locations[k] \in 0 .. Len(locations) - 1
  <2>1. Len(locations) \in Nat /\ stack_locations \in Seq(Nat)
    BY DEF PTypes
  <2>2. ASSUME NEW k \in 1 .. Len(stack_locations) PROVE stack_locations[k] \in 0 .. Len(locations) - 1
    <3>1. stack_locations[k] \in Nat /\ stack_locations[k] < Len(locations)
      BY <2>1 DEF Located
    <3> QED BY <2>1, <3>1
  <2> QED BY <2>2
<1>4. TypeOK
  BY <1>2, <1>3 DEF TypeOK, PTypes
<1> QED BY <1>2, <1>4 DEF TablesHaveNoDuplicates, Located

\* A label that one attribute of a sample has is that attribute's value.
LEMMA LabelFound ==
    ASSUME NEW dict, NEW sample, NEW key, NEW value, NEW n \in 1 .. Len(sample.attributes),
           Value(dict, sample.attributes[n]) = [key |-> key, value |-> value],
           \A m \in 1 .. Len(sample.attributes) :
               m # n => Value(dict, sample.attributes[m]).key # key
    PROVE  Label(dict, sample, key) = value
<1> DEFINE found == {m \in 1 .. Len(sample.attributes) : Value(dict, sample.attributes[m]).key = key}
           values == {Value(dict, sample.attributes[m]).value : m \in found}
<1>1. found = {n}
  OBVIOUS
<1>2. values = {value}
  BY <1>1
<1>3. values # {} /\ (CHOOSE v \in values : TRUE) = value
  BY <1>2
<1> QED BY <1>3 DEF Label

LEMMA LabelMissing ==
    ASSUME NEW dict, NEW sample, NEW key,
           \A m \in 1 .. Len(sample.attributes) : Value(dict, sample.attributes[m]).key # key
    PROVE  Label(dict, sample, key) = NoSpan
<1> DEFINE found == {m \in 1 .. Len(sample.attributes) : Value(dict, sample.attributes[m]).key = key}
           values == {Value(dict, sample.attributes[m]).value : m \in found}
<1>1. values = {}
  OBVIOUS
<1> QED BY <1>1 DEF Label

LEMMA CarriedValue ==
    ASSUME NEW dict, NEW a, NEW key, NEW value, Carries(dict.strings, dict.attributes, a, key, value)
    PROVE  Value(dict, a) = [key |-> key, value |-> value]
BY DEF Carries, Value

LEMMA LabelsRead ==
    ASSUME NEW dict, NEW sample, NEW s,
           HasLabels(dict.strings, dict.attributes, sample.attributes, s)
    PROVE  /\ Label(dict, sample, "thread_name") = Utf8Of[s.name]
           /\ Label(dict, sample, "span_id") = IF s.span = NoSpan THEN NoSpan ELSE Hex[s.span]
<1> DEFINE idx == sample.attributes
<1>0. Carries(dict.strings, dict.attributes, idx[1], "thread_name", Utf8Of[s.name])
  BY DEF HasLabels
<1>1. Value(dict, idx[1]) = [key |-> "thread_name", value |-> Utf8Of[s.name]]
  BY <1>0, CarriedValue
<1>2. CASE s.span = NoSpan
  <2>1. 1 .. Len(idx) = {1}
    BY <1>2 DEF HasLabels
  <2> HIDE DEF idx
  <2>2. Label(dict, sample, "thread_name") = Utf8Of[s.name]
    BY <1>1, <2>1, LabelFound DEF idx
  <2>3. Label(dict, sample, "span_id") = NoSpan
    BY <1>1, <2>1, LabelMissing DEF idx
  <2> QED BY <1>2, <2>2, <2>3
<1>3. CASE s.span # NoSpan
  <2>1. 1 .. Len(idx) = {1, 2}
    BY <1>3 DEF HasLabels
  <2>0. Carries(dict.strings, dict.attributes, idx[2], "span_id", Hex[s.span])
    BY <1>3 DEF HasLabels
  <2>2. Value(dict, idx[2]) = [key |-> "span_id", value |-> Hex[s.span]]
    BY <2>0, CarriedValue
  <2> HIDE DEF idx
  <2>3. /\ \A m \in 1 .. Len(idx) : m # 1 => Value(dict, idx[m]).key # "thread_name"
        /\ \A m \in 1 .. Len(idx) : m # 2 => Value(dict, idx[m]).key # "span_id"
    BY <1>1, <2>1, <2>2
  <2>4. Label(dict, sample, "thread_name") = Utf8Of[s.name]
    BY <1>1, <2>1, <2>3, LabelFound DEF idx
  <2>5. Label(dict, sample, "span_id") = Hex[s.span]
    BY <2>1, <2>2, <2>3, LabelFound DEF idx
  <2> QED BY <1>3, <2>4, <2>5
<1> QED BY <1>2, <1>3

\* What a reader makes of a sample whose locations lead to the addresses of s.
Read(dict, sample, stack) ==
    [count |-> sample.value,
     name  |-> Label(dict, sample, "thread_name"),
     span  |-> Label(dict, sample, "span_id"),
     pcs   |-> [n \in 1 .. Len(stack) |-> At(dict.locations, stack[n])]]

LEMMA SampleRead ==
    ASSUME NEW dict, NEW sample, NEW s,
           HasLabels(dict.strings, dict.attributes, sample.attributes, s),
           sample.value = s.count, s.pcs \in Seq(Nat),
           NEW stack, Len(stack) = Len(s.pcs),
           \A n \in 1 .. Len(stack) : At(dict.locations, stack[n]) = s.pcs[n]
    PROVE  Read(dict, sample, stack) = Labelled(s)
<1>1. s.pcs = [n \in 1 .. Len(s.pcs) |-> s.pcs[n]]
  OBVIOUS
<1>2. [n \in 1 .. Len(stack) |-> At(dict.locations, stack[n])] = s.pcs
  BY <1>1
<1>3. /\ Label(dict, sample, "thread_name") = Utf8Of[s.name]
      /\ Label(dict, sample, "span_id") = IF s.span = NoSpan THEN NoSpan ELSE Hex[s.span]
  BY LabelsRead
<1> QED BY <1>2, <1>3 DEF Labelled, Read

\* The sample of a stack in the exported document, and its locations.
LEMMA ExportedStack ==
    ASSUME PInv, exported # NoDocument, NEW k \in 1 .. Len(stacks),
           NEW stack, stack = exported.stackTable[k]
    PROVE  /\ exported.samples[k].stack = k - 1 /\ exported.samples[k].value = stacks[k].count
           /\ stacks[k] \in AStack
           /\ stack \in Seq(Nat) /\ Len(stack) = Len(stacks[k].pcs)
           /\ \A m \in 1 .. Len(stack) : /\ stack[m] < Len(exported.locations)
                                         /\ At(exported.locations, stack[m]) = stacks[k].pcs[m]
           /\ HasLabels(exported.strings, exported.attributes, exported.samples[k].attributes, stacks[k])
<1> USE DEF PInv
<1> DEFINE first == samples[k].first
           count == Len(stacks[k].pcs)
<1>1. exported = Document /\ Len(samples) = Len(stacks)
  BY DEF ExportedIsDocument
<1>2. Len(stacks) \in Nat /\ stacks \in Seq(AStack) /\ samples \in Seq(ASample)
  BY DEF PTypes
<1>3. /\ exported.samples[k] = [stack |-> k - 1, value |-> stacks[k].count,
                               attributes |-> samples[k].indices]
      /\ exported.stackTable[k] = SubSeq(stack_locations, first + 1, first + count)
      /\ exported.locations = locations /\ exported.strings = strings
      /\ exported.attributes = attributes
  BY <1>1 DEF Document
<1>4. stacks[k] \in AStack /\ samples[k] \in ASample
  BY <1>1, <1>2
<1>5. stacks[k].pcs \in Seq(Nat) /\ count \in Nat /\ first \in Nat
  BY <1>4 DEF AStack, ASample
<1>6. /\ Lead(locations, stack_locations, first, count, stacks[k].pcs)
      /\ HasLabels(strings, attributes, samples[k].indices, stacks[k])
  BY <1>1 DEF Sampled
<1> HIDE DEF first, count
<1>7. stack_locations \in Seq(Nat) /\ first + count <= Len(stack_locations) /\ Len(stack_locations) \in Nat
  BY <1>6 DEF PTypes, Lead
<1>8. /\ stack \in Seq(Nat) /\ Len(stack) = count
      /\ \A m \in 1 .. count : stack[m] = stack_locations[first + m]
  <2> DEFINE x == SubSeq(stack_locations, first + 1, first + count)
  <2>1. x \in Seq(Nat) /\ Len(x) = count /\ \A m \in 1 .. count : x[m] = stack_locations[first + m]
    BY <1>5, <1>7, SMTT(30)
  <2> QED BY <1>3, <2>1
<1>9. \A m \in 1 .. count : stack[m] < Len(locations)
  <2> SUFFICES ASSUME NEW m \in 1 .. count PROVE stack[m] < Len(locations)
    OBVIOUS
  <2>1. first + m \in 1 .. Len(stack_locations)
    BY <1>5, <1>7
  <2> QED BY <1>8, <2>1 DEF Located
<1>10. \A m \in 1 .. count : At(locations, stack[m]) = stacks[k].pcs[m]
  BY <1>6, <1>8 DEF Lead
<1> QED BY <1>3, <1>4, <1>6, <1>8, <1>9, <1>10 DEF count

LEMMA DocumentTells == PInv => DocumentTellsTheStacks
<1> SUFFICES ASSUME PInv PROVE DocumentTellsTheStacks
  OBVIOUS
<1>1. pc = "return" => ~body
  BY DEF PInv, Placed
<1>2. ASSUME exported # NoDocument
      PROVE  /\ Decoded(exported) = [k \in 1 .. Len(stacks) |-> Labelled(stacks[k])]
             /\ Value(exported, exported.mapping.attributes[1])
                  = [key |-> "process.executable.build_id", value |-> BuildId]
  <2>1. exported = Document /\ Filled /\ Len(stacks) \in Nat
    BY <1>2 DEF PInv, ExportedIsDocument, PTypes
  <2> DEFINE n == Len(stacks)
  <2>2. Len(exported.samples) = n
    BY <2>1 DEF Document
  <2>3. ASSUME NEW k \in 1 .. n
        PROVE  Read(exported, exported.samples[k], At(exported.stackTable, exported.samples[k].stack))
                 = Labelled(stacks[k])
    <3> DEFINE sample == exported.samples[k]
               stack  == exported.stackTable[k]
    <3>1. /\ sample.stack = k - 1 /\ sample.value = stacks[k].count
          /\ stacks[k] \in AStack /\ Len(stack) = Len(stacks[k].pcs)
          /\ \A m \in 1 .. Len(stack) : At(exported.locations, stack[m]) = stacks[k].pcs[m]
          /\ HasLabels(exported.strings, exported.attributes, sample.attributes, stacks[k])
      BY <1>2, ExportedStack
    <3>2. stacks[k].pcs \in Seq(Nat)
      BY <3>1 DEF AStack
    <3>3. At(exported.stackTable, sample.stack) = stack
      <4>1. (k - 1) + 1 = k
        OBVIOUS
      <4> HIDE DEF sample
      <4> QED BY <3>1, <4>1 DEF At
    <3> HIDE DEF sample, stack
    <3>4. Read(exported, sample, stack) = Labelled(stacks[k])
      BY <3>1, <3>2, SampleRead
    <3> QED BY <3>3, <3>4 DEF sample
  <2>4. Decoded(exported) = [k \in 1 .. n |-> Labelled(stacks[k])]
    BY <2>2, <2>3 DEF Decoded, Read
  <2>5. Value(exported, 0) = [key |-> "process.executable.build_id", value |-> BuildId]
    <3>1. attributes[1] = [key |-> 3, value |-> BuildId] /\ strings[4] = "process.executable.build_id"
      BY <2>1 DEF Filled, TablesOk, kStrBuildId
    <3> QED BY <2>1, <3>1 DEF Value, At, Document
  <2>6. exported.mapping.attributes[1] = 0
    BY <2>1 DEF Document
  <2> QED BY <2>4, <2>5, <2>6
<1> QED BY <1>1, <1>2 DEF DocumentTellsTheStacks

\* The stack, count, name and span of every entry of the window are read back
\* from the document, and its buffer is freed whatever the exporter answers.
THEOREM StacksAreTold == Spec => []DocumentTellsTheStacks
<1>1. PInv => DocumentTellsTheStacks
  BY DocumentTells
<1> QED BY <1>1, DocumentInductive, PTL

\* Interning finds what is there already: no string, location or attribute
\* is written twice.
THEOREM NoTableEntryTwice == Spec => []TablesHaveNoDuplicates
<1>1. PInv => TablesHaveNoDuplicates
  BY NoDuplicates
<1> QED BY <1>1, DocumentInductive, PTL

-----------------------------------------------------------------------------
(* What symbolize() has done to the document *)

\* The strings there are once functions are named.
Texts ==
    Keys \cup {FunctionOf[a].name : a \in Nat} \cup {FunctionOf[a].file : a \in Nat}
Line == {NoLine} \cup [function : Nat, line : {FunctionOf[a].line : a \in Nat}]

\* An index of a function leads to its name and its file.
Leads(str, fns, index, name, path) ==
    /\ index \in 0 .. Len(fns) - 1
    /\ At(str, At(fns, index).name) = name /\ At(str, At(fns, index).file) = path

AFunction == [name : Nat, file : Nat]

FunctionsOk(str, fns, found) ==
    /\ str \in Seq(Texts) /\ IsInjective(str)
    /\ fns \in Seq(AFunction)
    /\ \A k \in 1 .. Len(fns) : fns[k].name < Len(str) /\ fns[k].file < Len(str)
    /\ \A e \in found : Leads(str, fns, e[2], e[1][1], e[1][2])

\* A location whose function was looked up.
Nameless(f) == f.name = ""
Named(str, fns, line, f) ==
    IF Nameless(f) THEN line = NoLine
      ELSE line.line = f.line /\ Leads(str, fns, line.function, f.name, f.file)

\* The frames of a stack that are the sampler's, all of them or the leading
\* ones.
AllSampler(pcs) == \A n \in 1 .. Len(pcs) : IsSampler(pcs[n])
Trimmed(idx) == IF Cut(idx) = Len(idx) THEN idx ELSE SubSeq(idx, Cut(idx) + 1, Len(idx))

LookedUp == IF step = "locations" THEN l ELSE Len(doc.locations)
TrimmedUpTo == IF step = "locations" THEN 0 ELSE l

STypes ==
    /\ step \in {"idle", "locations", "stacks", "forwarded"} /\ l \in Nat
    /\ lines \in Seq(Line) /\ is_isr \in Seq(BOOLEAN)

Idle == step = "idle" => /\ l = 0 /\ functions = <<>> /\ func_index = {} /\ lines = <<>>
                         /\ fully_trimmed = {}

\* The document is the exported one, with more strings and trimmed stacks.
Enriched ==
    /\ exported # NoDocument
    /\ doc = [samples |-> doc.samples, strings |-> doc.strings, mapping |-> exported.mapping,
              locations |-> exported.locations, stackTable |-> doc.stackTable,
              attributes |-> exported.attributes]
    /\ Longer(exported.strings, doc.strings)
    /\ FunctionsOk(doc.strings, functions, func_index)
    /\ doc.stackTable = [k \in 1 .. Len(stacks) |->
                           IF k <= TrimmedUpTo THEN Trimmed(exported.stackTable[k])
                             ELSE exported.stackTable[k]]
    /\ fully_trimmed = {k - 1 : k \in {k \in 1 .. TrimmedUpTo : AllSampler(stacks[k].pcs)}}

\* The locations that were looked up, and those that were not.
Symbolized ==
    /\ Len(lines) = Len(doc.locations) /\ Len(is_isr) = Len(doc.locations)
    /\ LookedUp <= Len(doc.locations)
    /\ \A k \in 1 .. LookedUp : /\ Named(doc.strings, functions, lines[k], FunctionOf[doc.locations[k]])
                                /\ is_isr[k] <=> IsSampler(doc.locations[k])
    /\ \A k \in LookedUp + 1 .. Len(lines) : lines[k] = NoLine /\ ~is_isr[k]

\* Where symbolize() is.
Gone ==
    /\ TrimmedUpTo <= Len(stacks)
    /\ step \in {"locations", "stacks"} => doc.samples = exported.samples
    /\ step = "forwarded" =>
         /\ l = Len(stacks)
         /\ doc.samples = Kept(exported.samples,
                               {k \in 1 .. Len(stacks) : ~AllSampler(stacks[k].pcs)})

SInv ==
    /\ PInv /\ STypes /\ Idle
    /\ step # "idle" => Enriched /\ Symbolized /\ Gone

-----------------------------------------------------------------------------
LEMMA LongerTwice ==
    ASSUME NEW t, NEW u, NEW v, Longer(t, u), Longer(u, v), Len(t) \in Nat, Len(u) \in Nat, Len(v) \in Nat
    PROVE  Longer(t, v)
BY DEF Longer

\* Once it is exported, the document stays.
LEMMA ExportedStays ==
    ASSUME PInv, Next, exported # NoDocument
    PROVE  UNCHANGED <<exported, stacks>>
<1>1. pc \in {"free", "return"}
  BY DEF PInv, ExportedIsDocument
<1>2. Free
  BY <1>1 DEF Next, Start, AddLocation, AddSample, Measure, Allocate, Write
<1> QED BY <1>2 DEF Free

LEMMA LeadsStays ==
    ASSUME NEW str, NEW fns, NEW found, FunctionsOk(str, fns, found),
           NEW str2, NEW fns2, Longer(str, str2), Longer(fns, fns2),
           Len(str2) \in Nat, Len(fns2) \in Nat,
           NEW index, NEW name, NEW path, Leads(str, fns, index, name, path)
    PROVE  Leads(str2, fns2, index, name, path)
<1> DEFINE f == fns[index + 1]
<1>1. Len(str) \in Nat /\ Len(fns) \in Nat /\ index \in 0 .. Len(fns) - 1
      /\ fns \in Seq(AFunction)
  BY DEF FunctionsOk, Leads
<1>2. index + 1 \in 1 .. Len(fns)
  BY <1>1
<1>3. f.name \in Nat /\ f.file \in Nat
  <2>1. f \in AFunction
    BY <1>1, <1>2
  <2> QED BY <2>1 DEF AFunction
<1>4. f.name \in 0 .. Len(str) - 1 /\ f.file \in 0 .. Len(str) - 1
  <2>1. f.name < Len(str) /\ f.file < Len(str)
    BY <1>2 DEF FunctionsOk
  <2> HIDE DEF f
  <2> QED BY <1>1, <1>3, <2>1
<1>5. fns2[index + 1] = f /\ index \in 0 .. Len(fns2) - 1
  BY <1>1, <1>2 DEF Longer
<1>6. \A n \in 0 .. Len(str) - 1 : At(str2, n) = At(str, n)
  BY <1>1 DEF Longer, At
<1>7. At(str, f.name) = name /\ At(str, f.file) = path
  BY DEF Leads, At
<1> HIDE DEF f
<1> QED BY <1>4, <1>5, <1>6, <1>7 DEF Leads, At

\* A function that was not known.
LEMMA FunctionAdded ==
    ASSUME NEW str, NEW fns, NEW found, FunctionsOk(str, fns, found),
           NEW f, f.name \in Texts, f.file \in Texts,
           NEW named, named = Interned(str, f.name),
           NEW path, path = Interned(named.strings, f.file),
           NEW fns2, fns2 = Append(fns, [name |-> named.index, file |-> path.index])
    PROVE  /\ FunctionsOk(path.strings, fns2, found \cup {<<FunctionKey(f), Len(fns)>>})
           /\ Longer(str, path.strings) /\ Longer(fns, fns2)
           /\ Leads(path.strings, fns2, Len(fns), f.name, f.file)
<1> DEFINE str1 == named.strings
           str2 == path.strings
           new == [name |-> named.index, file |-> path.index]
<1>1. str \in Seq(Texts) /\ IsInjective(str) /\ fns \in Seq(AFunction) /\ Len(str) \in Nat /\ Len(fns) \in Nat
  BY DEF FunctionsOk
<1>2. /\ str1 \in Seq(Texts) /\ IsInjective(str1) /\ Longer(str, str1)
      /\ named.index \in 0 .. Len(str1) - 1 /\ At(str1, named.index) = f.name
  BY <1>1, InternedString
<1>3. /\ str2 \in Seq(Texts) /\ IsInjective(str2) /\ Longer(str1, str2)
      /\ path.index \in 0 .. Len(str2) - 1 /\ At(str2, path.index) = f.file
  BY <1>2, InternedString
<1> HIDE DEF str1, str2
<1>4. Len(str1) \in Nat /\ Len(str2) \in Nat
  BY <1>2, <1>3
<1>5. named.index \in 0 .. Len(str2) - 1 /\ At(str2, named.index) = f.name
  <2>1. Len(str1) <= Len(str2) /\ \A n \in 0 .. Len(str1) - 1 : At(str2, n) = At(str1, n)
    BY <1>3, <1>4 DEF Longer, At
  <2> QED BY <1>2, <1>4, <2>1
<1>6. Longer(str, str2)
  BY <1>1, <1>2, <1>3, <1>4, LongerTwice
<1>7. new \in AFunction /\ new.name = named.index /\ new.file = path.index
  BY <1>3, <1>5 DEF AFunction
<1> HIDE DEF new
<1>8. /\ fns2 \in Seq(AFunction) /\ Len(fns2) = Len(fns) + 1 /\ fns2[Len(fns) + 1] = new
      /\ \A k \in 1 .. Len(fns) : fns2[k] = fns[k]
  <2>1. fns2 = Append(fns, new)
    BY DEF new
  <2> QED BY <1>1, <1>7, <2>1
<1>9. Longer(fns, fns2) /\ Len(fns2) \in Nat
  BY <1>1, <1>8 DEF Longer
<1>10. Leads(str2, fns2, Len(fns), f.name, f.file)
  <2>1. At(fns2, Len(fns)) = new /\ Len(fns) \in 0 .. Len(fns2) - 1
    BY <1>1, <1>8 DEF At
  <2> QED BY <1>3, <1>5, <1>7, <2>1 DEF Leads
<1>11. \A k \in 1 .. Len(fns2) : fns2[k].name < Len(str2) /\ fns2[k].file < Len(str2)
  <2> SUFFICES ASSUME NEW k \in 1 .. Len(fns2)
               PROVE  fns2[k].name < Len(str2) /\ fns2[k].file < Len(str2)
    OBVIOUS
  <2>1. CASE k = Len(fns) + 1
    BY <1>3, <1>4, <1>5, <1>7, <1>8, <2>1
  <2>2. CASE k \in 1 .. Len(fns)
    <3>1. fns2[k] = fns[k] /\ fns[k] \in AFunction
      BY <1>1, <1>8, <2>2
    <3>2. fns[k].name < Len(str) /\ fns[k].file < Len(str) /\ fns[k].name \in Nat /\ fns[k].file \in Nat
      BY <2>2, <3>1 DEF FunctionsOk, AFunction
    <3>3. Len(str) <= Len(str2)
      BY <1>6 DEF Longer
    <3> QED BY <1>1, <1>4, <3>1, <3>2, <3>3
  <2> QED BY <1>1, <1>8, <2>1, <2>2
<1>12. ASSUME NEW e \in found \cup {<<FunctionKey(f), Len(fns)>>}
       PROVE  Leads(str2, fns2, e[2], e[1][1], e[1][2])
  <2>1. CASE e \in found
    <3>1. Leads(str, fns, e[2], e[1][1], e[1][2])
      BY <2>1 DEF FunctionsOk
    <3> QED BY <1>4, <1>6, <1>9, <3>1, LeadsStays, SMTT(30)
  <2>2. CASE e = <<FunctionKey(f), Len(fns)>>
    <3>1. e[2] = Len(fns) /\ e[1][1] = f.name /\ e[1][2] = f.file
      BY <2>2 DEF FunctionKey
    <3> QED BY <1>10, <3>1
  <2> QED BY <2>1, <2>2
<1>13. FunctionsOk(str2, fns2, found \cup {<<FunctionKey(f), Len(fns)>>})
  BY <1>3, <1>8, <1>11, <1>12 DEF FunctionsOk
<1> QED BY <1>6, <1>9, <1>10, <1>13 DEF str2

-----------------------------------------------------------------------------
LEMMA InitSInv == ASSUME StackLists \subseteq Seq(AStack) PROVE SInit => SInv
<1> SUFFICES ASSUME SInit PROVE SInv
  OBVIOUS
<1>1. PInv
  BY InitPInv DEF SInit
<1>2. STypes /\ Idle /\ step = "idle"
  BY DEF SInit, STypes, Idle
<1> QED BY <1>1, <1>2 DEF SInv

\* A step of export_profiles().
LEMMA DeviceSInv ==
    ASSUME SInv, [Next]_vars, UNCHANGED <<step, doc, symbols>>
    PROVE  SInv'
<1> USE DEF SInv
<1>1. PInv'
  BY NextPInv
<1>2. STypes' /\ Idle'
  BY DEF STypes, Idle, symbols
<1>3. ASSUME step # "idle" PROVE (Enriched /\ Symbolized /\ Gone)'
  <2>1. UNCHANGED <<exported, stacks>>
    BY <1>3, ExportedStays DEF Enriched, vars
  <2>2. Enriched /\ Symbolized /\ Gone
    BY <1>3
  <2>3. Enriched'
    <3>1. \A k : Trimmed(exported.stackTable[k])' = Trimmed(exported.stackTable[k])
      BY <2>1 DEF symbols, Trimmed, Cut
    <3>2. TrimmedUpTo' = TrimmedUpTo /\ UNCHANGED <<functions, func_index, fully_trimmed>>
      BY DEF symbols, TrimmedUpTo
    <3> QED BY <2>1, <2>2, <3>1, <3>2 DEF Enriched
  <2>4. Symbolized'
    BY <2>1, <2>2 DEF Symbolized, symbols, LookedUp
  <2>5. Gone'
    BY <2>1, <2>2 DEF Gone, symbols, TrimmedUpTo
  <2> QED BY <2>3, <2>4, <2>5
<1> QED BY <1>1, <1>2, <1>3

LEMMA ReceiveSInv == ASSUME SInv, Receive PROVE SInv'
<1> USE DEF SInv
<1>0. /\ step = "idle" /\ exported # NoDocument /\ doc' = exported /\ step' = "locations"
      /\ lines' = [k \in 1 .. Len(exported.locations) |-> NoLine]
      /\ is_isr' = [k \in 1 .. Len(exported.locations) |-> FALSE]
      /\ UNCHANGED <<vars, l, functions, func_index, fully_trimmed>>
  BY DEF Receive
<1>1. PInv'
  BY <1>0, NextPInv
<1>2. l = 0 /\ functions = <<>> /\ func_index = {} /\ fully_trimmed = {}
  BY <1>0 DEF Idle
<1>3. UNCHANGED <<exported, stacks>>
  BY <1>0 DEF vars
<1> DEFINE n == Len(exported.locations)
<1>4. /\ exported = Document /\ Filled /\ exported.locations = locations /\ exported.strings = strings
      /\ n \in Nat
  BY <1>0 DEF PInv, PTypes, ExportedIsDocument, Document
<1>5. /\ strings \in Seq(Texts) /\ IsInjective(strings)
  <2>1. strings \in Seq(Keys) /\ Keys \subseteq Texts
    BY <1>4 DEF Filled, TablesOk, Texts
  <2> QED BY <1>4, <2>1 DEF Filled, TablesOk
<1>6. STypes'
  <2>1. NoLine \in Line
    BY DEF Line
  <2> HIDE DEF n
  <2>2. [k \in 1 .. n |-> NoLine] \in Seq(Line) /\ [k \in 1 .. n |-> FALSE] \in Seq(BOOLEAN)
    BY <1>4, <2>1
  <2> QED BY <1>0, <1>2, <2>2 DEF STypes, n
<1>7. Idle'
  BY <1>0 DEF Idle
<1>8. TrimmedUpTo' = 0 /\ LookedUp' = 0
  BY <1>0, <1>2 DEF TrimmedUpTo, LookedUp
<1>9. Enriched'
  <2>1. doc' = [samples |-> exported.samples, strings |-> exported.strings,
                mapping |-> exported.mapping, locations |-> exported.locations,
                stackTable |-> exported.stackTable, attributes |-> exported.attributes]
    BY <1>0, <1>4 DEF Document
  <2>2. Longer(strings, strings)
    BY <1>5 DEF Longer
  <2>3. FunctionsOk(strings, functions, func_index)
    BY <1>2, <1>5 DEF FunctionsOk
  <2>4. exported.stackTable = [k \in 1 .. Len(stacks) |-> exported.stackTable[k]]
    BY <1>4 DEF Document
  <2>5. Len(stacks) \in Nat
    BY DEF PInv, PTypes
  <2>6. doc'.stackTable = [k \in 1 .. Len(stacks') |->
                             IF k <= TrimmedUpTo' THEN Trimmed(exported.stackTable[k])'
                               ELSE exported'.stackTable[k]]
    <3>1. \A k \in 1 .. Len(stacks) : ~ (k <= 0)
      BY <2>5
    <3> QED BY <1>0, <1>3, <1>8, <2>4, <3>1
  <2>7. fully_trimmed' = {k - 1 : k \in {k \in 1 .. TrimmedUpTo' : AllSampler(stacks'[k].pcs)}}
    BY <1>0, <1>2, <1>8
  <2> QED BY <1>0, <1>2, <1>3, <1>4, <2>1, <2>2, <2>3, <2>6, <2>7 DEF Enriched
<1>10. Symbolized'
  <2> DEFINE x == [k \in 1 .. n |-> NoLine]
             y == [k \in 1 .. n |-> FALSE]
  <2>1. Len(x) = n /\ Len(y) = n
    BY <1>4
  <2>2. \A k \in 1 .. n : x[k] = NoLine /\ ~y[k]
    OBVIOUS
  <2>3. lines' = x /\ is_isr' = y /\ Len(doc'.locations) = n
    BY <1>0
  <2> HIDE DEF x, y, n
  <2> QED BY <1>4, <1>8, <2>1, <2>2, <2>3 DEF Symbolized
<1>11. Gone'
  BY <1>0, <1>3, <1>8 DEF Gone, PInv, PTypes
<1> QED BY <1>1, <1>6, <1>7, <1>9, <1>10, <1>11

\* What the exported tables hold, of which the document's are made.
LEMMA ExportedTables ==
    ASSUME PInv, exported # NoDocument
    PROVE  /\ exported = Document /\ exported.locations = locations /\ exported.strings = strings
           /\ exported.attributes = attributes
           /\ locations \in Seq(Nat) /\ Len(locations) \in Nat /\ Len(strings) \in Nat
           /\ Len(stacks) \in Nat /\ stacks \in Seq(AStack)
BY DEF PInv, PTypes, ExportedIsDocument, Document, Filled, TablesOk

\* A location whose function has no name.
LEMMA NoFunction ==
    ASSUME SInv, Location, Nameless(FunctionOf[At(doc.locations, l)])
    PROVE  SInv'
<1> USE DEF SInv
<1>0. /\ step = "locations" /\ l < Len(doc.locations) /\ l' = l + 1
      /\ UNCHANGED <<functions, func_index, doc, lines, is_isr>>
      /\ UNCHANGED <<vars, step, fully_trimmed>>
  BY DEF Location, Nameless
<1>1. PInv'
  BY <1>0, NextPInv
<1>2. UNCHANGED <<exported, stacks>>
  BY <1>0 DEF vars
<1>3. Enriched /\ Symbolized /\ Gone /\ l \in Nat
  BY <1>0 DEF STypes
<1>4. STypes' /\ Idle'
  BY <1>0, <1>3 DEF STypes, Idle
<1>5. TrimmedUpTo' = 0 /\ TrimmedUpTo = 0 /\ LookedUp = l /\ LookedUp' = l + 1
  BY <1>0 DEF TrimmedUpTo, LookedUp
<1>6. Enriched'
  <2>1. \A k : Trimmed(exported.stackTable[k])' = Trimmed(exported.stackTable[k])
    BY <1>0, <1>2 DEF Trimmed, Cut
  <2> QED BY <1>0, <1>2, <1>3, <1>5, <2>1 DEF Enriched
<1>7. Symbolized'
  <2>1. Len(doc.locations) \in Nat /\ Len(lines) = Len(doc.locations)
    BY <1>3, ExportedTables DEF Enriched, Symbolized
  <2>2. lines[l + 1] = NoLine /\ ~is_isr[l + 1]
    BY <1>0, <1>3, <1>5, <2>1 DEF Symbolized
  <2>3. Nameless(FunctionOf[doc.locations[l + 1]])
    BY DEF At
  <2>4. Named(doc.strings, functions, lines[l + 1], FunctionOf[doc.locations[l + 1]])
    BY <2>2, <2>3 DEF Named
  <2>5. is_isr[l + 1] <=> IsSampler(doc.locations[l + 1])
    BY <2>2, <2>3 DEF IsSampler, Nameless
  <2>6. \A k \in 1 .. l + 1 : k \in 1 .. l \/ k = l + 1
    BY <1>3
  <2>7. \A k \in (l + 1) + 1 .. Len(lines) : k \in l + 1 .. Len(lines)
    BY <1>3, <2>1
  <2>8. l + 1 <= Len(doc.locations)
    BY <1>0, <1>3, <2>1
  <2>9. \A k \in 1 .. l + 1 :
          /\ Named(doc.strings, functions, lines[k], FunctionOf[doc.locations[k]])
          /\ is_isr[k] <=> IsSampler(doc.locations[k])
    BY <1>3, <1>5, <2>4, <2>5, <2>6 DEF Symbolized
  <2>10. \A k \in (l + 1) + 1 .. Len(lines) : lines[k] = NoLine /\ ~is_isr[k]
    BY <1>3, <1>5, <2>7 DEF Symbolized
  <2> QED BY <1>0, <1>3, <1>5, <2>8, <2>9, <2>10 DEF Symbolized
<1>8. Gone'
  BY <1>0, <1>2, <1>3, <1>5 DEF Gone
<1> QED BY <1>1, <1>4, <1>6, <1>7, <1>8

\* What AddFunction leaves of the tables.
LEMMA FunctionFound ==
    ASSUME NEW f, f.name \in Texts, f.file \in Texts, AddFunction(f),
           FunctionsOk(doc.strings, functions, func_index),
           doc = [samples |-> doc.samples, strings |-> doc.strings, mapping |-> doc.mapping,
                  locations |-> doc.locations, stackTable |-> doc.stackTable,
                  attributes |-> doc.attributes]
    PROVE  /\ FunctionsOk(doc'.strings, functions', func_index')
           /\ Longer(doc.strings, doc'.strings) /\ Longer(functions, functions')
           /\ doc' = [doc EXCEPT !.strings = doc'.strings]
           /\ \E index \in Nat :
                 /\ lines' = [lines EXCEPT ![l + 1] = [function |-> index, line |-> f.line]]
                 /\ Leads(doc'.strings, functions', index, f.name, f.file)
<1> DEFINE known == {e \in func_index : e[1] = FunctionKey(f)}
           name == Interned(doc.strings, f.name)
           path == Interned(name.strings, f.file)
<1>0. Len(doc.strings) \in Nat /\ Len(functions) \in Nat
  BY DEF FunctionsOk
<1>1. CASE known # {}
  <2> DEFINE e == CHOOSE e \in known : TRUE
  <2>1. e \in known
    BY <1>1
  <2>2. /\ lines' = [lines EXCEPT ![l + 1] = [function |-> e[2], line |-> f.line]]
        /\ UNCHANGED <<functions, func_index, doc>>
    BY <1>1 DEF AddFunction
  <2> HIDE DEF e
  <2>3. e \in func_index /\ e[1] = <<f.name, f.file>>
    BY <2>1 DEF FunctionKey
  <2>4. Leads(doc.strings, functions, e[2], f.name, f.file)
    BY <2>3 DEF FunctionsOk
  <2>5. e[2] \in Nat
    BY <1>0, <2>4 DEF Leads
  <2>6. Longer(doc.strings, doc.strings) /\ Longer(functions, functions)
    BY <1>0 DEF Longer
  <2>7. doc = [doc EXCEPT !.strings = doc.strings]
    OBVIOUS
  <2>8. doc' = [doc EXCEPT !.strings = doc'.strings]
    BY <2>2, <2>7
  <2> QED BY <2>2, <2>4, <2>5, <2>6, <2>8
<1>2. CASE known = {}
  <2> DEFINE fns2 == Append(functions, [name |-> name.index, file |-> path.index])
  <2>1. /\ lines' = [lines EXCEPT ![l + 1] = [function |-> Len(functions), line |-> f.line]]
        /\ functions' = fns2
        /\ func_index' = func_index \cup {<<FunctionKey(f), Len(functions)>>}
        /\ doc' = [doc EXCEPT !.strings = path.strings]
    BY <1>2 DEF AddFunction, NewIndex
  <2>2. /\ FunctionsOk(path.strings, fns2, func_index \cup {<<FunctionKey(f), Len(functions)>>})
        /\ Longer(doc.strings, path.strings) /\ Longer(functions, fns2)
        /\ Leads(path.strings, fns2, Len(functions), f.name, f.file)
    <3> DEFINE str == doc.strings
               fns == functions
               found == func_index
    <3>1. /\ FunctionsOk(str, fns, found) /\ f.name \in Texts /\ f.file \in Texts
          /\ name = Interned(str, f.name) /\ path = Interned(name.strings, f.file)
          /\ fns2 = Append(fns, [name |-> name.index, file |-> path.index])
      OBVIOUS
    <3> HIDE DEF str, fns, found, name, path, fns2
    <3>2. /\ FunctionsOk(path.strings, fns2, found \cup {<<FunctionKey(f), Len(fns)>>})
          /\ Longer(str, path.strings) /\ Longer(fns, fns2)
          /\ Leads(path.strings, fns2, Len(fns), f.name, f.file)
      BY <3>1, FunctionAdded
    <3> QED BY <3>2 DEF str, fns, found
  <2> HIDE DEF path, fns2, name
  <2>3. doc'.strings = path.strings
    BY <2>1
  <2> QED BY <1>0, <2>1, <2>2, <2>3
<1> QED BY <1>1, <1>2

LEMMA NamedStays ==
    ASSUME NEW str, NEW fns, NEW found, FunctionsOk(str, fns, found),
           NEW str2, NEW fns2, Longer(str, str2), Longer(fns, fns2),
           Len(str2) \in Nat, Len(fns2) \in Nat,
           NEW line, NEW f, Named(str, fns, line, f)
    PROVE  Named(str2, fns2, line, f)
<1>1. CASE Nameless(f)
  BY <1>1 DEF Named
<1>2. CASE ~Nameless(f)
  BY <1>2, LeadsStays DEF Named
<1> QED BY <1>1, <1>2

\* A location whose function is known, or becomes known.
LEMMA Function ==
    ASSUME SInv, Location, ~Nameless(FunctionOf[At(doc.locations, l)])
    PROVE  SInv'
<1> USE DEF SInv
<1> DEFINE addr == doc.locations[l + 1]
           f == FunctionOf[addr]
<1>0. /\ step = "locations" /\ l < Len(doc.locations) /\ l' = l + 1
      /\ is_isr' = [is_isr EXCEPT ![l + 1] = f.name \in IsrNames]
      /\ AddFunction(f) /\ ~Nameless(f)
      /\ UNCHANGED <<vars, step, fully_trimmed>>
  BY DEF Location, At, Nameless
<1>1. PInv'
  BY <1>0, NextPInv
<1>2. UNCHANGED <<exported, stacks>>
  BY <1>0 DEF vars
<1>3. Enriched /\ Symbolized /\ Gone /\ l \in Nat /\ lines \in Seq(Line) /\ is_isr \in Seq(BOOLEAN)
  BY <1>0 DEF STypes
<1>4. /\ doc.locations = locations /\ locations \in Seq(Nat) /\ Len(doc.locations) \in Nat
      /\ Len(lines) = Len(doc.locations) /\ Len(is_isr) = Len(doc.locations)
  BY <1>3, ExportedTables DEF Enriched, Symbolized
<1>5. l + 1 \in 1 .. Len(doc.locations) /\ addr \in Nat
  BY <1>0, <1>3, <1>4
<1>6. f.name \in Texts /\ f.file \in Texts
  BY <1>5 DEF Texts
<1>61. doc = [samples |-> doc.samples, strings |-> doc.strings, mapping |-> doc.mapping,
              locations |-> doc.locations, stackTable |-> doc.stackTable,
              attributes |-> doc.attributes]
  BY <1>3 DEF Enriched
<1>7. /\ FunctionsOk(doc'.strings, functions', func_index')
      /\ Longer(doc.strings, doc'.strings) /\ Longer(functions, functions')
      /\ doc' = [doc EXCEPT !.strings = doc'.strings]
      /\ \E index \in Nat :
            /\ lines' = [lines EXCEPT ![l + 1] = [function |-> index, line |-> f.line]]
            /\ Leads(doc'.strings, functions', index, f.name, f.file)
  BY <1>0, <1>3, <1>6, <1>61, FunctionFound DEF Enriched
<1>8. PICK index \in Nat :
            /\ lines' = [lines EXCEPT ![l + 1] = [function |-> index, line |-> f.line]]
            /\ Leads(doc'.strings, functions', index, f.name, f.file)
  BY <1>7
<1>9. /\ doc'.samples = doc.samples /\ doc'.locations = doc.locations
      /\ doc'.stackTable = doc.stackTable
      /\ doc' = [samples |-> doc'.samples, strings |-> doc'.strings, mapping |-> doc.mapping,
                 locations |-> doc.locations, stackTable |-> doc'.stackTable,
                 attributes |-> doc.attributes]
  BY <1>7, <1>61
<1>10. TrimmedUpTo' = 0 /\ TrimmedUpTo = 0 /\ LookedUp = l /\ LookedUp' = l + 1
  BY <1>0 DEF TrimmedUpTo, LookedUp
<1> HIDE DEF f, addr
<1>11. /\ lines' \in Seq(Line) /\ Len(lines') = Len(lines)
       /\ lines'[l + 1] = [function |-> index, line |-> f.line]
       /\ \A k \in (1 .. Len(lines)) \ {l + 1} : lines'[k] = lines[k]
  <2>1. [function |-> index, line |-> f.line] \in Line
    BY <1>5 DEF Line, f
  <2> DEFINE x == [function |-> index, line |-> f.line]
  <2> HIDE DEF x
  <2>2. lines' = [lines EXCEPT ![l + 1] = x] /\ x \in Line
    BY <1>8, <2>1 DEF x
  <2>3. l + 1 \in 1 .. Len(lines)
    BY <1>4, <1>5
  <2>4. /\ lines' \in Seq(Line) /\ Len(lines') = Len(lines) /\ lines'[l + 1] = x
        /\ \A k \in (1 .. Len(lines)) \ {l + 1} : lines'[k] = lines[k]
    BY <1>3, <2>2, <2>3
  <2> QED BY <2>4 DEF x
<1>12. /\ is_isr' \in Seq(BOOLEAN) /\ Len(is_isr') = Len(is_isr)
       /\ is_isr'[l + 1] <=> IsSampler(addr)
       /\ \A k \in (1 .. Len(is_isr)) \ {l + 1} : is_isr'[k] = is_isr[k]
  <2>1. (f.name \in IsrNames) \in BOOLEAN
    OBVIOUS
  <2>2. l + 1 \in 1 .. Len(is_isr) /\ Len(is_isr) \in Nat
    BY <1>4, <1>5
  <2>3. IsSampler(addr) <=> f.name \in IsrNames
    BY <1>0 DEF IsSampler, Nameless, f
  <2> DEFINE x == f.name \in IsrNames
  <2>4. is_isr' = [is_isr EXCEPT ![l + 1] = x] /\ x \in BOOLEAN
    BY <1>0, <2>1
  <2> HIDE DEF x
  <2>5. /\ is_isr' \in Seq(BOOLEAN) /\ Len(is_isr') = Len(is_isr) /\ is_isr'[l + 1] = x
        /\ \A k \in (1 .. Len(is_isr)) \ {l + 1} : is_isr'[k] = is_isr[k]
    BY <1>3, <2>2, <2>4
  <2> QED BY <2>3, <2>5, Zenon DEF x
<1>13. STypes' /\ Idle'
  BY <1>0, <1>3, <1>11, <1>12 DEF STypes, Idle
<1>14. Enriched'
  <2>1. \A k : ~ (k <= 0) => (IF k <= TrimmedUpTo THEN Trimmed(exported.stackTable[k])
                               ELSE exported.stackTable[k]) = exported.stackTable[k]
    BY <1>10
  <2>2. Len(stacks) \in Nat /\ \A k \in 1 .. Len(stacks) : ~ (k <= 0)
    BY <1>3, ExportedTables DEF Enriched
  <2>3. doc.stackTable = [k \in 1 .. Len(stacks) |-> exported.stackTable[k]]
    BY <1>3, <1>10, <2>2 DEF Enriched
  <2>4. doc'.stackTable = [k \in 1 .. Len(stacks) |->
                             IF k <= TrimmedUpTo' THEN Trimmed(exported.stackTable[k])'
                               ELSE exported'.stackTable[k]]
    BY <1>2, <1>9, <1>10, <2>2, <2>3
  <2>5. Longer(exported.strings, doc'.strings)
    <3>1. Len(exported.strings) \in Nat /\ Len(doc.strings) \in Nat /\ Len(doc'.strings) \in Nat
      BY <1>3, <1>7, ExportedTables DEF Enriched, FunctionsOk
    <3> QED BY <1>3, <1>7, <3>1, LongerTwice DEF Enriched
  <2>6. /\ doc.mapping = exported.mapping /\ doc.attributes = exported.attributes
        /\ doc.locations = exported.locations
    BY <1>3 DEF Enriched
  <2>7. doc' = [samples |-> doc'.samples, strings |-> doc'.strings, mapping |-> exported'.mapping,
                locations |-> exported'.locations, stackTable |-> doc'.stackTable,
                attributes |-> exported'.attributes]
    BY <1>2, <1>9, <2>6
  <2>8. fully_trimmed' = {k - 1 : k \in {k \in 1 .. TrimmedUpTo' : AllSampler(stacks'[k].pcs)}}
    BY <1>0, <1>2, <1>3, <1>10 DEF Enriched
  <2> QED BY <1>2, <1>3, <1>7, <2>4, <2>5, <2>7, <2>8 DEF Enriched
<1>15. Symbolized'
  <2>1. \A k \in 1 .. l + 1 : k \in 1 .. l \/ k = l + 1
    BY <1>3
  <2>2. ASSUME NEW k \in 1 .. l
        PROVE  /\ Named(doc'.strings, functions', lines'[k], FunctionOf[doc.locations[k]])
               /\ is_isr'[k] <=> IsSampler(doc.locations[k])
    <3>1. k \in (1 .. Len(lines)) \ {l + 1} /\ k \in (1 .. Len(is_isr)) \ {l + 1}
      BY <1>3, <1>4, <1>5
    <3>2. /\ Named(doc.strings, functions, lines[k], FunctionOf[doc.locations[k]])
          /\ is_isr[k] <=> IsSampler(doc.locations[k])
      BY <1>3, <1>10 DEF Symbolized
    <3>3. FunctionsOk(doc.strings, functions, func_index) /\ Len(doc'.strings) \in Nat /\ Len(functions') \in Nat
      BY <1>3, <1>7 DEF Enriched, FunctionsOk
    <3>4. Named(doc'.strings, functions', lines[k], FunctionOf[doc.locations[k]])
      BY <1>7, <3>2, <3>3, NamedStays
    <3>5. lines'[k] = lines[k] /\ is_isr'[k] = is_isr[k]
      BY <1>11, <1>12, <3>1
    <3> QED BY <3>2, <3>4, <3>5
  <2>3. Named(doc'.strings, functions', lines'[l + 1], f)
    BY <1>0, <1>8, <1>11 DEF Named
  <2>4. is_isr'[l + 1] <=> IsSampler(doc.locations[l + 1])
    BY <1>12 DEF addr
  <2>5. \A k \in 1 .. l + 1 :
          /\ Named(doc'.strings, functions', lines'[k], FunctionOf[doc.locations[k]])
          /\ is_isr'[k] <=> IsSampler(doc.locations[k])
    BY <2>1, <2>2, <2>3, <2>4 DEF f, addr
  <2>6. \A k \in (l + 1) + 1 .. Len(lines') : lines'[k] = NoLine /\ ~is_isr'[k]
    <3> SUFFICES ASSUME NEW k \in (l + 1) + 1 .. Len(lines') PROVE lines'[k] = NoLine /\ ~is_isr'[k]
      OBVIOUS
    <3>1. /\ k \in l + 1 .. Len(lines) /\ k \in (1 .. Len(lines)) \ {l + 1}
          /\ k \in (1 .. Len(is_isr)) \ {l + 1}
      BY <1>3, <1>4, <1>11
    <3>2. lines[k] = NoLine /\ ~is_isr[k]
      BY <1>3, <1>10, <3>1 DEF Symbolized
    <3>3. lines'[k] = lines[k] /\ is_isr'[k] = is_isr[k]
      BY <1>11, <1>12, <3>1
    <3> QED BY <3>2, <3>3
  <2>7. l + 1 <= Len(doc.locations)
    BY <1>5
  <2>8. Len(lines') = Len(doc'.locations) /\ Len(is_isr') = Len(doc'.locations)
    BY <1>4, <1>9, <1>11, <1>12
  <2> QED BY <1>9, <1>10, <2>5, <2>6, <2>7, <2>8 DEF Symbolized
<1>16. Gone'
  BY <1>0, <1>2, <1>3, <1>9, <1>10 DEF Gone
<1> QED BY <1>1, <1>13, <1>14, <1>15, <1>16

\* All locations are looked up.
LEMMA LocationsDoneSInv == ASSUME SInv, LocationsDone PROVE SInv'
<1> USE DEF SInv
<1>0. /\ step = "locations" /\ l = Len(doc.locations) /\ step' = "stacks" /\ l' = 0
      /\ UNCHANGED <<vars, doc, functions, func_index, lines, is_isr, fully_trimmed>>
  BY DEF LocationsDone
<1>1. PInv'
  BY <1>0, NextPInv
<1>2. UNCHANGED <<exported, stacks>>
  BY <1>0 DEF vars
<1>3. Enriched /\ Symbolized /\ Gone
  BY <1>0
<1>4. STypes' /\ Idle'
  BY <1>0 DEF STypes, Idle
<1>5. TrimmedUpTo' = 0 /\ TrimmedUpTo = 0 /\ LookedUp = Len(doc.locations) /\ LookedUp' = Len(doc.locations)
  BY <1>0 DEF TrimmedUpTo, LookedUp
<1>6. Enriched'
  <2>1. \A k : Trimmed(exported.stackTable[k])' = Trimmed(exported.stackTable[k])
    BY <1>0, <1>2 DEF Trimmed, Cut
  <2> QED BY <1>0, <1>2, <1>3, <1>5, <2>1 DEF Enriched
<1>7. Symbolized'
  BY <1>0, <1>3, <1>5 DEF Symbolized
<1>8. Gone'
  BY <1>0, <1>2, <1>3, <1>5 DEF Gone
<1> QED BY <1>1, <1>4, <1>6, <1>7, <1>8

\* How many frames are cut off a stack, once all locations are looked up.
LEMMA Cutting ==
    ASSUME PInv, Enriched, Symbolized, LookedUp = Len(doc.locations),
           NEW k \in 1 .. Len(stacks), NEW idx, idx = exported.stackTable[k],
           NEW pcs, pcs = stacks[k].pcs
    PROVE  /\ AllSampler(pcs) => Cut(idx) = Len(pcs)
           /\ ~AllSampler(pcs) => \E m \in 1 .. Len(pcs) :
                 /\ ~IsSampler(pcs[m]) /\ (\A n \in 1 .. Len(pcs) : ~IsSampler(pcs[n]) => m <= n)
                 /\ Cut(idx) = m - 1
<1> DEFINE N == Len(pcs)
           S == {n \in 1 .. N : IsSampler(pcs[n])}
           lead == {m \in 1 .. N : \A n \in 1 .. m : n \in S}
<1>1. /\ idx \in Seq(Nat) /\ Len(idx) = N /\ stacks[k] \in AStack
      /\ \A n \in 1 .. Len(idx) : /\ idx[n] < Len(exported.locations)
                                  /\ At(exported.locations, idx[n]) = pcs[n]
  BY ExportedStack DEF Enriched
<1>2. pcs \in Seq(Nat) /\ N \in Nat
  BY <1>1 DEF AStack
<1>3. Len(doc.locations) \in Nat /\ doc.locations = exported.locations
  BY ExportedTables DEF Enriched
<1>4. ASSUME NEW n \in 1 .. N PROVE At(is_isr, idx[n]) <=> n \in S
  <2>1. idx[n] \in Nat /\ idx[n] + 1 \in 1 .. Len(doc.locations)
    <3> HIDE DEF N
    <3>1. n \in 1 .. Len(idx) /\ idx \in Seq(Nat)
      BY <1>1
    <3>2. idx[n] \in Nat
      BY <3>1
    <3>3. idx[n] < Len(exported.locations)
      BY <1>1, <3>1
    <3> QED BY <1>3, <3>2, <3>3
  <2>2. is_isr[idx[n] + 1] <=> IsSampler(doc.locations[idx[n] + 1])
    BY <2>1 DEF Symbolized
  <2>3. doc.locations[idx[n] + 1] = pcs[n]
    BY <1>1, <1>3 DEF At
  <2>4. At(is_isr, idx[n]) <=> IsSampler(pcs[n])
    BY <2>2, <2>3 DEF At
  <2> QED BY <2>4
<1>5. Cut(idx) = Cardinality(lead)
  <2>1. ASSUME NEW m \in 1 .. N
        PROVE  (\A n \in 1 .. m : At(is_isr, idx[n])) <=> (\A n \in 1 .. m : n \in S)
    <3>1. \A n \in 1 .. m : n \in 1 .. N
      BY <1>2
    <3> QED BY <1>4, <3>1
  <2>2. {m \in 1 .. Len(idx) : \A n \in 1 .. m : At(is_isr, idx[n])} = lead
    BY <1>1, <2>1
  <2> QED BY <2>2 DEF Cut
<1> HIDE DEF lead
<1>6. /\ S = 1 .. N => Cardinality(lead) = N
      /\ \A m \in (1 .. N) \ S :
            (\A n \in (1 .. N) \ S : m <= n) => Cardinality(lead) = m - 1
  <2>1. S \subseteq 1 .. N
    OBVIOUS
  <2> HIDE DEF S, N
  <2> QED BY <1>2, <2>1, Leading DEF lead
<1>7. ASSUME AllSampler(pcs) PROVE Cut(idx) = N
  BY <1>5, <1>6, <1>7 DEF AllSampler
<1>8. ASSUME ~AllSampler(pcs)
      PROVE  \E m \in 1 .. N : /\ ~IsSampler(pcs[m])
                               /\ \A n \in 1 .. N : ~IsSampler(pcs[n]) => m <= n
                               /\ Cut(idx) = m - 1
  <2>1. (1 .. N) \ S # {} /\ (1 .. N) \ S \subseteq Nat
    BY <1>8 DEF AllSampler
  <2>2. PICK m \in (1 .. N) \ S : \A n \in (1 .. N) \ S : m <= n
    BY <2>1, LeastElement
  <2>3. Cut(idx) = m - 1
    BY <1>5, <1>6, <2>2
  <2> QED BY <2>2, <2>3
<1> QED BY <1>7, <1>8

LEMMA CutAll ==
    ASSUME PInv, Enriched, Symbolized, LookedUp = Len(doc.locations),
           NEW k \in 1 .. Len(stacks), NEW idx, idx = exported.stackTable[k]
    PROVE  /\ Cut(idx) = Len(idx) <=> AllSampler(stacks[k].pcs)
           /\ idx # <<>>
<1> DEFINE pcs == stacks[k].pcs
<1>1. Len(idx) = Len(pcs) /\ stacks[k] \in AStack
  BY ExportedStack DEF Enriched
<1>2. pcs \in Seq(Nat) /\ pcs # <<>> /\ Len(pcs) \in Nat
  BY <1>1 DEF AStack
<1> HIDE DEF pcs
<1>3. Len(pcs) # 0
  BY <1>2
<1>4. idx # <<>>
  BY <1>1, <1>3
<1>5. \A m \in 1 .. Len(pcs) : m - 1 # Len(pcs)
  BY <1>2
<1>6. /\ AllSampler(pcs) => Cut(idx) = Len(pcs)
      /\ ~AllSampler(pcs) => \E m \in 1 .. Len(pcs) : Cut(idx) = m - 1
  BY Cutting DEF pcs
<1> QED BY <1>1, <1>4, <1>5, <1>6 DEF pcs

LEMMA TrimSInv == ASSUME SInv, Trim PROVE SInv'
<1> USE DEF SInv
<1> DEFINE idx == doc.stackTable[l + 1]
           old == exported.stackTable[l + 1]
<1>0. /\ step = "stacks" /\ l < Len(doc.stackTable) /\ l' = l + 1
      /\ UNCHANGED <<vars, step, functions, func_index, lines, is_isr>>
      /\ IF Cut(idx) = Len(idx) /\ idx # <<>>
           THEN fully_trimmed' = fully_trimmed \cup {l} /\ UNCHANGED doc
           ELSE /\ doc' = [doc EXCEPT !.stackTable[l + 1] = SubSeq(idx, Cut(idx) + 1, Len(idx))]
                /\ UNCHANGED fully_trimmed
  BY DEF Trim, At
<1>1. PInv'
  BY <1>0, NextPInv
<1>2. UNCHANGED <<exported, stacks>>
  BY <1>0 DEF vars
<1>3. Enriched /\ Symbolized /\ Gone /\ l \in Nat
  BY <1>0 DEF STypes
<1>4. /\ TrimmedUpTo = l /\ TrimmedUpTo' = l + 1 /\ LookedUp = Len(doc.locations)
      /\ LookedUp' = Len(doc'.locations)
  BY <1>0 DEF TrimmedUpTo, LookedUp
<1>5. Len(stacks) \in Nat /\ Len(doc.stackTable) = Len(stacks)
  <2>1. Len(stacks) \in Nat
    BY <1>3, ExportedTables DEF Enriched
  <2> DEFINE F == [k \in 1 .. Len(stacks) |->
                     IF k <= TrimmedUpTo THEN Trimmed(exported.stackTable[k])
                       ELSE exported.stackTable[k]]
  <2>2. Len(F) = Len(stacks)
    BY <2>1
  <2>3. doc.stackTable = F
    BY <1>3 DEF Enriched
  <2> HIDE DEF F
  <2> QED BY <2>1, <2>2, <2>3
<1>6. l + 1 \in 1 .. Len(stacks)
  BY <1>0, <1>3, <1>5
<1>7. idx = old
  <2>1. ~ (l + 1 <= l)
    BY <1>3
  <2> QED BY <1>3, <1>4, <1>6, <2>1 DEF Enriched
<1>8. (Cut(old) = Len(old) <=> AllSampler(stacks[l + 1].pcs)) /\ old # <<>>
  BY <1>3, <1>4, <1>6, CutAll
<1> HIDE DEF idx, old
<1>9. STypes' /\ Idle'
  BY <1>0, <1>3 DEF STypes, Idle
<1> DEFINE new == [k \in 1 .. Len(stacks) |->
                     IF k <= l + 1 THEN Trimmed(exported.stackTable[k]) ELSE exported.stackTable[k]]
<1>10. /\ doc'.samples = doc.samples /\ doc'.strings = doc.strings /\ doc'.locations = doc.locations
       /\ doc'.stackTable = new
       /\ doc' = [samples |-> doc'.samples, strings |-> doc'.strings, mapping |-> exported.mapping,
                  locations |-> exported.locations, stackTable |-> doc'.stackTable,
                  attributes |-> exported.attributes]
  <2> DEFINE F == [k \in 1 .. Len(stacks) |->
                     IF k <= l THEN Trimmed(exported.stackTable[k]) ELSE exported.stackTable[k]]
  <2>1. doc.stackTable = F
    BY <1>3, <1>4 DEF Enriched
  <2>2. /\ \A k \in 1 .. Len(stacks) : k # l + 1 => (k <= l + 1 <=> k <= l)
        /\ l + 1 <= l + 1 /\ ~ (l + 1 <= l)
    BY <1>3
  <2>3. new = [F EXCEPT ![l + 1] = Trimmed(old)]
    BY <1>6, <2>2 DEF old
  <2>4. doc = [samples |-> doc.samples, strings |-> doc.strings, mapping |-> exported.mapping,
               locations |-> exported.locations, stackTable |-> doc.stackTable,
               attributes |-> exported.attributes]
    BY <1>3 DEF Enriched
  <2>5. CASE Cut(idx) = Len(idx) /\ idx # <<>>
    <3>1. UNCHANGED doc
      BY <1>0, <2>5
    <3>2. Trimmed(old) = F[l + 1]
      BY <1>6, <1>7, <2>2, <2>5 DEF Trimmed, old
    <3>3. new = F
      BY <1>6, <2>3, <3>2
    <3> HIDE DEF F, new
    <3> QED BY <2>1, <2>4, <3>1, <3>3
  <2>6. CASE ~(Cut(idx) = Len(idx) /\ idx # <<>>)
    <3>1. doc' = [doc EXCEPT !.stackTable[l + 1] = SubSeq(idx, Cut(idx) + 1, Len(idx))]
      BY <1>0, <2>6
    <3>2. Trimmed(old) = SubSeq(idx, Cut(idx) + 1, Len(idx))
      BY <1>7, <1>8, <2>6 DEF Trimmed
    <3>3. doc' = [doc EXCEPT !.stackTable[l + 1] = Trimmed(old)]
      BY <3>1, <3>2
    <3>4. doc' = [samples |-> doc.samples, strings |-> doc.strings, mapping |-> exported.mapping,
                  locations |-> exported.locations,
                  stackTable |-> [doc.stackTable EXCEPT ![l + 1] = Trimmed(old)],
                  attributes |-> exported.attributes]
      BY <2>4, <3>3
    <3> HIDE DEF F, new
    <3>5. doc.locations = exported.locations
      BY <1>3 DEF Enriched
    <3> QED BY <2>1, <2>3, <3>4, <3>5
  <2> QED BY <2>5, <2>6
<1>11. fully_trimmed' = {k - 1 : k \in {k \in 1 .. l + 1 : AllSampler(stacks[k].pcs)}}
  <2>1. fully_trimmed = {k - 1 : k \in {k \in 1 .. l : AllSampler(stacks[k].pcs)}}
    BY <1>3, <1>4 DEF Enriched
  <2>2. 1 .. l + 1 = (1 .. l) \cup {l + 1} /\ (l + 1) - 1 = l
    BY <1>3
  <2>3. CASE AllSampler(stacks[l + 1].pcs)
    <3>1. {k \in 1 .. l + 1 : AllSampler(stacks[k].pcs)}
            = {k \in 1 .. l : AllSampler(stacks[k].pcs)} \cup {l + 1}
      BY <2>2, <2>3
    <3>2. fully_trimmed' = fully_trimmed \cup {l}
      BY <1>0, <1>7, <1>8, <2>3
    <3> QED BY <2>1, <2>2, <3>1, <3>2
  <2>4. CASE ~AllSampler(stacks[l + 1].pcs)
    <3>1. {k \in 1 .. l + 1 : AllSampler(stacks[k].pcs)} = {k \in 1 .. l : AllSampler(stacks[k].pcs)}
      BY <2>2, <2>4
    <3>2. fully_trimmed' = fully_trimmed
      BY <1>0, <1>7, <1>8, <2>4
    <3> QED BY <2>1, <3>1, <3>2
  <2> QED BY <2>3, <2>4
<1>12. Enriched'
  <2>1. \A k : Trimmed(exported.stackTable[k])' = Trimmed(exported.stackTable[k])
    BY <1>0, <1>2 DEF Trimmed, Cut
  <2>2. doc'.stackTable = [k \in 1 .. Len(stacks') |->
                             IF k <= TrimmedUpTo' THEN Trimmed(exported.stackTable[k])'
                               ELSE exported'.stackTable[k]]
    BY <1>2, <1>4, <1>10, <2>1
  <2>3. FunctionsOk(doc'.strings, functions', func_index') /\ Longer(exported'.strings, doc'.strings)
    BY <1>0, <1>2, <1>3, <1>10 DEF Enriched
  <2>4. fully_trimmed' = {k - 1 : k \in {k \in 1 .. TrimmedUpTo' : AllSampler(stacks'[k].pcs)}}
    BY <1>2, <1>4, <1>11
  <2>5. exported' # NoDocument
    BY <1>2, <1>3 DEF Enriched
  <2>6. doc' = [samples |-> doc'.samples, strings |-> doc'.strings, mapping |-> exported'.mapping,
                locations |-> exported'.locations, stackTable |-> doc'.stackTable,
                attributes |-> exported'.attributes]
    BY <1>2, <1>10
  <2> HIDE DEF new
  <2> QED BY <2>2, <2>3, <2>4, <2>5, <2>6 DEF Enriched
<1>13. Symbolized'
  <2> HIDE DEF new
  <2> QED BY <1>0, <1>3, <1>4, <1>10 DEF Symbolized
<1>14. Gone'
  <2> HIDE DEF new
  <2> QED BY <1>0, <1>2, <1>3, <1>4, <1>5, <1>6, <1>10 DEF Gone
<1> QED BY <1>1, <1>9, <1>12, <1>13, <1>14

LEMMA DropSamplesSInv == ASSUME SInv, DropSamples PROVE SInv'
<1> USE DEF SInv
<1> DEFINE K == {k \in 1 .. Len(stacks) : ~AllSampler(stacks[k].pcs)}
           kept == Kept(exported.samples, K)
<1>0. /\ step = "stacks" /\ l = Len(doc.stackTable) /\ step' = "forwarded"
      /\ doc' = [doc EXCEPT !.samples =
                   Kept(doc.samples, {k \in 1 .. Len(doc.samples) : doc.samples[k].stack \notin fully_trimmed})]
      /\ UNCHANGED <<vars, symbols>>
  BY DEF DropSamples
<1>1. PInv'
  BY <1>0, NextPInv
<1>2. UNCHANGED <<exported, stacks>>
  BY <1>0 DEF vars
<1>3. Enriched /\ Symbolized /\ Gone /\ l \in Nat
  BY <1>0 DEF STypes
<1>4. /\ TrimmedUpTo = l /\ TrimmedUpTo' = l /\ LookedUp = Len(doc.locations)
      /\ LookedUp' = Len(doc'.locations)
  BY <1>0 DEF TrimmedUpTo, LookedUp, symbols
<1>5. Len(stacks) \in Nat /\ l = Len(stacks)
  <2>1. Len(stacks) \in Nat
    BY <1>3, ExportedTables DEF Enriched
  <2> DEFINE F == [k \in 1 .. Len(stacks) |->
                     IF k <= TrimmedUpTo THEN Trimmed(exported.stackTable[k])
                       ELSE exported.stackTable[k]]
  <2>2. Len(F) = Len(stacks)
    BY <2>1
  <2>3. doc.stackTable = F
    BY <1>3 DEF Enriched
  <2> HIDE DEF F
  <2> QED BY <1>0, <2>1, <2>2, <2>3
<1>6. doc.samples = exported.samples /\ Len(exported.samples) = Len(stacks)
  <2>1. doc.samples = exported.samples
    BY <1>0, <1>3 DEF Gone
  <2>2. exported = Document
    BY <1>3, ExportedTables DEF Enriched
  <2>3. Len(exported.samples) = Len(stacks)
    BY <1>5, <2>2 DEF Document
  <2> QED BY <2>1, <2>3
<1>7. {k \in 1 .. Len(doc.samples) : doc.samples[k].stack \notin fully_trimmed} = K
  <2>1. ASSUME NEW k \in 1 .. Len(stacks)
        PROVE  doc.samples[k].stack \in fully_trimmed <=> AllSampler(stacks[k].pcs)
    <3>1. doc.samples[k].stack = k - 1
      BY <1>3, <1>6, ExportedStack DEF Enriched
    <3>2. fully_trimmed = {n - 1 : n \in {n \in 1 .. Len(stacks) : AllSampler(stacks[n].pcs)}}
      BY <1>3, <1>4, <1>5 DEF Enriched
    <3>3. \A n \in 1 .. Len(stacks) : k - 1 = n - 1 <=> n = k
      OBVIOUS
    <3> QED BY <3>1, <3>2, <3>3
  <2> QED BY <1>6, <2>1
<1> HIDE DEF K, kept
<1>8. /\ doc'.samples = kept /\ doc'.strings = doc.strings /\ doc'.locations = doc.locations
      /\ doc'.stackTable = doc.stackTable
      /\ doc' = [samples |-> doc'.samples, strings |-> doc'.strings, mapping |-> exported.mapping,
                 locations |-> exported.locations, stackTable |-> doc'.stackTable,
                 attributes |-> exported.attributes]
  <2>1. doc' = [doc EXCEPT !.samples = kept]
    BY <1>0, <1>6, <1>7 DEF kept
  <2>2. doc = [samples |-> doc.samples, strings |-> doc.strings, mapping |-> exported.mapping,
               locations |-> exported.locations, stackTable |-> doc.stackTable,
               attributes |-> exported.attributes]
    BY <1>3 DEF Enriched
  <2> QED BY <2>1, <2>2
<1>9. STypes' /\ Idle'
  BY <1>0, <1>3 DEF STypes, Idle, symbols
<1>10. Enriched'
  <2>1. \A k : Trimmed(exported.stackTable[k])' = Trimmed(exported.stackTable[k])
    BY <1>0, <1>2 DEF Trimmed, Cut, symbols
  <2> QED BY <1>0, <1>2, <1>3, <1>4, <1>8, <2>1 DEF Enriched, symbols
<1>11. Symbolized'
  BY <1>0, <1>3, <1>4, <1>8 DEF Symbolized, symbols
<1>12. Gone'
  BY <1>0, <1>2, <1>4, <1>5, <1>8 DEF Gone, K, kept, symbols
<1> QED BY <1>1, <1>9, <1>10, <1>11, <1>12

LEMMA SNextSInv == SInv /\ [SNext]_svars => SInv'
<1> SUFFICES ASSUME SInv, [SNext]_svars PROVE SInv'
  OBVIOUS
<1>1. CASE Next /\ UNCHANGED <<step, doc, symbols>>
  BY <1>1, DeviceSInv
<1>2. CASE UNCHANGED svars
  BY <1>2, DeviceSInv DEF svars
<1>3. CASE Location
  BY <1>3, NoFunction, Function
<1> QED BY <1>1, <1>2, <1>3, ReceiveSInv, LocationsDoneSInv, TrimSInv, DropSamplesSInv DEF SNext
-----------------------------------------------------------------------------

\* symbolize() changes the document under its own loops, and at every step what
\* it has not come to yet is as the device exported it.
THEOREM SymbolizerInductive == SSpec => []SInv
<1>1. SInit => SInv
  BY InitSInv, StackListsAssumption
<1>2. SInv /\ [SNext]_svars => SInv'
  BY SNextSInv
<1> QED BY <1>1, <1>2, PTL DEF SSpec

LEMMA Locations == SInv => LocationsAreNamed
<1> SUFFICES ASSUME SInv PROVE LocationsAreNamed
  OBVIOUS
<1> USE DEF SInv
<1>1. CASE step = "idle"
  <2>1. step # "forwarded" /\ Len(lines) = 0 /\ Len(functions) = 0
    BY <1>1 DEF Idle
  <2> QED BY <1>1, <2>1 DEF LocationsAreNamed, STypeOK
<1>2. CASE step # "idle"
  <2>1. Enriched /\ Symbolized
    BY <1>2
  <2>2. STypeOK
    <3>1. step \in {"idle", "locations", "stacks", "forwarded"} /\ lines \in Seq(Line)
      BY DEF STypes
    <3>2. \A k \in 1 .. Len(functions) :
             {functions[k].name, functions[k].file} \subseteq 0 .. Len(doc.strings) - 1
      <4> SUFFICES ASSUME NEW k \in 1 .. Len(functions)
                   PROVE  {functions[k].name, functions[k].file} \subseteq 0 .. Len(doc.strings) - 1
        OBVIOUS
      <4>1. /\ functions \in Seq(AFunction) /\ Len(doc.strings) \in Nat
            /\ functions[k].name < Len(doc.strings) /\ functions[k].file < Len(doc.strings)
        BY <2>1 DEF Enriched, FunctionsOk
      <4>2. functions[k] \in AFunction
        BY <4>1
      <4>3. functions[k].name \in Nat /\ functions[k].file \in Nat
        BY <4>2 DEF AFunction
      <4> QED BY <4>1, <4>3
    <3>3. ASSUME NEW k \in 1 .. Len(lines)
          PROVE  lines[k] = NoLine \/ lines[k].function \in 0 .. Len(functions) - 1
      <4>1. LookedUp \in Nat /\ Len(lines) \in Nat
        BY <2>1, ExportedTables DEF LookedUp, STypes, Enriched
      <4>2. k \in 1 .. LookedUp \/ k \in LookedUp + 1 .. Len(lines)
        BY <4>1
      <4> QED BY <2>1, <4>2 DEF Symbolized, Named, Leads
    <3> QED BY <3>1, <3>2, <3>3 DEF STypeOK
  <2>3. ASSUME step = "forwarded", NEW k \in 1 .. Len(doc.locations)
        PROVE  Named(doc.strings, functions, lines[k], FunctionOf[doc.locations[k]])
    <3>1. LookedUp = Len(doc.locations)
      BY <2>3 DEF LookedUp
    <3> QED BY <2>1, <3>1 DEF Symbolized
  <2> QED BY <2>2, <2>3 DEF LocationsAreNamed, Named, Leads, Nameless
<1> QED BY <1>1, <1>2

\* The first frame that is not the sampler's is where the application's part of
\* a stack begins.
LEMMA ApplicationPart ==
    ASSUME NEW s \in AStack
    PROVE  /\ AllSampler(s.pcs) <=> Application(s) = <<>>
           /\ \A m \in 1 .. Len(s.pcs) :
                /\ ~IsSampler(s.pcs[m])
                /\ \A n \in 1 .. Len(s.pcs) : ~IsSampler(s.pcs[n]) => m <= n
                => Application(s) = SubSeq(s.pcs, m, Len(s.pcs))
<1> DEFINE pcs == s.pcs
           first == {n \in 1 .. Len(pcs) : ~IsSampler(pcs[n])}
           least == CHOOSE n \in first : \A m \in first : n <= m
<1>1. pcs \in Seq(Nat) /\ Len(pcs) \in Nat
  BY DEF AStack
<1>2. Application(s) = IF first = {} THEN <<>> ELSE SubSeq(pcs, least, Len(pcs))
  BY DEF Application
<1>3. AllSampler(pcs) <=> first = {}
  BY DEF AllSampler
<1>4. ASSUME first # {} PROVE least \in first /\ \A m \in first : least <= m
  <2>1. first \subseteq Nat
    OBVIOUS
  <2> HIDE DEF first
  <2>2. \E n \in first : \A m \in first : n <= m
    BY <1>4, <2>1, LeastElement
  <2> QED BY <2>2
<1> HIDE DEF least
<1>5. ASSUME first # {} PROVE Application(s) # <<>>
  <2>1. least \in 1 .. Len(pcs)
    BY <1>4, <1>5
  <2>2. Len(SubSeq(pcs, least, Len(pcs))) = (Len(pcs) - least) + 1
    BY <1>1, <2>1
  <2>3. (Len(pcs) - least) + 1 # 0
    BY <1>1, <2>1
  <2>4. SubSeq(pcs, least, Len(pcs)) # <<>>
    BY <2>2, <2>3
  <2> QED BY <1>2, <1>5, <2>4
<1>6. ASSUME NEW m \in first, \A n \in first : m <= n
      PROVE  Application(s) = SubSeq(pcs, m, Len(pcs))
  <2>1. least \in first /\ least <= m /\ m <= least
    BY <1>4, <1>6
  <2>2. least = m
    BY <2>1
  <2> QED BY <1>2, <1>6, <2>2
<1> QED BY <1>2, <1>3, <1>5, <1>6

IsTail(x, q, m) ==
    /\ x \in Seq(Nat) /\ Len(x) = (Len(q) - m) + 1
    /\ \A n \in 1 .. (Len(q) - m) + 1 : x[n] = q[(m + n) - 1]

LEMMA TailOf ==
    ASSUME NEW q \in Seq(Nat), NEW m \in 1 .. Len(q)
    PROVE  IsTail(SubSeq(q, m, Len(q)), q, m)
<1>1. SubSeq(q, m, Len(q)) \in Seq(Nat) /\ Len(SubSeq(q, m, Len(q))) = (Len(q) - m) + 1
  OBVIOUS
<1>2. ASSUME NEW n \in 1 .. (Len(q) - m) + 1
      PROVE  SubSeq(q, m, Len(q))[n] = q[(m + n) - 1]
  OBVIOUS
<1> QED BY <1>1, <1>2 DEF IsTail

\* A sample whose stack was trimmed reads as the application's part.
LEMMA ForwardedStack ==
    ASSUME SInv, step = "forwarded", NEW k \in 1 .. Len(stacks), Application(stacks[k]) # <<>>
    PROVE  Read(doc, exported.samples[k], At(doc.stackTable, exported.samples[k].stack))
             = Labelled([stacks[k] EXCEPT !.pcs = Application(stacks[k])])
<1> USE DEF SInv
<1> DEFINE s == stacks[k]
           pcs == stacks[k].pcs
           idx == exported.stackTable[k]
           sample == exported.samples[k]
           app == Application(s)
           part == [s EXCEPT !.pcs = app]
<1>1. PInv /\ Enriched /\ Symbolized /\ LookedUp = Len(doc.locations) /\ TrimmedUpTo = Len(stacks)
  BY DEF Gone, LookedUp, TrimmedUpTo
<1>2. /\ sample.stack = k - 1 /\ sample.value = s.count /\ s \in AStack
      /\ idx \in Seq(Nat) /\ Len(idx) = Len(pcs)
      /\ \A m \in 1 .. Len(idx) : /\ idx[m] < Len(exported.locations)
                                  /\ At(exported.locations, idx[m]) = pcs[m]
      /\ HasLabels(exported.strings, exported.attributes, sample.attributes, s)
  BY <1>1, ExportedStack DEF Enriched
<1>3. pcs \in Seq(Nat) /\ Len(pcs) \in Nat
  BY <1>2 DEF AStack
<1>4. ~AllSampler(pcs)
  BY <1>2, ApplicationPart
<1>5. PICK m \in 1 .. Len(pcs) :
        /\ ~IsSampler(pcs[m]) /\ (\A n \in 1 .. Len(pcs) : ~IsSampler(pcs[n]) => m <= n)
        /\ Cut(idx) = m - 1
  BY <1>1, <1>4, Cutting
<1>6. app = SubSeq(pcs, m, Len(pcs))
  BY <1>2, <1>5, ApplicationPart
<1> HIDE DEF app
<1>7. doc.stackTable[k] = SubSeq(idx, m, Len(idx))
  <2>1. doc.stackTable[k] = Trimmed(idx)
    BY <1>1 DEF Enriched
  <2>2. Cut(idx) # Len(idx) /\ Cut(idx) + 1 = m
    BY <1>2, <1>3, <1>5
  <2> QED BY <2>1, <2>2 DEF Trimmed
<1> DEFINE stack == SubSeq(idx, m, Len(idx))
           count == (Len(pcs) - m) + 1
<1>8. /\ Len(stack) = count /\ \A n \in 1 .. count : stack[n] = idx[(m + n) - 1]
      /\ app \in Seq(Nat) /\ Len(app) = count /\ \A n \in 1 .. count : app[n] = pcs[(m + n) - 1]
      /\ count \in Nat
  <2>1. idx \in Seq(Nat) /\ m \in 1 .. Len(idx) /\ Len(idx) = Len(pcs)
    BY <1>2
  <2>2. IsTail(stack, idx, m) /\ IsTail(SubSeq(pcs, m, Len(pcs)), pcs, m)
    <3>1. IsTail(SubSeq(idx, m, Len(idx)), idx, m)
      <4> HIDE DEF idx
      <4> QED BY <2>1, TailOf
    <3>2. IsTail(SubSeq(pcs, m, Len(pcs)), pcs, m)
      <4> HIDE DEF pcs
      <4> QED BY <1>3, TailOf
    <3> QED BY <3>1, <3>2
  <2>3. count \in Nat
    BY <1>3
  <2> HIDE DEF stack
  <2>4. IsTail(stack, idx, m) /\ IsTail(app, pcs, m) /\ (Len(idx) - m) + 1 = (Len(pcs) - m) + 1
    BY <1>6, <2>1, <2>2
  <2> QED BY <2>3, <2>4 DEF IsTail, count
<1>9. \A n \in 1 .. count : (m + n) - 1 \in 1 .. Len(pcs)
  BY <1>3
<1>10. At(doc.stackTable, sample.stack) = stack
  <2>1. (k - 1) + 1 = k
    OBVIOUS
  <2>2. At(doc.stackTable, k - 1) = doc.stackTable[k]
    BY <2>1 DEF At
  <2> QED BY <1>2, <1>7, <2>2
<1> HIDE DEF stack, count
<1>11. part.count = s.count /\ part.name = s.name /\ part.span = s.span /\ part.pcs = app
  BY <1>2 DEF AStack
<1>12. HasLabels(doc.strings, doc.attributes, sample.attributes, part)
  <2> DEFINE str == exported.strings
             att == exported.attributes
             str2 == doc.strings
             att2 == doc.attributes
             idxs == sample.attributes
  <2>1. /\ Longer(str, str2) /\ att2 = att
        /\ Len(str) \in Nat /\ Len(str2) \in Nat
    BY <1>1, ExportedTables DEF Enriched, FunctionsOk
  <2>2. Len(att) \in Nat
    BY <1>1, ExportedTables DEF Enriched, PInv, ExportedIsDocument, Filled, TablesOk
  <2>3. Longer(att, att2) /\ Len(att2) \in Nat
    BY <2>1, <2>2 DEF Longer
  <2>4. HasLabels(str, att, idxs, s)
    BY <1>2
  <2> HIDE DEF str, att, str2, att2, idxs, s, part
  <2>5. HasLabels(str2, att2, idxs, s)
    BY <2>1, <2>2, <2>3, <2>4, LabelsStay
  <2>6. HasLabels(str2, att2, idxs, part)
    BY <1>11, <2>5 DEF HasLabels
  <2> QED BY <2>6 DEF str2, att2, idxs
<1>13. \A n \in 1 .. Len(stack) : At(doc.locations, stack[n]) = part.pcs[n]
  <2>1. doc.locations = exported.locations
    BY <1>1 DEF Enriched
  <2> HIDE DEF part, sample
  <2> SUFFICES ASSUME NEW n \in 1 .. count PROVE At(doc.locations, stack[n]) = app[n]
    BY <1>8, <1>11
  <2>2. At(exported.locations, idx[(m + n) - 1]) = pcs[(m + n) - 1]
    BY <1>2, <1>9
  <2> QED BY <1>8, <2>1, <2>2
<1> HIDE DEF part, sample, s
<1>14. Read(doc, sample, stack) = Labelled(part)
  <2>1. /\ sample.value = part.count /\ part.pcs \in Seq(Nat) /\ Len(stack) = Len(part.pcs)
    BY <1>2, <1>8, <1>11
  <2> QED BY <1>12, <1>13, <2>1, SampleRead
<1> QED BY <1>10, <1>14 DEF part, s, app, sample

LEMMA Forwarded == SInv => ForwardedProfileIsTheApplication
<1> SUFFICES ASSUME SInv, step = "forwarded" PROVE Decoded(doc) = Expected
  BY DEF ForwardedProfileIsTheApplication
<1> USE DEF SInv
<1> DEFINE K == {k \in 1 .. Len(stacks) : ~AllSampler(stacks[k].pcs)}
           pick(n) == CHOOSE k \in K : Cardinality({j \in K : j <= k}) = n
           interrupted == Kept(stacks, K)
           left == Cardinality(K)
<1>1. PInv /\ Enriched /\ doc.samples = Kept(exported.samples, K)
  BY DEF Gone
<1>2. Len(stacks) \in Nat /\ \A k \in 1 .. Len(stacks) : stacks[k] \in AStack
  BY <1>1, ExportedTables DEF Enriched
<1>3. left \in Nat
  <2>1. IsFiniteSet(1 .. Len(stacks)) /\ K \in SUBSET (1 .. Len(stacks))
    BY <1>2, FS_Interval
  <2> HIDE DEF K
  <2> QED BY <2>1, FS_Subset, FS_CardinalityType
<1>4. \A n \in 1 .. left : pick(n) \in K
  <2> SUFFICES ASSUME NEW n \in 1 .. left PROVE pick(n) \in K
    OBVIOUS
  <2>1. K \subseteq 1 .. Len(stacks)
    OBVIOUS
  <2> HIDE DEF K
  <2>2. \E k \in K : Cardinality({j \in K : j <= k}) = n
    <3> DEFINE N == Len(stacks)
    <3>1. N \in Nat /\ K \subseteq 1 .. N /\ n \in 1 .. Cardinality(K)
      BY <1>2, <2>1
    <3> HIDE DEF N
    <3>2. \E k \in K : Rank(K, k) = n
      BY <3>1, KeptPosition
    <3> QED BY <3>2 DEF Rank
  <2> QED BY <2>2
<1>5. {k \in 1 .. Len(stacks) : Application(stacks[k]) # <<>>} = K
  BY <1>2, ApplicationPart
<1>6. /\ doc.samples = [n \in 1 .. left |-> exported.samples[pick(n)]]
      /\ interrupted = [n \in 1 .. left |-> stacks[pick(n)]]
  BY <1>1 DEF Kept
<1>7. Len(doc.samples) = left /\ Len(interrupted) = left
  <2> HIDE DEF K, left, interrupted, pick
  <2>1. /\ Len([n \in 1 .. left |-> exported.samples[pick(n)]]) = left
        /\ Len([n \in 1 .. left |-> stacks[pick(n)]]) = left
    BY <1>3
  <2> QED BY <1>6, <2>1
<1> HIDE DEF left, interrupted, pick
<1>8. Expected = [n \in 1 .. left |->
                    Labelled([interrupted[n] EXCEPT !.pcs = Application(interrupted[n])])]
  BY <1>5, <1>7 DEF Expected, interrupted
<1>9. ASSUME NEW n \in 1 .. left
      PROVE  Read(doc, doc.samples[n], At(doc.stackTable, doc.samples[n].stack))
               = Labelled([interrupted[n] EXCEPT !.pcs = Application(interrupted[n])])
  <2> DEFINE k == pick(n)
  <2>1. k \in 1 .. Len(stacks) /\ Application(stacks[k]) # <<>>
    BY <1>4, <1>5
  <2>2. doc.samples[n] = exported.samples[k] /\ interrupted[n] = stacks[k]
    BY <1>6
  <2> HIDE DEF k
  <2>3. Read(doc, exported.samples[k], At(doc.stackTable, exported.samples[k].stack))
          = Labelled([stacks[k] EXCEPT !.pcs = Application(stacks[k])])
    BY <2>1, ForwardedStack
  <2> QED BY <2>2, <2>3
<1>10. Decoded(doc) = [n \in 1 .. left |->
                         Read(doc, doc.samples[n], At(doc.stackTable, doc.samples[n].stack))]
  BY <1>7 DEF Decoded, Read
<1> QED BY <1>8, <1>9, <1>10

\* A location's line leads to the name and the file addr2line gave for its own
\* address, also where functions share one of them.
THEOREM LocationsLeadToTheirFunction == SSpec => []LocationsAreNamed
<1>1. SInv => LocationsAreNamed
  BY Locations
<1> QED BY <1>1, SymbolizerInductive, PTL

\* Of the window's stacks, those with application code reach the collector, each
\* with its count and labels, and with exactly its application frames.
THEOREM ApplicationIsForwarded == SSpec => []ForwardedProfileIsTheApplication
<1>1. SInv => ForwardedProfileIsTheApplication
  BY Forwarded
<1> QED BY <1>1, SymbolizerInductive, PTL

-----------------------------------------------------------------------------
(* The caches *)

\* What the special values and the bounds are assumed to be.
LEMMA CacheConstants ==
    /\ {Absent, Partial, None, Unresolved} \cap Builds = {}
    /\ None \notin Nat \cup {Absent, Partial, Unresolved} /\ Absent # Partial
    /\ MaxWrites \in Nat /\ MaxFilings \in Nat /\ MaxRequests \in Nat
BY NoBuildsAssumption, SpecialsAssumption, BoundsAssumption

HandlerSteps  == {"idle", "find", "stat", "compare", "read", "remember", "lookup", "run", "cache",
                  "reply"}
Hashes == Builds \cup {Partial}

CacheTypes ==
    /\ content \in Contents
    /\ stamp \in 0 .. MaxWrites
    /\ archive \in [Builds -> Contents]
    /\ filings \in 0 .. MaxFilings
    /\ hash_cache.stamp \in Nat \cup {None}
    /\ hash_cache.digest \in Hashes \cup {None}
    /\ addr_cache \in [Builds -> [Addresses -> Names \cup {None}]]
    /\ handler \in [Handlers -> HandlerSteps]
    /\ build \in [Handlers -> Builds \cup {CHOOSE b \in Builds : TRUE}]
    /\ wanted \in [Handlers -> SUBSET Addresses]
    /\ st \in [Handlers -> Nat]
    /\ digest \in [Handlers -> Hashes \cup {None}]
    /\ override \in [Handlers -> BOOLEAN]
    /\ misses \in [Handlers -> SUBSET Addresses]
    /\ result \in [Handlers -> [Addresses -> Names \cup {None}]]
    /\ matchStamp \in [Handlers -> Nat]
    /\ replaced \subseteq Builds /\ misfiled \subseteq Builds

\* A cached hash is of what the file held when it had the cached stamp.
HashIsOfStamp ==
    /\ hash_cache.stamp # None => hash_cache.stamp <= stamp /\ hash_cache.digest # None
    /\ hash_cache.stamp = stamp => hash_cache.digest = content

\* What a handler found out of the file holds as long as the stamp it saw is the
\* file's.
Handling(h) ==
    /\ matchStamp[h] <= stamp
    /\ handler[h] = "idle" => \A a \in Addresses : result[h][a] = None
    /\ handler[h] # "idle" => build[h] \in Builds
    /\ handler[h] \in {"compare", "read", "remember"} => st[h] <= stamp
    /\ handler[h] = "compare" => matchStamp[h] = st[h]
    /\ handler[h] = "remember" =>
           /\ digest[h] \in Hashes
           /\ st[h] = stamp \/ matchStamp[h] = stamp => digest[h] = content
    /\ handler[h] \in {"lookup", "run"} /\ ~override[h] /\ matchStamp[h] = stamp =>
           content = build[h]

\* Another's file lay in the symbols directory only if that was noted.
FilesAreKnown == \A b \in Builds : archive[b] \in Builds \ {b} => b \in misfiled

\* The names of a build are its own, or a file of it was replaced or misfiled.
Owned(b, name) == name \in Builds \ {b} => b \in replaced \cup misfiled

NamesAreOwned ==
    /\ \A b \in Builds, a \in Addresses : Owned(b, addr_cache[b][a])
    /\ \A h \in Handlers : handler[h] # "idle" => \A a \in Addresses : Owned(build[h], result[h][a])

CacheInv ==
    CacheTypes /\ HashIsOfStamp /\ FilesAreKnown /\ (\A h \in Handlers : Handling(h)) /\ NamesAreOwned

-----------------------------------------------------------------------------
\* A handler that a step does not concern.
SameHandler(g) ==
    /\ handler'[g] = handler[g] /\ build'[g] = build[g] /\ st'[g] = st[g] /\ digest'[g] = digest[g]
    /\ override'[g] = override[g] /\ matchStamp'[g] = matchStamp[g] /\ result'[g] = result[g]

LEMMA OtherHandlersStay ==
    ASSUME CacheTypes, NEW g \in Handlers, SameHandler(g), Handling(g), UNCHANGED file
    PROVE  Handling(g)'
BY DEF SameHandler, Handling, file

LEMMA NamesStay ==
    ASSUME NEW b, NEW name, Owned(b, name), replaced \subseteq replaced',
           misfiled \subseteq misfiled'
    PROVE  Owned(b, name)'
BY DEF Owned

\* A step of one handler that leaves the files, the cached names and the
\* replaced builds alone.
LEMMA HandlerStepKeeps ==
    ASSUME CacheInv, NEW h \in Handlers, \A g \in Handlers \ {h} : SameHandler(g),
           UNCHANGED <<file, archive, addr_cache, replaced, misfiled>>, CacheTypes', HashIsOfStamp', Handling(h)',
           handler'[h] # "idle" => \A a \in Addresses : Owned(build'[h], result'[h][a])
    PROVE  CacheInv'
<1>1. \A g \in Handlers : Handling(g)'
  BY OtherHandlersStay DEF CacheInv
<1>2. NamesAreOwned'
  <2>1. \A b, name : Owned(b, name)' <=> Owned(b, name)
    BY DEF Owned
  <2>2. \A b \in Builds, a \in Addresses : Owned(b, addr_cache'[b][a])
    BY DEF CacheInv, NamesAreOwned
  <2>3. \A g \in Handlers : handler'[g] # "idle" => \A a \in Addresses : Owned(build'[g], result'[g][a])
    BY DEF CacheInv, NamesAreOwned, SameHandler
  <2> QED BY <2>1, <2>2, <2>3 DEF NamesAreOwned
<1>3. FilesAreKnown'
  BY DEF CacheInv, FilesAreKnown
<1> QED BY <1>1, <1>2, <1>3 DEF CacheInv

LEMMA InitCache == CacheInit => CacheInv
<1> SUFFICES ASSUME CacheInit PROVE CacheInv
  OBVIOUS
<1>1. CacheTypes
  BY CacheConstants DEF CacheInit, CacheTypes, HandlerSteps, Contents, Hashes, Names
<1>2. HashIsOfStamp
  BY CacheConstants DEF CacheInit, HashIsOfStamp
<1>3. \A h \in Handlers : Handling(h)
  BY DEF CacheInit, Handling
<1>4. NamesAreOwned
  BY CacheConstants DEF CacheInit, NamesAreOwned, Owned
<1>5. FilesAreKnown
  BY CacheConstants DEF CacheInit, FilesAreKnown
<1> QED BY <1>1, <1>2, <1>3, <1>4, <1>5 DEF CacheInv

\* The developer's build makes every stamp seen so far an old one.
LEMMA WriteFileKeeps == ASSUME CacheInv, NEW c \in Contents, WriteFile(c) PROVE CacheInv'
<1> USE DEF CacheInv, WriteFile
<1>1. CacheTypes'
  BY CacheConstants DEF CacheTypes, symbolsDir, caches, hist
<1>2. HashIsOfStamp'
  BY CacheConstants DEF CacheTypes, HashIsOfStamp, caches
<1>3. \A h \in Handlers : Handling(h)'
  BY DEF CacheTypes, Handling, hist
<1>4. NamesAreOwned'
  BY DEF NamesAreOwned, Owned, caches, hist
<1>5. FilesAreKnown'
  BY DEF FilesAreKnown, symbolsDir, hist
<1> QED BY <1>1, <1>2, <1>3, <1>4, <1>5

\* What is filed under a build's name is noted when it is another's.
LEMMA FileUnderKeeps ==
    ASSUME CacheInv, NEW b \in Builds, NEW c \in Contents, FileUnder(b, c) PROVE CacheInv'
<1> USE DEF CacheInv, FileUnder
<1>1. CacheTypes'
  <2>1. archive' \in [Builds -> Contents] /\ misfiled' \subseteq Builds
    BY DEF CacheTypes
  <2>2. filings' \in 0 .. MaxFilings
    BY CacheConstants DEF CacheTypes
  <2> QED BY <2>1, <2>2 DEF CacheTypes, file, caches
<1>2. HashIsOfStamp'
  BY DEF HashIsOfStamp, file, caches
<1>3. \A h \in Handlers : Handling(h)'
  BY DEF Handling, file
<1>4. NamesAreOwned'
  BY DEF NamesAreOwned, Owned, caches
<1>5. FilesAreKnown'
  BY DEF CacheTypes, FilesAreKnown
<1> QED BY <1>1, <1>2, <1>3, <1>4, <1>5

LEMMA ReceiveKeeps ==
    ASSUME CacheInv, NEW h \in Handlers, NEW b \in Builds,
           NEW addresses \in SUBSET Addresses, ReceiveProfile(h, b, addresses)
    PROVE  CacheInv'
<1> USE DEF CacheInv, ReceiveProfile, Goto
<1>1. CacheTypes'
  BY DEF CacheTypes, file, symbolsDir, caches, hist, HandlerSteps
<1>2. HashIsOfStamp' /\ UNCHANGED <<file, archive, addr_cache, replaced, misfiled>>
  BY DEF HashIsOfStamp, file, symbolsDir, caches, hist
<1>3. \A g \in Handlers \ {h} : SameHandler(g)
  BY DEF CacheTypes, SameHandler, hist
<1>4. Handling(h)'
  BY DEF CacheTypes, Handling, file, hist
<1>5. \A a \in Addresses : Owned(build'[h], result'[h][a])
  BY CacheConstants DEF Handling, Owned
<1> QED BY <1>1, <1>2, <1>3, <1>4, <1>5, HandlerStepKeeps

LEMMA FindKeeps == ASSUME CacheInv, NEW h \in Handlers, Find(h) PROVE CacheInv'
<1> USE DEF CacheInv, Find, Goto
<1>1. CacheTypes'
  BY DEF CacheTypes, file, symbolsDir, caches, hist, HandlerSteps
<1>2. HashIsOfStamp' /\ UNCHANGED <<file, archive, addr_cache, replaced, misfiled>>
  BY DEF HashIsOfStamp, file, symbolsDir, caches, hist
<1>3. \A g \in Handlers \ {h} : SameHandler(g)
  BY DEF CacheTypes, SameHandler, hist
<1>4. Handling(h)'
  BY DEF CacheTypes, Handling, file, hist
<1>5. \A a \in Addresses : Owned(build'[h], result'[h][a])
  BY DEF NamesAreOwned
<1> QED BY <1>1, <1>2, <1>3, <1>4, <1>5, HandlerStepKeeps

LEMMA StatKeeps == ASSUME CacheInv, NEW h \in Handlers, Stat(h) PROVE CacheInv'
<1> USE DEF CacheInv, Stat, Goto
<1>1. CacheTypes'
  BY DEF CacheTypes, file, symbolsDir, caches, HandlerSteps
<1>2. HashIsOfStamp' /\ UNCHANGED <<file, archive, addr_cache, replaced, misfiled>>
  BY DEF HashIsOfStamp, file, symbolsDir, caches
<1>3. \A g \in Handlers \ {h} : SameHandler(g)
  BY DEF CacheTypes, SameHandler
<1>4. Handling(h)'
  BY DEF CacheTypes, Handling, file
<1>5. \A a \in Addresses : Owned(build'[h], result'[h][a])
  BY DEF NamesAreOwned
<1> QED BY <1>1, <1>2, <1>3, <1>4, <1>5, HandlerStepKeeps

LEMMA CompareKeeps == ASSUME CacheInv, NEW h \in Handlers, Compare(h) PROVE CacheInv'
<1> USE DEF CacheInv
<1>0. /\ handler[h] = "compare"
      /\ UNCHANGED <<file, symbolsDir, caches, build, wanted, st, override, misses, result, requests, hist>>
      /\ \/ /\ hash_cache.stamp = st[h]
            /\ digest' = [digest EXCEPT ![h] = hash_cache.digest]
            /\ handler' = [handler EXCEPT ![h] = Matched(h, hash_cache.digest)]
         \/ handler' = [handler EXCEPT ![h] = "read"] /\ digest' = digest
  BY DEF Compare, Goto
<1>1. CacheTypes'
  <2>1. Matched(h, hash_cache.digest) \in HandlerSteps
    BY DEF Matched, HandlerSteps
  <2>2. handler' \in [Handlers -> HandlerSteps] /\ digest' \in [Handlers -> Hashes \cup {None}]
    BY <1>0, <2>1 DEF CacheTypes, HandlerSteps
  <2> QED BY <1>0, <2>2 DEF CacheTypes, file, symbolsDir, caches, hist
<1>2. HashIsOfStamp' /\ UNCHANGED <<file, archive, addr_cache, replaced, misfiled>>
  BY <1>0 DEF HashIsOfStamp, file, symbolsDir, caches, hist
<1>3. \A g \in Handlers \ {h} : SameHandler(g)
  BY <1>0 DEF CacheTypes, SameHandler, hist
<1>4. Handling(h)'
  BY <1>0 DEF CacheTypes, Handling, file, hist, Matched, HashIsOfStamp
<1>5. \A a \in Addresses : Owned(build'[h], result'[h][a])
  BY <1>0 DEF NamesAreOwned
<1> QED BY <1>1, <1>2, <1>3, <1>4, <1>5, HandlerStepKeeps

LEMMA ReadKeeps == ASSUME CacheInv, NEW h \in Handlers, ReadFile(h) PROVE CacheInv'
<1> USE DEF CacheInv
<1>0. /\ handler[h] = "read" /\ matchStamp' = [matchStamp EXCEPT ![h] = stamp]
      /\ UNCHANGED <<file, symbolsDir, caches, build, wanted, st, override, misses, result, requests,
                     replaced, misfiled>>
      /\ \/ handler' = [handler EXCEPT ![h] = "reply"] /\ digest' = digest
         \/ /\ content # Absent /\ handler' = [handler EXCEPT ![h] = "remember"]
            /\ digest' = [digest EXCEPT ![h] = content]
  BY DEF ReadFile, Goto
<1>1. CacheTypes'
  <2>1. content # Absent => content \in Hashes
    BY DEF CacheTypes, Contents, Hashes
  <2>4. handler' \in [Handlers -> HandlerSteps]
    BY <1>0 DEF CacheTypes, HandlerSteps
  <2>2. digest' \in [Handlers -> Hashes \cup {None}]
    BY <1>0, <2>1 DEF CacheTypes
  <2>3. matchStamp' \in [Handlers -> Nat]
    BY <1>0 DEF CacheTypes
  <2> QED BY <1>0, <2>2, <2>3, <2>4 DEF CacheTypes, file, symbolsDir, caches
<1>2. HashIsOfStamp' /\ UNCHANGED <<file, archive, addr_cache, replaced, misfiled>>
  BY <1>0 DEF HashIsOfStamp, file, symbolsDir, caches
<1>3. \A g \in Handlers \ {h} : SameHandler(g)
  BY <1>0 DEF CacheTypes, SameHandler
<1>4. Handling(h)'
  BY <1>0 DEF CacheTypes, Handling, file, Contents, Hashes
<1>5. \A a \in Addresses : Owned(build'[h], result'[h][a])
  BY <1>0 DEF NamesAreOwned
<1> QED BY <1>1, <1>2, <1>3, <1>4, <1>5, HandlerStepKeeps

LEMMA RememberKeeps == ASSUME CacheInv, NEW h \in Handlers, Remember(h) PROVE CacheInv'
<1> USE DEF CacheInv
<1>0. /\ handler[h] = "remember" /\ handler' = [handler EXCEPT ![h] = Matched(h, digest[h])]
      /\ hash_cache' = [stamp |-> st[h], digest |-> digest[h]]
      /\ UNCHANGED <<file, symbolsDir, addr_cache, build, wanted, st, digest, override, misses, result, requests, hist>>
  BY DEF Remember, Goto, StampOfHash
<1>1. /\ hash_cache'.stamp = st[h] /\ hash_cache'.digest = digest[h]
      /\ st[h] \in Nat /\ st[h] <= stamp /\ digest[h] \in Hashes
      /\ st[h] = stamp => digest[h] = content
  BY <1>0 DEF CacheTypes, Handling
<1>2. CacheTypes'
  <2>1. Matched(h, digest[h]) \in HandlerSteps
    BY DEF Matched, HandlerSteps
  <2>2. handler' \in [Handlers -> HandlerSteps]
    BY <1>0, <2>1 DEF CacheTypes
  <2> QED BY <1>0, <1>1, <2>2 DEF CacheTypes, file, symbolsDir, hist
<1>3. HashIsOfStamp'
  BY <1>0, <1>1, CacheConstants DEF HashIsOfStamp, file, Hashes
<1>4. UNCHANGED <<file, archive, addr_cache, replaced, misfiled>>
  BY <1>0 DEF symbolsDir, hist
<1>5. \A g \in Handlers \ {h} : SameHandler(g)
  BY <1>0 DEF CacheTypes, SameHandler, hist
<1>6. Handling(h)'
  BY <1>0, <1>1 DEF CacheTypes, Handling, file, hist, Matched
<1>7. \A a \in Addresses : Owned(build'[h], result'[h][a])
  BY <1>0 DEF NamesAreOwned
<1> QED BY <1>2, <1>3, <1>4, <1>5, <1>6, <1>7, HandlerStepKeeps

LEMMA LookupKeeps == ASSUME CacheInv, NEW h \in Handlers, Lookup(h) PROVE CacheInv'
<1> USE DEF CacheInv
<1>0. /\ handler[h] = "lookup"
      /\ \E s \in {"reply", "run"} : handler' = [handler EXCEPT ![h] = s]
      /\ misses' = [misses EXCEPT ![h] = {a \in wanted[h] : addr_cache[build[h]][a] = None}]
      /\ result' = [result EXCEPT ![h] =
            [a \in Addresses |-> IF a \in wanted[h] THEN addr_cache[build[h]][a] ELSE None]]
      /\ UNCHANGED <<file, symbolsDir, caches, build, wanted, st, digest, override, requests, hist>>
  BY DEF Lookup, Goto, Key
<1>1. build[h] \in Builds
  BY <1>0 DEF Handling
<1>2. CacheTypes'
  BY <1>0, <1>1 DEF CacheTypes, file, symbolsDir, caches, hist, HandlerSteps
<1>3. HashIsOfStamp' /\ UNCHANGED <<file, archive, addr_cache, replaced, misfiled>>
  BY <1>0 DEF HashIsOfStamp, file, symbolsDir, caches, hist
<1>4. \A g \in Handlers \ {h} : SameHandler(g)
  BY <1>0 DEF CacheTypes, SameHandler, hist
<1>5. Handling(h)'
  BY <1>0 DEF CacheTypes, Handling, file, hist
<1>6. \A a \in Addresses : Owned(build'[h], result'[h][a])
  BY <1>0, <1>1, CacheConstants DEF CacheTypes, NamesAreOwned, Owned
<1> QED BY <1>2, <1>3, <1>4, <1>5, <1>6, HandlerStepKeeps

\* The one step that finds names: they are another build's only where the file
\* is no longer the one that matched, or never was the build's.
LEMMA RunKeeps == ASSUME CacheInv, NEW h \in Handlers, Run(h) PROVE CacheInv'
<1> USE DEF CacheInv
<1>0. PICK name \in Resolutions(h) :
      /\ handler[h] = "run" /\ handler' = [handler EXCEPT ![h] = "cache"]
      /\ result' = [result EXCEPT ![h] =
            [a \in Addresses |-> IF a \in misses[h] THEN name ELSE result[h][a]]]
      /\ replaced' = IF ~override[h] /\ stamp # matchStamp[h]
                       THEN replaced \cup {build[h]} ELSE replaced
      /\ UNCHANGED <<file, symbolsDir, caches, build, wanted, st, digest, override, misses, requests,
                     matchStamp, misfiled>>
  BY DEF Run, Goto, CacheTypes
<1>1. build[h] \in Builds /\ Handling(h)
  BY <1>0 DEF Handling
<1>2. name \in Names /\ (name = Unresolved \/ name = Opened(h))
  BY DEF Resolutions, Names
<1>3. CacheTypes'
  BY <1>0, <1>1, <1>2 DEF CacheTypes, file, symbolsDir, caches, HandlerSteps
<1>4. HashIsOfStamp' /\ replaced \subseteq replaced' /\ misfiled' = misfiled /\ FilesAreKnown'
  BY <1>0 DEF HashIsOfStamp, FilesAreKnown, file, symbolsDir, caches
<1>5. \A g \in Handlers : Handling(g)'
  <2>1. \A g \in Handlers \ {h} : SameHandler(g)
    BY <1>0, <1>4 DEF CacheTypes, SameHandler
  <2>2. Handling(h)'
    BY <1>0, <1>1 DEF CacheTypes, Handling, file
  <2> QED BY <1>0, <2>1, <2>2, OtherHandlersStay
<1>6. Owned(build[h], name)'
  <2>1. CASE override[h]
    BY <1>0, <1>1, <1>2, <2>1, CacheConstants DEF Opened, FilesAreKnown, Owned
  <2>2. CASE ~override[h]
    BY <1>0, <1>1, <1>2, <2>2, CacheConstants DEF Opened, Handling, Owned
  <2> QED BY <2>1, <2>2
<1>7. NamesAreOwned'
  <2>1. \A b \in Builds, a \in Addresses : Owned(b, addr_cache[b][a])'
    BY <1>0, <1>4 DEF NamesAreOwned, Owned, caches
  <2>2. ASSUME NEW g \in Handlers, handler'[g] # "idle", NEW a \in Addresses
        PROVE  Owned(build[g], result[g][a])'
    <3>1. CASE g = h
      <4>1. result'[h][a] = name \/ result'[h][a] = result[h][a]
        BY <1>0 DEF CacheTypes
      <4> QED BY <1>0, <1>1, <1>4, <1>6, <3>1, <4>1 DEF NamesAreOwned, Owned
    <3>2. CASE g # h
      BY <1>0, <1>4, <2>2, <3>2 DEF CacheTypes, NamesAreOwned, Owned
    <3> QED BY <3>1, <3>2
  <2> QED BY <2>1, <2>2 DEF NamesAreOwned
<1> QED BY <1>3, <1>4, <1>5, <1>7

LEMMA CacheKeeps == ASSUME CacheInv, NEW h \in Handlers, Cache(h) PROVE CacheInv'
<1> USE DEF CacheInv
<1>0. /\ handler[h] = "cache" /\ handler' = [handler EXCEPT ![h] = "reply"]
      /\ addr_cache' = [addr_cache EXCEPT ![build[h]] =
            [a \in Addresses |-> IF a \in misses[h] THEN result[h][a] ELSE addr_cache[build[h]][a]]]
      /\ UNCHANGED <<file, symbolsDir, hash_cache, build, wanted, st, digest, override, misses, result, requests, hist>>
  BY DEF Cache, Goto, Key, CacheTypes, Handling
<1>1. build[h] \in Builds
  BY <1>0 DEF Handling
<1>2. CacheTypes'
  BY <1>0, <1>1 DEF CacheTypes, file, symbolsDir, hist, HandlerSteps
<1>3. HashIsOfStamp'
  BY <1>0 DEF HashIsOfStamp, file
<1>4. \A g \in Handlers : Handling(g)'
  BY <1>0 DEF CacheTypes, Handling, file, hist
<1>5. NamesAreOwned'
  BY <1>0, <1>1 DEF CacheTypes, NamesAreOwned, Owned, hist
<1>6. FilesAreKnown'
  BY <1>0 DEF FilesAreKnown, symbolsDir, hist
<1> QED BY <1>2, <1>3, <1>4, <1>5, <1>6

LEMMA ReplyKeeps == ASSUME CacheInv, NEW h \in Handlers, Reply(h) PROVE CacheInv'
<1> USE DEF CacheInv, Reply, Goto
<1>1. CacheTypes'
  BY DEF CacheTypes, file, symbolsDir, caches, hist, HandlerSteps
<1>2. HashIsOfStamp' /\ UNCHANGED <<file, archive, addr_cache, replaced, misfiled>>
  BY DEF HashIsOfStamp, file, symbolsDir, caches, hist
<1>3. \A g \in Handlers \ {h} : SameHandler(g)
  BY DEF CacheTypes, SameHandler, hist
<1>4. Handling(h)' /\ handler'[h] = "idle"
  BY DEF CacheTypes, Handling, file, hist
<1> QED BY <1>1, <1>2, <1>3, <1>4, HandlerStepKeeps

LEMMA NextCache == CacheInv /\ [CacheNext]_cacheVars => CacheInv'
<1> SUFFICES ASSUME CacheInv, [CacheNext]_cacheVars PROVE CacheInv'
  OBVIOUS
<1>1. ASSUME NEW c \in Contents, WriteFile(c) PROVE CacheInv'
  BY <1>1, WriteFileKeeps
<1>6. ASSUME NEW b \in Builds, NEW c \in Contents, FileUnder(b, c) PROVE CacheInv'
  BY <1>6, FileUnderKeeps
<1>2. ASSUME NEW h \in Handlers, NEW b \in Builds, NEW addresses \in (SUBSET Addresses) \ {{}},
             ReceiveProfile(h, b, addresses)
      PROVE  CacheInv'
  BY <1>2, ReceiveKeeps
<1>3. ASSUME NEW h \in Handlers, Find(h) \/ Stat(h) \/ Compare(h) \/ ReadFile(h) \/ Remember(h)
      PROVE  CacheInv'
  BY <1>3, FindKeeps, StatKeeps, CompareKeeps, ReadKeeps, RememberKeeps
<1>4. ASSUME NEW h \in Handlers, Lookup(h) \/ Run(h) \/ Cache(h) \/ Reply(h) PROVE CacheInv'
  BY <1>4, LookupKeeps, RunKeeps, CacheKeeps, ReplyKeeps
<1>5. CASE UNCHANGED cacheVars
  BY <1>5 DEF cacheVars, file, symbolsDir, caches, hist, CacheInv, CacheTypes, HashIsOfStamp, Handling,
              FilesAreKnown, NamesAreOwned, Owned
<1> QED BY <1>1, <1>2, <1>3, <1>4, <1>5, <1>6 DEF CacheNext

\* A handler works between other handlers' steps and the build's writes; what
\* it holds stays what it read, and the caches stay what some handler held.
THEOREM CacheInductive == CacheSpec => []CacheInv
<1>1. CacheInit => CacheInv
  BY InitCache
<1>2. CacheInv /\ [CacheNext]_cacheVars => CacheInv'
  BY NextCache
<1> QED BY <1>1, <1>2, PTL DEF CacheSpec

\* A hash is cached with the stamp the file had before it was read, so that a
\* file written meanwhile is hashed again.
THEOREM HashesAreCurrent == CacheSpec => []CachedHashIsCurrent
<1>1. CacheInv => CachedHashIsCurrent
  BY DEF CacheInv, CacheTypes, HashIsOfStamp, CachedHashIsCurrent, CacheTypeOK, Hashes, HandlerSteps
<1> QED BY <1>1, CacheInductive, PTL

\* Names are cached by build id and address: a profile gets those of another
\* build only where its own file matched and was replaced before addr2line ran,
\* or another's was filed under its name, however often addr2line fails.
THEOREM NamesAreForeignOnlyAfterReplacement ==
    CacheSpec => []ForeignNamesOnlyAfterReplacement
<1>1. CacheInv => ForeignNamesOnlyAfterReplacement
  BY DEF CacheInv, NamesAreOwned, Owned, ForeignNamesOnlyAfterReplacement
<1> QED BY <1>1, CacheInductive, PTL

-----------------------------------------------------------------------------
(* Utf8: least and greatest lengths *)

\* A character has at most four bytes, and no more than there are.
LEMMA MinOfFour ==
    ASSUME NEW k \in Nat
    PROVE  /\ Min({4, k}) \in {4, k}
           /\ Min({4, k}) <= 4 /\ Min({4, k}) <= k /\ Min({4, k}) \in Nat
<1>1. \E x \in {4, k} : \A y \in {4, k} : x <= y
  <2>1. CASE 4 <= k
    BY <2>1
  <2>2. CASE ~ (4 <= k)
    BY <2>2
  <2> QED BY <2>1, <2>2
<1> DEFINE x == CHOOSE x \in {4, k} : \A y \in {4, k} : x <= y
<1>2. x \in {4, k} /\ \A y \in {4, k} : x <= y
  BY <1>1
<1>3. Min({4, k}) = x
  BY DEF Min
<1> HIDE DEF x
<1> QED BY <1>2, <1>3

\* The least and the greatest of the positions up to N.
LEMMA LeastPosition ==
    ASSUME NEW T, T \subseteq Nat, T # {}
    PROVE  Min(T) \in T /\ \A n \in T : Min(T) <= n
<1>1. \E m \in T : \A n \in T : m <= n
  BY LeastElement
<1> DEFINE m == CHOOSE m \in T : \A n \in T : m <= n
<1>2. m \in T /\ \A n \in T : m <= n
  BY <1>1
<1>3. Min(T) = m
  BY DEF Min
<1> HIDE DEF m
<1> QED BY <1>2, <1>3

LEMMA GreatestPosition ==
    ASSUME NEW N \in Nat, NEW T, T \subseteq 0 .. N, T # {}
    PROVE  Max(T) \in T /\ \A n \in T : n <= Max(T)
<1> DEFINE D == {N - n : n \in T}
<1>1. D \subseteq Nat /\ D # {}
  <2>1. \A n \in T : N - n \in Nat
    OBVIOUS
  <2>2. PICK n \in T : TRUE
    OBVIOUS
  <2>3. N - n \in D
    BY <2>2
  <2> QED BY <2>1, <2>3
<1>2. PICK far \in D : \A o \in D : far <= o
  <2> HIDE DEF D
  <2> QED BY <1>1, LeastElement
<1>3. PICK g \in T : far = N - g
  OBVIOUS
<1>4. ASSUME NEW n \in T PROVE n <= g
  <2>1. far <= N - n
    BY <1>2
  <2> QED BY <1>3, <2>1
<1> DEFINE x == CHOOSE x \in T : \A y \in T : x >= y
<1>5. \A n \in T : g >= n
  BY <1>4
<1>6. x \in T /\ \A y \in T : x >= y
  BY <1>5
<1>7. Max(T) = x
  BY DEF Max
<1> HIDE DEF x
<1>8. \A y \in T : y <= x
  BY <1>6
<1> QED BY <1>6, <1>7, <1>8

-----------------------------------------------------------------------------
(* Utf8: texts made of whole characters.  The beginnings of a text that are
   whole are told by induction on their length: the shortest one that is not
   as claimed leads to a shorter one. *)

\* The character that ends at k, after a beginning that is made of characters.
EndsChar(s, f, k) ==
    \E n \in 1 .. Min({4, k}) : IsChar(SubSeq(s, k - n + 1, k)) /\ f[k - n]

IsWhole(s, f, m) ==
    f = [k \in 0 .. m |-> k = 0 \/ EndsChar(s, f, k)]

\* The recursive definition of WholeUpTo defines a function.
LEMMA WholeExists ==
    ASSUME NEW s, NEW m \in Nat
    PROVE  \E f : IsWhole(s, f, m)
<1> DEFINE T == {n \in 0 .. m : ~ \E f : IsWhole(s, f, n)}
<1>1. SUFFICES ASSUME T # {} PROVE FALSE
  OBVIOUS
<1>2. T \subseteq Nat
  OBVIOUS
<1>3. PICK n \in T : \A o \in T : n <= o
  BY <1>1, <1>2, LeastElement
<1>4. n \in Nat /\ ~ \E f : IsWhole(s, f, n)
  BY <1>2
<1>5. CASE n = 0
  <2> DEFINE f == [k \in 0 .. 0 |-> TRUE]
  <2>1. f = [k \in 0 .. 0 |-> k = 0 \/ EndsChar(s, f, k)]
    <3>1. ASSUME NEW k \in 0 .. 0, NEW e PROVE (k = 0 \/ e) = TRUE
      <4>1. k = 0
        OBVIOUS
      <4> QED BY <4>1, Zenon
    <3>2. \A k \in 0 .. 0 : (k = 0 \/ EndsChar(s, f, k)) = TRUE
      BY <3>1, Zenon
    <3> QED BY <3>2
  <2> QED BY <1>4, <1>5, <2>1 DEF IsWhole
<1>6. CASE n # 0
  <2>1. n - 1 \in 0 .. m /\ n - 1 \notin T
    BY <1>3, <1>4, <1>6
  <2>2. PICK g : IsWhole(s, g, n - 1)
    BY <2>1
  <2> DEFINE f == [k \in 0 .. n |-> IF k < n THEN g[k] ELSE EndsChar(s, g, k)]
  <2>3. ASSUME NEW k \in 0 .. n PROVE EndsChar(s, f, k) = EndsChar(s, g, k)
    <3>1. \A p \in 1 .. Min({4, k}) : k - p \in 0 .. n /\ k - p < n
      BY <1>4, MinOfFour
    <3>2. \A p \in 1 .. Min({4, k}) : f[k - p] = g[k - p]
      BY <3>1
    <3> HIDE DEF f
    <3> QED BY <3>2 DEF EndsChar
  <2>4. ASSUME NEW k \in 0 .. n PROVE f[k] = (k = 0 \/ EndsChar(s, f, k))
    <3>1. CASE k < n
      <4>1. k \in 0 .. n - 1
        BY <1>4, <3>1
      <4>2. g[k] = (k = 0 \/ EndsChar(s, g, k))
        BY <2>2, <4>1 DEF IsWhole
      <4>3. f[k] = g[k]
        BY <3>1
      <4> HIDE DEF f
      <4> QED BY <2>3, <4>2, <4>3
    <3>2. CASE ~ (k < n)
      <4>1. k # 0
        BY <1>4, <1>6, <3>2
      <4>2. f[k] = EndsChar(s, g, k)
        BY <3>2
      <4> HIDE DEF f
      <4>3. EndsChar(s, g, k) = (k = 0 \/ EndsChar(s, f, k))
        <5>1. EndsChar(s, g, k) <=> EndsChar(s, f, k)
          BY <2>3
        <5> QED BY <4>1, <5>1 DEF EndsChar
      <4> QED BY <4>2, <4>3
    <3> QED BY <3>1, <3>2
  <2>5. f = [k \in 0 .. n |-> f[k]]
    OBVIOUS
  <2> HIDE DEF f
  <2>6. f = [k \in 0 .. n |-> k = 0 \/ EndsChar(s, f, k)]
    BY <2>4, <2>5
  <2> QED BY <1>4, <2>6 DEF IsWhole
<1> QED BY <1>5, <1>6

LEMMA WholeUpToIs ==
    ASSUME NEW s, Len(s) \in Nat
    PROVE  IsWhole(s, WholeUpTo(s), Len(s))
<1>1. WholeUpTo(s) = CHOOSE f : IsWhole(s, f, Len(s))
  BY DEF WholeUpTo, IsWhole, EndsChar
<1> QED BY <1>1, WholeExists

\* What follows a text does not change which of its beginnings are whole.
LEMMA WholeStays ==
    ASSUME NEW S, NEW s \in Seq(S), NEW c \in Seq(S), NEW k \in 0 .. Len(s)
    PROVE  WholeUpTo(s \o c)[k] <=> WholeUpTo(s)[k]
<1> DEFINE v == s \o c
           f == WholeUpTo(s)
           g == WholeUpTo(v)
           T == {n \in 0 .. Len(s) : ~ (g[n] <=> f[n])}
<1>1. /\ v \in Seq(S) /\ Len(v) = Len(s) + Len(c) /\ Len(s) \in Nat /\ Len(c) \in Nat
      /\ \A n \in 1 .. Len(s) : v[n] = s[n]
  OBVIOUS
<1> HIDE DEF v
<1>2. IsWhole(s, f, Len(s)) /\ IsWhole(v, g, Len(v))
  BY <1>1, WholeUpToIs
<1> HIDE DEF f, g
<1>3. SUFFICES ASSUME T # {} PROVE FALSE
  BY DEF f, g, v
<1>4. T \subseteq Nat
  BY <1>1
<1>5. PICK n \in T : \A o \in T : n <= o
  <2> HIDE DEF T
  <2> QED BY <1>3, <1>4, LeastElement
<1>6. n \in 0 .. Len(s) /\ n \in 0 .. Len(v) /\ n \in Nat /\ ~ (g[n] <=> f[n])
  BY <1>1
<1>7. /\ f[n] <=> n = 0 \/ EndsChar(s, f, n)
      /\ g[n] <=> n = 0 \/ EndsChar(v, g, n)
  BY <1>2, <1>6 DEF IsWhole
<1>8. ASSUME NEW p \in 1 .. Min({4, n})
      PROVE  (g[n - p] <=> f[n - p]) /\ SubSeq(v, n - p + 1, n) = SubSeq(s, n - p + 1, n)
  <2>1. n - p \in 0 .. Len(s) /\ ~ (n <= n - p) /\ n - p < n /\ n - p \in Nat
    BY <1>6, MinOfFour
  <2>2. n - p \notin T
    <3> HIDE DEF T
    <3> QED BY <1>5, <2>1
  <2>3. SubSeq(v, n - p + 1, n) = SubSeq(s, n - p + 1, n)
    BY <1>1, <1>6, <2>1
  <2> QED BY <2>1, <2>2, <2>3
<1>9. EndsChar(v, g, n) <=> EndsChar(s, f, n)
  BY <1>8 DEF EndsChar
<1> QED BY <1>6, <1>7, <1>9

\* Nothing is UTF-8, and a character after UTF-8 is UTF-8.
LEMMA NothingIsUtf8 == IsUtf8(<<>>)
<1>1. IsWhole(<<>>, WholeUpTo(<<>>), Len(<<>>)) /\ Len(<<>>) = 0
  BY WholeUpToIs
<1> QED BY <1>1 DEF IsWhole, IsUtf8

LEMMA CharAppended ==
    ASSUME NEW S, NEW s \in Seq(S), NEW c \in Seq(S), IsUtf8(s), IsChar(c), Len(c) \in 1 .. 4
    PROVE  IsUtf8(s \o c)
<1> DEFINE v == s \o c
           g == WholeUpTo(v)
           n == Len(c)
<1>1. /\ v \in Seq(S) /\ Len(v) = Len(s) + n /\ Len(s) \in Nat /\ n \in 1 .. 4
      /\ SubSeq(v, Len(s) + 1, Len(v)) = c
  OBVIOUS
<1>2. g[Len(s)]
  BY <1>1, WholeStays DEF IsUtf8
<1> HIDE DEF v, n
<1>3. IsWhole(v, g, Len(v))
  BY <1>1, WholeUpToIs
<1> HIDE DEF g
<1>4. /\ Len(v) \in Nat /\ Len(v) - n = Len(s) /\ Len(v) - n + 1 = Len(s) + 1
      /\ n \in 1 .. Min({4, Len(v)})
  BY <1>1, MinOfFour
<1>5. EndsChar(v, g, Len(v))
  BY <1>1, <1>2, <1>4 DEF EndsChar
<1>6. g[Len(v)]
  <2>1. Len(v) \in 0 .. Len(v)
    BY <1>4
  <2> HIDE DEF v
  <2>2. \A k \in 0 .. Len(v) : g[k] <=> k = 0 \/ EndsChar(v, g, k)
    BY <1>3 DEF IsWhole
  <2> QED BY <1>5, <2>1, <2>2, Zenon
<1> QED BY <1>6 DEF IsUtf8, g, v

-----------------------------------------------------------------------------
(* Utf8: the rows of the table, as utf8_lead() reads them *)

\* The bytes lead's sequence allows after m bytes.
Following(lead, m) == IF m = 1 THEN lead.min .. lead.max ELSE 128 .. 191

\* A row of the table that a lead byte reads as lead.
RowOf(row, lead) ==
    /\ Len(row) = lead.length
    /\ \A m \in 1 .. lead.length - 1 : row[m + 1] = Following(lead, m)

LEMMA RowsAreShort ==
    ASSUME NEW row \in Table
    PROVE  Len(row) \in 1 .. 4
BY DEF Table

LEMMA LeadValues ==
    ASSUME NEW b \in 0 .. 255
    PROVE  utf8_lead(b).length \in 0 .. 4
BY DEF utf8_lead, NoLead

\* utf8_lead() reads off the row a byte can start, ...
LEMMA LeadOfRow ==
    ASSUME NEW b \in 0 .. 255, NEW row \in Table, b \in row[1]
    PROVE  RowOf(row, utf8_lead(b))
<1>1. CASE row = <<0 .. 127>>
  <2>1. utf8_lead(b) = [length |-> 1, min |-> 0, max |-> 0]
    BY <1>1 DEF utf8_lead
  <2> QED BY <1>1, <2>1 DEF RowOf
<1>2. CASE row = <<194 .. 223, Tail80>>
  <2>1. utf8_lead(b) = [length |-> 2, min |-> 128, max |-> 191]
    BY <1>2 DEF utf8_lead
  <2>2. Len(row) = 2 /\ \A m \in 1 .. 1 : row[m + 1] = IF m = 1 THEN row[2] ELSE 128 .. 191
    BY <1>2 DEF Tail80
  <2>3. row[2] = utf8_lead(b).min .. utf8_lead(b).max
    BY <1>2, <2>1 DEF Tail80
  <2> QED BY <2>1, <2>2, <2>3 DEF RowOf, Following
<1>3. CASE row = <<{224}, 160 .. 191, Tail80>>
  <2>1. utf8_lead(b) = [length |-> 3, min |-> 160, max |-> 191]
    BY <1>3 DEF utf8_lead
  <2>2. Len(row) = 3 /\ \A m \in 1 .. 2 : row[m + 1] = IF m = 1 THEN row[2] ELSE 128 .. 191
    BY <1>3 DEF Tail80
  <2>3. row[2] = utf8_lead(b).min .. utf8_lead(b).max
    BY <1>3, <2>1 DEF Tail80
  <2> QED BY <2>1, <2>2, <2>3 DEF RowOf, Following
<1>4. CASE row = <<225 .. 236, Tail80, Tail80>>
  <2>1. utf8_lead(b) = [length |-> 3, min |-> 128, max |-> 191]
    BY <1>4 DEF utf8_lead
  <2>2. Len(row) = 3 /\ \A m \in 1 .. 2 : row[m + 1] = IF m = 1 THEN row[2] ELSE 128 .. 191
    BY <1>4 DEF Tail80
  <2>3. row[2] = utf8_lead(b).min .. utf8_lead(b).max
    BY <1>4, <2>1 DEF Tail80
  <2> QED BY <2>1, <2>2, <2>3 DEF RowOf, Following
<1>5. CASE row = <<{237}, 128 .. 159, Tail80>>
  <2>1. utf8_lead(b) = [length |-> 3, min |-> 128, max |-> 159]
    BY <1>5 DEF utf8_lead
  <2>2. Len(row) = 3 /\ \A m \in 1 .. 2 : row[m + 1] = IF m = 1 THEN row[2] ELSE 128 .. 191
    BY <1>5 DEF Tail80
  <2>3. row[2] = utf8_lead(b).min .. utf8_lead(b).max
    BY <1>5, <2>1 DEF Tail80
  <2> QED BY <2>1, <2>2, <2>3 DEF RowOf, Following
<1>6. CASE row = <<238 .. 239, Tail80, Tail80>>
  <2>1. utf8_lead(b) = [length |-> 3, min |-> 128, max |-> 191]
    BY <1>6 DEF utf8_lead
  <2>2. Len(row) = 3 /\ \A m \in 1 .. 2 : row[m + 1] = IF m = 1 THEN row[2] ELSE 128 .. 191
    BY <1>6 DEF Tail80
  <2>3. row[2] = utf8_lead(b).min .. utf8_lead(b).max
    BY <1>6, <2>1 DEF Tail80
  <2> QED BY <2>1, <2>2, <2>3 DEF RowOf, Following
<1>7. CASE row = <<{240}, 144 .. 191, Tail80, Tail80>>
  <2>1. utf8_lead(b) = [length |-> 4, min |-> 144, max |-> 191]
    BY <1>7 DEF utf8_lead
  <2>2. Len(row) = 4 /\ \A m \in 1 .. 3 : row[m + 1] = IF m = 1 THEN row[2] ELSE 128 .. 191
    BY <1>7 DEF Tail80
  <2>3. row[2] = utf8_lead(b).min .. utf8_lead(b).max
    BY <1>7, <2>1 DEF Tail80
  <2> QED BY <2>1, <2>2, <2>3 DEF RowOf, Following
<1>8. CASE row = <<241 .. 243, Tail80, Tail80, Tail80>>
  <2>1. utf8_lead(b) = [length |-> 4, min |-> 128, max |-> 191]
    BY <1>8 DEF utf8_lead
  <2>2. Len(row) = 4 /\ \A m \in 1 .. 3 : row[m + 1] = IF m = 1 THEN row[2] ELSE 128 .. 191
    BY <1>8 DEF Tail80
  <2>3. row[2] = utf8_lead(b).min .. utf8_lead(b).max
    BY <1>8, <2>1 DEF Tail80
  <2> QED BY <2>1, <2>2, <2>3 DEF RowOf, Following
<1>9. CASE row = <<{244}, 128 .. 143, Tail80, Tail80>>
  <2>1. utf8_lead(b) = [length |-> 4, min |-> 128, max |-> 143]
    BY <1>9 DEF utf8_lead
  <2>2. Len(row) = 4 /\ \A m \in 1 .. 3 : row[m + 1] = IF m = 1 THEN row[2] ELSE 128 .. 191
    BY <1>9 DEF Tail80
  <2>3. row[2] = utf8_lead(b).min .. utf8_lead(b).max
    BY <1>9, <2>1 DEF Tail80
  <2> QED BY <2>1, <2>2, <2>3 DEF RowOf, Following
<1> QED BY <1>1, <1>2, <1>3, <1>4, <1>5, <1>6, <1>7, <1>8, <1>9 DEF Table

\* ... and gives a length to no other byte.
LEMMA RowOfLead ==
    ASSUME NEW b \in 0 .. 255, utf8_lead(b).length > 0
    PROVE  \E row \in Table : b \in row[1]
<1>1. \/ b \in 0 .. 127 \/ b \in 194 .. 223 \/ b = 224 \/ b \in 225 .. 236 \/ b = 237
      \/ b \in 238 .. 239 \/ b = 240 \/ b \in 241 .. 243 \/ b = 244
  <2>1. SUFFICES ASSUME ~ (b \in 0 .. 127), ~ (b \in 194 .. 223), b # 224, ~ (b \in 225 .. 236),
                        b # 237, ~ (b \in 238 .. 239), b # 240, ~ (b \in 241 .. 243), b # 244
                 PROVE  FALSE
    OBVIOUS
  <2>2. utf8_lead(b) = NoLead
    BY <2>1 DEF utf8_lead
  <2> QED BY <2>2 DEF NoLead
<1> QED BY <1>1 DEF Table

LEMMA FirstOf ==
    ASSUME NEW S, NEW s \in Seq(S), Len(s) >= 1
    PROVE  Len(s) \in Nat /\ s[1] \in S
OBVIOUS

\* To match a row is to start with its lead byte and go on as it says.
LEMMA RowMatches ==
    ASSUME NEW s \in Seq(0 .. 255), Len(s) >= 1, NEW row \in Table
    PROVE  Matches(s, row) <=> /\ s[1] \in row[1] /\ Len(s) <= utf8_lead(s[1]).length
                               /\ \A m \in 1 .. Len(s) - 1 : s[m + 1] \in Following(utf8_lead(s[1]), m)
<1> DEFINE L == utf8_lead(s[1])
<1>1. Len(s) \in Nat /\ Len(s) >= 1 /\ s[1] \in 0 .. 255
  BY FirstOf
<1>2. Len(row) \in 1 .. 4
  BY RowsAreShort
<1>3. ASSUME s[1] \in row[1] PROVE RowOf(row, L)
  BY <1>1, <1>3, LeadOfRow
<1> HIDE DEF L
<1>4. ASSUME Matches(s, row)
      PROVE  /\ s[1] \in row[1] /\ Len(s) <= L.length
             /\ \A m \in 1 .. Len(s) - 1 : s[m + 1] \in Following(L, m)
  <2>1. s[1] \in row[1] /\ Len(s) <= Len(row)
    BY <1>1, <1>4 DEF Matches
  <2>2. Len(row) = L.length /\ \A m \in 1 .. L.length - 1 : row[m + 1] = Following(L, m)
    BY <1>3, <2>1 DEF RowOf
  <2>3. ASSUME NEW m \in 1 .. Len(s) - 1 PROVE s[m + 1] \in Following(L, m)
    <3>1. m + 1 \in 1 .. Len(s) /\ m \in 1 .. L.length - 1
      BY <1>1, <1>2, <2>1, <2>2
    <3>2. s[m + 1] \in row[m + 1]
      BY <1>4, <3>1 DEF Matches
    <3> QED BY <2>2, <3>1, <3>2
  <2> QED BY <2>1, <2>2, <2>3
<1>5. ASSUME s[1] \in row[1], Len(s) <= L.length,
             \A m \in 1 .. Len(s) - 1 : s[m + 1] \in Following(L, m)
      PROVE  Matches(s, row)
  <2>1. Len(row) = L.length /\ \A m \in 1 .. L.length - 1 : row[m + 1] = Following(L, m)
    BY <1>3, <1>5 DEF RowOf
  <2>2. ASSUME NEW k \in 1 .. Len(s) PROVE s[k] \in row[k]
    <3>1. CASE k = 1
      BY <1>5, <3>1
    <3>2. CASE k # 1
      <4>1. k - 1 \in 1 .. Len(s) - 1 /\ k - 1 \in 1 .. L.length - 1 /\ (k - 1) + 1 = k
        BY <1>1, <1>2, <1>5, <2>1, <3>2
      <4>2. s[(k - 1) + 1] \in Following(L, k - 1) /\ row[(k - 1) + 1] = Following(L, k - 1)
        BY <1>5, <2>1, <4>1
      <4> QED BY <4>1, <4>2
    <3> QED BY <3>1, <3>2
  <2> QED BY <1>5, <2>1, <2>2 DEF Matches
<1> QED BY <1>4, <1>5 DEF L

\* The bytes of s may follow its first one.
Follows(s) == \A m \in 1 .. Len(s) - 1 : s[m + 1] \in Following(utf8_lead(s[1]), m)

\* Characters and their beginnings, by the lead byte alone.
LEMMA CharsAndStarts ==
    ASSUME NEW s \in Seq(0 .. 255), Len(s) >= 1
    PROVE  /\ IsChar(s) <=> Len(s) = utf8_lead(s[1]).length /\ Follows(s)
           /\ IsStart(s) <=> Len(s) < utf8_lead(s[1]).length /\ Follows(s)
<1> DEFINE L == utf8_lead(s[1])
<1>1. Len(s) \in Nat /\ Len(s) >= 1 /\ s[1] \in 0 .. 255
  BY FirstOf
<1>2. L.length \in 0 .. 4
  BY <1>1, LeadValues
<1>3. ASSUME NEW row \in Table
      PROVE  /\ Matches(s, row) <=> s[1] \in row[1] /\ Len(s) <= L.length /\ Follows(s)
             /\ s[1] \in row[1] => Len(row) = L.length
  BY <1>1, RowMatches, LeadOfRow DEF Follows, RowOf
<1>4. ASSUME L.length > 0 PROVE \E row \in Table : s[1] \in row[1]
  BY <1>1, <1>4, RowOfLead
<1> HIDE DEF L
<1>5. IsChar(s) <=> Len(s) = L.length /\ Follows(s)
  <2>1. ASSUME IsChar(s) PROVE Len(s) = L.length /\ Follows(s)
    BY <1>3, <2>1 DEF IsChar
  <2>2. ASSUME Len(s) = L.length, Follows(s) PROVE IsChar(s)
    <3>1. PICK row \in Table : s[1] \in row[1]
      BY <1>1, <1>4, <2>2
    <3> QED BY <1>1, <1>3, <2>2, <3>1 DEF IsChar
  <2> QED BY <2>1, <2>2
<1>6. IsStart(s) <=> Len(s) < L.length /\ Follows(s)
  <2>1. ASSUME IsStart(s) PROVE Len(s) < L.length /\ Follows(s)
    BY <1>3, <2>1 DEF IsStart
  <2>2. ASSUME Len(s) < L.length, Follows(s) PROVE IsStart(s)
    <3>1. PICK row \in Table : s[1] \in row[1]
      BY <1>1, <1>2, <1>4, <2>2
    <3> QED BY <1>1, <1>2, <1>3, <2>2, <3>1 DEF IsStart
  <2> QED BY <2>1, <2>2
<1> QED BY <1>5, <1>6 DEF L

-----------------------------------------------------------------------------
(* Utf8: what is recommended for a text.  Here the induction goes from the
   end of the text to its beginning. *)

Part(s, k, n)  == SubSeq(s, k + 1, k + n)
Chars(s, k)    == {n \in 1 .. Min({4, Len(s) - k}) : IsChar(Part(s, k, n))}
Starts(s, k)   == {n \in 1 .. Min({4, Len(s) - k}) : IsStart(Part(s, k, n))}
Longest(s, k)  == IF Starts(s, k) = {} THEN 1 ELSE Max(Starts(s, k))

\* What becomes of the text from k on, when f says it of what comes later.
Advised(s, f, k) ==
    CASE k = Len(s) -> <<>>
      [] k < Len(s) /\ Chars(s, k) # {} -> Part(s, k, Max(Chars(s, k))) \o f[k + Max(Chars(s, k))]
      [] k < Len(s) /\ Chars(s, k) = {} /\ k + Longest(s, k) = Len(s) /\ Starts(s, k) # {} -> <<>>
      [] OTHER -> ReplacementCharacter \o f[k + Longest(s, k)]

IsAdvice(s, f, m) == f = [k \in m .. Len(s) |-> Advised(s, f, k)]

\* The rest of the text an advice looks at is shorter, and within the text.
LEMMA AdviceLooksAhead ==
    ASSUME NEW s, Len(s) \in Nat, NEW k \in 0 .. Len(s), k # Len(s)
    PROVE  /\ Chars(s, k) # {} => /\ Max(Chars(s, k)) \in Chars(s, k)
                                  /\ Max(Chars(s, k)) \in 1 .. Len(s) - k
           /\ Longest(s, k) \in 1 .. Len(s) - k
<1>1. Min({4, Len(s) - k}) <= Len(s) - k /\ Min({4, Len(s) - k}) \in Nat
  BY MinOfFour
<1> DEFINE most == Min({4, Len(s) - k})
<1>2. \A n : n \in Chars(s, k) \/ n \in Starts(s, k) => n \in 1 .. most
  BY DEF Chars, Starts
<1> HIDE DEF most
<1>3. \A n : n \in Chars(s, k) \/ n \in Starts(s, k) => n \in 1 .. Len(s) - k
  <2>1. \A n \in 1 .. most : n \in 1 .. Len(s) - k
    BY <1>1 DEF most
  <2> QED BY <1>2, <2>1, Zenon
<1>4. Chars(s, k) \subseteq 0 .. Len(s) - k /\ Starts(s, k) \subseteq 0 .. Len(s) - k
  <2>1. \A n \in 1 .. Len(s) - k : n \in 0 .. Len(s) - k
    OBVIOUS
  <2> QED BY <1>3, <2>1, Zenon
<1>5. Len(s) - k \in Nat /\ 1 \in 1 .. Len(s) - k
  OBVIOUS
<1>6. Chars(s, k) # {} => Max(Chars(s, k)) \in Chars(s, k)
  BY <1>4, <1>5, GreatestPosition
<1>7. Starts(s, k) # {} => Max(Starts(s, k)) \in Starts(s, k)
  BY <1>4, <1>5, GreatestPosition
<1> QED BY <1>3, <1>5, <1>6, <1>7 DEF Longest

\* Only what comes later matters.
LEMMA AdviceDependsAhead ==
    ASSUME NEW s, Len(s) \in Nat, NEW f, NEW g, NEW k \in 0 .. Len(s),
           \A o \in 0 .. Len(s) : k < o => f[o] = g[o]
    PROVE  Advised(s, f, k) = Advised(s, g, k)
<1>1. CASE k = Len(s)
  BY <1>1 DEF Advised
<1>2. CASE k # Len(s)
  <2>1. Longest(s, k) \in 1 .. Len(s) - k
    BY <1>2, AdviceLooksAhead
  <2>2. f[k + Longest(s, k)] = g[k + Longest(s, k)]
    <3>1. k + Longest(s, k) \in 0 .. Len(s) /\ k < k + Longest(s, k)
      BY <2>1
    <3> QED BY <3>1
  <2>3. ASSUME Chars(s, k) # {} PROVE f[k + Max(Chars(s, k))] = g[k + Max(Chars(s, k))]
    <3>1. Max(Chars(s, k)) \in 1 .. Len(s) - k
      BY <1>2, <2>3, AdviceLooksAhead
    <3>2. k + Max(Chars(s, k)) \in 0 .. Len(s) /\ k < k + Max(Chars(s, k))
      BY <3>1
    <3> QED BY <3>2
  <2> QED BY <1>2, <2>2, <2>3 DEF Advised
<1> QED BY <1>1, <1>2

\* The recursive definition of RecommendedFrom defines a function, ...
LEMMA AdviceExists ==
    ASSUME NEW s, Len(s) \in Nat
    PROVE  \E f : IsAdvice(s, f, 0)
<1> DEFINE N == Len(s)
           T == {n \in 0 .. N : ~ \E f : IsAdvice(s, f, N - n)}
<1>1. SUFFICES ASSUME T # {} PROVE FALSE
  <2>1. N \notin T
    BY <1>1
  <2>2. N \in 0 .. N /\ N - N = 0
    OBVIOUS
  <2>3. \E f : IsAdvice(s, f, N - N)
    BY <2>1, <2>2
  <2> QED BY <2>2, <2>3
<1>2. T \subseteq Nat
  OBVIOUS
<1>3. PICK n \in T : \A o \in T : n <= o
  <2> HIDE DEF T
  <2> QED BY <1>1, <1>2, LeastElement
<1>4. n \in Nat /\ n <= N /\ ~ \E f : IsAdvice(s, f, N - n)
  BY <1>2
<1> DEFINE m == N - n
<1>5. m \in 0 .. N
  BY <1>4
<1>6. \E g : n # 0 => IsAdvice(s, g, m + 1)
  <2>1. CASE n = 0
    BY <2>1
  <2>2. CASE n # 0
    <3>1. n - 1 \in 0 .. N /\ ~ (n <= n - 1) /\ N - (n - 1) = m + 1
      BY <1>4, <2>2
    <3>2. n - 1 \notin T
      <4> HIDE DEF T
      <4> QED BY <1>3, <3>1
    <3>3. \E g : IsAdvice(s, g, N - (n - 1))
      BY <3>1, <3>2
    <3> QED BY <3>1, <3>3
  <2> QED BY <2>1, <2>2
<1>7. PICK g : n # 0 => IsAdvice(s, g, m + 1)
  BY <1>6
<1> DEFINE f == [k \in m .. N |-> IF k = m THEN Advised(s, g, m) ELSE g[k]]
<1>8. \A o \in 0 .. N : m < o => f[o] = g[o]
  BY <1>5
<1>9. ASSUME NEW k \in m .. N PROVE f[k] = Advised(s, f, k)
  <2>1. k \in 0 .. N /\ \A o \in 0 .. N : k < o => f[o] = g[o]
    BY <1>5, <1>8
  <2>2. Advised(s, f, k) = Advised(s, g, k)
    <3> HIDE DEF f, m
    <3> QED BY <2>1, AdviceDependsAhead
  <2>3. CASE k = m
    <3>1. f[k] = Advised(s, g, k)
      BY <2>3
    <3> HIDE DEF f, m
    <3> QED BY <2>2, <3>1
  <2>4. CASE k # m
    <3>1. k \in m + 1 .. N /\ n # 0
      BY <1>4, <1>5, <2>4
    <3>2. f[k] = g[k]
      BY <2>4
    <3> HIDE DEF f, m
    <3>3. g = [o \in m + 1 .. N |-> Advised(s, g, o)]
      BY <1>7, <3>1 DEF IsAdvice
    <3>4. g[k] = Advised(s, g, k)
      BY <3>1, <3>3
    <3> QED BY <2>2, <3>2, <3>4
  <2> QED BY <2>3, <2>4
<1>10. f = [k \in m .. N |-> f[k]]
  OBVIOUS
<1> HIDE DEF f
<1>11. f = [k \in m .. N |-> Advised(s, f, k)]
  BY <1>9, <1>10
<1> QED BY <1>4, <1>11 DEF IsAdvice

LEMMA RecommendedFromIs ==
    ASSUME NEW s, Len(s) \in Nat, NEW k \in 0 .. Len(s)
    PROVE  RecommendedFrom(s)[k] = Advised(s, RecommendedFrom(s), k)
<1>1. RecommendedFrom(s) = CHOOSE f : IsAdvice(s, f, 0)
  BY DEF RecommendedFrom, IsAdvice, Advised, Longest, Chars, Starts, Part
<1>2. IsAdvice(s, RecommendedFrom(s), 0)
  BY <1>1, AdviceExists
<1> DEFINE f == RecommendedFrom(s)
<1> HIDE DEF f
<1>3. f = [o \in 0 .. Len(s) |-> Advised(s, f, o)]
  BY <1>2 DEF IsAdvice, f
<1>4. f[k] = Advised(s, f, k)
  BY <1>3
<1> QED BY <1>4 DEF f

LEMMA PartOf ==
    ASSUME NEW S, NEW s \in Seq(S), NEW k \in 0 .. Len(s), NEW n \in 1 .. Len(s) - k
    PROVE  /\ Part(s, k, n) \in Seq(S) /\ Len(Part(s, k, n)) = n
           /\ \A m \in 1 .. n : Part(s, k, n)[m] = s[k + m]
<1>1. Len(s) \in Nat /\ k + 1 \in 1 .. Len(s) + 1 /\ k + n \in k .. Len(s)
  OBVIOUS
<1>2. k \in Nat /\ n \in Nat /\ k + n + 1 - (k + 1) = n
  OBVIOUS
<1>3. \A o \in k + 1 .. k + n : s[o] \in S
  BY <1>1
<1>4. SubSeq(s, k + 1, k + n) = [m \in 1 .. n |-> s[k + m]]
  <2>1. SubSeq(s, k + 1, k + n) \in Seq(S) /\ Len(SubSeq(s, k + 1, k + n)) = n
    BY <1>1, <1>2
  <2>2. \A m \in 1 .. n : SubSeq(s, k + 1, k + n)[m] = s[k + m]
    BY <1>1, <1>2
  <2> QED BY <2>1, <2>2
<1>5. \A m \in 1 .. n : s[k + m] \in S
  BY <1>2, <1>3
<1> QED BY <1>2, <1>4, <1>5 DEF Part

\* ... whose values are sequences of bytes.
LEMMA RecommendedBytes ==
    ASSUME NEW s \in Seq(0 .. 255), NEW k \in 0 .. Len(s)
    PROVE  RecommendedFrom(s)[k] \in Seq(0 .. 255)
<1> DEFINE f == RecommendedFrom(s)
           N == Len(s)
           D == {n \in 0 .. N : f[N - n] \notin Seq(0 .. 255)}
<1>1. N \in Nat
  OBVIOUS
<1>2. \A o \in 0 .. N : f[o] = Advised(s, f, o)
  BY <1>1, RecommendedFromIs
<1> HIDE DEF f
<1>3. SUFFICES ASSUME D # {} PROVE FALSE
  <2>1. N - k \in 0 .. N /\ N - (N - k) = k
    BY <1>1
  <2>2. N - k \notin D
    BY <1>3
  <2>3. f[N - (N - k)] \in Seq(0 .. 255)
    BY <2>1, <2>2
  <2> QED BY <2>1, <2>3 DEF f
<1>4. D \subseteq Nat
  OBVIOUS
<1>5. PICK n \in D : \A o \in D : n <= o
  <2> HIDE DEF D
  <2> QED BY <1>3, <1>4, LeastElement
<1> DEFINE m == N - n
<1>6. m \in 0 .. N /\ f[m] \notin Seq(0 .. 255)
  BY <1>1
<1>7. ASSUME NEW o \in 1 .. N - m PROVE f[m + o] \in Seq(0 .. 255)
  <2>1. n - o \in 0 .. N /\ ~ (n <= n - o) /\ N - (n - o) = m + o
    BY <1>1, <1>4, <1>6
  <2>2. n - o \notin D
    <3> HIDE DEF D
    <3> QED BY <1>5, <2>1
  <2>3. f[N - (n - o)] \in Seq(0 .. 255)
    BY <2>1, <2>2
  <2> QED BY <2>1, <2>3
<1> HIDE DEF m, D
<1>8. f[m] = Advised(s, f, m)
  BY <1>2, <1>6
<1>9. <<>> \in Seq(0 .. 255) /\ ReplacementCharacter \in Seq(0 .. 255)
  BY DEF ReplacementCharacter
<1>10. m # N
  BY <1>6, <1>8, <1>9 DEF Advised
<1>11. ReplacementCharacter \o f[m + Longest(s, m)] \in Seq(0 .. 255)
  <2>1. f[m + Longest(s, m)] \in Seq(0 .. 255)
    BY <1>1, <1>6, <1>7, <1>10, AdviceLooksAhead
  <2> QED BY <1>9, <2>1
<1>12. ASSUME Chars(s, m) # {}
       PROVE  Part(s, m, Max(Chars(s, m))) \o f[m + Max(Chars(s, m))] \in Seq(0 .. 255)
  <2>1. Max(Chars(s, m)) \in 1 .. N - m
    BY <1>1, <1>6, <1>10, <1>12, AdviceLooksAhead
  <2>2. f[m + Max(Chars(s, m))] \in Seq(0 .. 255)
    BY <1>7, <2>1
  <2>3. Part(s, m, Max(Chars(s, m))) \in Seq(0 .. 255)
    BY <1>6, <2>1, PartOf
  <2> QED BY <2>2, <2>3
<1> QED BY <1>6, <1>8, <1>9, <1>10, <1>11, <1>12 DEF Advised

-----------------------------------------------------------------------------
(* Utf8: an iteration *)

InTheText == text \in Seq(0 .. 255) /\ offset \in 0 .. size /\ offset < size

\* The bytes that lead would have follow from m = 1 up to n - 1 do.
Continued(lead, n) == \A m \in 1 .. n - 1 : Continues(lead, m)

TheLead == utf8_lead(text[offset + 1])

LEMMA ByteOf ==
    ASSUME NEW S, NEW s \in Seq(S), NEW n \in 1 .. Len(s)
    PROVE  s[n] \in S
OBVIOUS

LEMMA LeadHere ==
    ASSUME InTheText
    PROVE  text[offset + 1] \in 0 .. 255 /\ TheLead.length \in 0 .. 4 /\ size \in Nat /\ offset \in Nat
<1>1. size \in Nat /\ offset \in Nat /\ offset + 1 \in 1 .. size
  BY DEF InTheText, size
<1>2. text[offset + 1] \in 0 .. 255
  BY <1>1, ByteOf DEF InTheText, size
<1> QED BY <1>1, <1>2, LeadValues DEF TheLead

\* What matched_length() counts.
LEMMA MatchedLength ==
    ASSUME InTheText, TheLead.length > 0
    PROVE  /\ matched_length(TheLead) \in 1 .. TheLead.length
           /\ matched_length(TheLead) <= size - offset
           /\ Continued(TheLead, matched_length(TheLead))
           /\ matched_length(TheLead) < TheLead.length /\ matched_length(TheLead) < size - offset
                => ~ Continues(TheLead, matched_length(TheLead))
<1> DEFINE limit == Min({TheLead.length, size - offset})
           bad == {m \in 1 .. limit - 1 : ~ Continues(TheLead, m)}
<1>1. TheLead.length \in 1 .. 4 /\ size - offset \in Nat \ {0}
  BY LeadHere DEF InTheText
<1>2. /\ limit \in {TheLead.length, size - offset}
      /\ limit <= TheLead.length /\ limit <= size - offset
  <2>1. {TheLead.length, size - offset} \subseteq Nat /\ {TheLead.length, size - offset} # {}
    BY <1>1
  <2> QED BY <2>1, LeastPosition
<1>3. matched_length(TheLead) = IF bad = {} THEN limit ELSE Min(bad)
  BY DEF matched_length
<1> HIDE DEF limit
<1>4. limit \in Nat \ {0}
  BY <1>1, <1>2
<1>5. bad \subseteq Nat
  OBVIOUS
<1>6. CASE bad = {}
  <2>1. matched_length(TheLead) = limit
    BY <1>3, <1>6
  <2>2. Continued(TheLead, limit)
    BY <1>6 DEF Continued
  <2> QED BY <1>1, <1>2, <1>4, <2>1, <2>2
<1>7. CASE bad # {}
  <2>1. matched_length(TheLead) = Min(bad)
    BY <1>3, <1>7
  <2>2. Min(bad) \in bad /\ \A n \in bad : Min(bad) <= n
    <3> HIDE DEF bad
    <3> QED BY <1>5, <1>7, LeastPosition
  <2>3. Min(bad) \in 1 .. limit - 1 /\ ~ Continues(TheLead, Min(bad))
    BY <2>2
  <2>4. ASSUME NEW m \in 1 .. Min(bad) - 1 PROVE Continues(TheLead, m)
    <3>1. m \in 1 .. limit - 1 /\ ~ (Min(bad) <= m)
      BY <1>4, <2>3
    <3> QED BY <2>2, <3>1
  <2> HIDE DEF bad
  <2>5. Continued(TheLead, Min(bad))
    BY <2>4 DEF Continued
  <2>6. Min(bad) \in 1 .. TheLead.length /\ Min(bad) <= size - offset
    BY <1>1, <1>2, <1>4, <2>3
  <2> QED BY <2>1, <2>3, <2>5, <2>6
<1> QED BY <1>6, <1>7

\* The parts of the text that are characters, or their beginnings.
LEMMA PartsHere ==
    ASSUME InTheText, NEW n \in 1 .. size - offset
    PROVE  /\ IsChar(Part(text, offset, n)) <=> n = TheLead.length /\ Continued(TheLead, n)
           /\ IsStart(Part(text, offset, n)) <=> n < TheLead.length /\ Continued(TheLead, n)
<1> DEFINE p == Part(text, offset, n)
<1>1. p \in Seq(0 .. 255) /\ Len(p) = n /\ \A m \in 1 .. n : p[m] = text[offset + m]
  BY PartOf DEF InTheText, size
<1> HIDE DEF p
<1>2. n \in Nat /\ n >= 1 /\ size \in Nat /\ offset \in Nat
  BY LeadHere
<1>3. p[1] = text[offset + 1] /\ utf8_lead(p[1]) = TheLead
  BY <1>1, <1>2 DEF TheLead
<1>4. /\ IsChar(p) <=> n = TheLead.length /\ Follows(p)
      /\ IsStart(p) <=> n < TheLead.length /\ Follows(p)
  BY <1>1, <1>2, <1>3, CharsAndStarts
<1>5. Follows(p) <=> Continued(TheLead, n)
  <2>1. ASSUME NEW m \in 1 .. n - 1
        PROVE  p[m + 1] \in Following(TheLead, m) <=> Continues(TheLead, m)
    <3>1. m + 1 \in 1 .. n /\ offset + (m + 1) = offset + m + 1
      BY <1>2
    <3>2. p[m + 1] = text[offset + m + 1]
      BY <1>1, <3>1
    <3> QED BY <3>2 DEF Following, Continues
  <2> QED BY <1>1, <1>3, <2>1 DEF Follows, Continued
<1> QED BY <1>4, <1>5 DEF p

LEMMA AmongTheNext ==
    ASSUME InTheText, NEW n
    PROVE  n \in 1 .. Min({4, size - offset}) <=> n \in 1 .. size - offset /\ n <= 4
<1>1. size - offset \in Nat
  BY LeadHere DEF InTheText
<1>2. Min({4, size - offset}) \in {4, size - offset}
      /\ Min({4, size - offset}) <= 4 /\ Min({4, size - offset}) <= size - offset
  BY <1>1, MinOfFour
<1> QED BY <1>1, <1>2

\* A whole character is what is recommended to come first.
LEMMA WholeAdvised ==
    ASSUME InTheText, TheLead.length > 0, matched_length(TheLead) = TheLead.length
    PROVE  /\ Chars(text, offset) = {TheLead.length} /\ Max({TheLead.length}) = TheLead.length
           /\ TheLead.length \in 1 .. size - offset
           /\ IsChar(Part(text, offset, TheLead.length))
<1>1. TheLead.length \in 1 .. 4 /\ TheLead.length <= size - offset /\ size - offset \in Nat
      /\ Continued(TheLead, TheLead.length)
  BY LeadHere, MatchedLength DEF InTheText
<1>2. TheLead.length \in 1 .. size - offset
  BY <1>1
<1>3. IsChar(Part(text, offset, TheLead.length))
  BY <1>1, <1>2, PartsHere
<1>4. ASSUME NEW n PROVE n \in Chars(text, offset) <=> n = TheLead.length
  <2>1. n \in Chars(text, offset)
          <=> n \in 1 .. Min({4, size - offset}) /\ IsChar(Part(text, offset, n))
    BY DEF Chars, size
  <2>2. n \in Chars(text, offset) => n = TheLead.length
    BY <2>1, AmongTheNext, PartsHere
  <2>3. TheLead.length \in 1 .. Min({4, size - offset})
    BY <1>1, <1>2, AmongTheNext
  <2> QED BY <1>3, <2>1, <2>2, <2>3
<1>5. Max({TheLead.length}) = TheLead.length
  <2>1. {TheLead.length} \subseteq 0 .. 4 /\ {TheLead.length} # {}
    BY <1>1
  <2>2. Max({TheLead.length}) \in {TheLead.length}
    BY <2>1, GreatestPosition
  <2> QED BY <2>2
<1> QED BY <1>2, <1>3, <1>4, <1>5

\* Where no character is whole, what matched is the longest start of one.
LEMMA StartAdvised ==
    ASSUME InTheText, TheLead.length > 0 => matched_length(TheLead) < TheLead.length
    PROVE  /\ Chars(text, offset) = {}
           /\ Starts(text, offset) = {} <=> TheLead.length = 0
           /\ TheLead.length > 0 => Longest(text, offset) = matched_length(TheLead)
<1>1. TheLead.length \in 0 .. 4 /\ size - offset \in Nat
  BY LeadHere DEF InTheText
<1>2. ASSUME NEW n \in Chars(text, offset) PROVE FALSE
  <2>1. n \in 1 .. Min({4, size - offset}) /\ IsChar(Part(text, offset, n))
    BY DEF Chars, size
  <2>2. n \in 1 .. size - offset
    BY <2>1, AmongTheNext
  <2>3. n = TheLead.length /\ Continued(TheLead, n)
    BY <2>1, <2>2, PartsHere
  <2>4. TheLead.length > 0 /\ matched_length(TheLead) \in 1 .. n - 1
        /\ ~ Continues(TheLead, matched_length(TheLead))
    BY <1>1, <2>2, <2>3, MatchedLength
  <2> QED BY <2>3, <2>4 DEF Continued
<1>3. ASSUME NEW n \in Starts(text, offset)
      PROVE  n \in 1 .. size - offset /\ n < TheLead.length /\ Continued(TheLead, n)
  <2>1. n \in 1 .. Min({4, size - offset}) /\ IsStart(Part(text, offset, n))
    BY DEF Starts, size
  <2>2. n \in 1 .. size - offset
    BY <2>1, AmongTheNext
  <2> QED BY <2>1, <2>2, PartsHere
<1>4. CASE TheLead.length = 0
  BY <1>1, <1>2, <1>3, <1>4
<1>5. CASE TheLead.length > 0
  <2> DEFINE ml == matched_length(TheLead)
  <2>1. /\ ml \in 1 .. 4 /\ ml < TheLead.length /\ ml <= size - offset /\ Continued(TheLead, ml)
        /\ ml < size - offset => ~ Continues(TheLead, ml)
    BY <1>1, <1>5, MatchedLength
  <2> HIDE DEF ml
  <2>2. ml \in Starts(text, offset)
    <3>1. ml \in 1 .. size - offset /\ ml <= 4
      BY <1>1, <2>1
    <3>2. IsStart(Part(text, offset, ml))
      BY <2>1, <3>1, PartsHere
    <3> QED BY <3>1, <3>2, AmongTheNext DEF Starts, size
  <2>3. ASSUME NEW n \in Starts(text, offset) PROVE n <= ml
    <3>1. SUFFICES ASSUME ml < n PROVE FALSE
      BY <1>3, <2>1
    <3>2. ml \in 1 .. n - 1 /\ ml < size - offset
      BY <1>1, <1>3, <2>1, <3>1
    <3> QED BY <1>3, <2>1, <3>2 DEF Continued
  <2>4. Starts(text, offset) \subseteq 0 .. 4
    <3>1. \A n \in Starts(text, offset) : n \in 0 .. 4
      BY <1>1, <1>3
    <3> QED BY <3>1
  <2>5. Max(Starts(text, offset)) \in Starts(text, offset)
        /\ \A n \in Starts(text, offset) : n <= Max(Starts(text, offset))
    BY <2>2, <2>4, GreatestPosition
  <2>6. Max(Starts(text, offset)) <= ml /\ ml <= Max(Starts(text, offset))
    BY <2>2, <2>3, <2>5
  <2>7. Max(Starts(text, offset)) \in Nat
    BY <2>4, <2>5
  <2>8. Max(Starts(text, offset)) = ml
    BY <2>1, <2>6, <2>7
  <2> QED BY <1>2, <1>5, <2>2, <2>8 DEF Longest, ml
<1> QED BY <1>1, <1>4, <1>5

-----------------------------------------------------------------------------
(* Utf8: the loop *)

\* What is already written and what is recommended for the rest of the text
\* make up what is recommended for the whole of it, and what is written is
\* made of whole characters.
Utf8Inv ==
    /\ Utf8TypeOK
    /\ utf8 \in Seq(0 .. 255) /\ IsUtf8(utf8)
    /\ IF done THEN utf8 = Recommended
               ELSE utf8 \o RecommendedFrom(text)[offset] = Recommended

LEMMA TextsAreBytes ==
    ASSUME Utf8TypeOK
    PROVE  text \in Seq(0 .. 255) /\ size \in Nat /\ offset \in 0 .. size
<1>1. text \in Seq(Bytes) /\ offset \in 0 .. size
  BY DEF Utf8TypeOK
<1>2. Bytes \subseteq 0 .. 255
  <2>1. \A b \in Bytes : b \in 1 .. 255
    BY BytesAssumption
  <2>2. \A b \in 1 .. 255 : b \in 0 .. 255
    OBVIOUS
  <2> QED BY <2>1, <2>2
<1>3. PICK n \in Nat : n = Len(text) /\ text \in [1 .. n -> Bytes]
  BY <1>1
<1>4. text \in [1 .. n -> 0 .. 255]
  BY <1>2, <1>3
<1>5. n \in Nat
  OBVIOUS
<1>6. text \in Seq(0 .. 255)
  BY <1>4, <1>5
<1> QED BY <1>1, <1>3, <1>6 DEF size

\* Writing c and then what is recommended for the rest.
LEMMA WrittenFirst ==
    ASSUME NEW S, NEW u \in Seq(S), NEW c \in Seq(S), NEW r \in Seq(S)
    PROVE  (u \o c) \o r = u \o (c \o r)
OBVIOUS

LEMMA ReplacementIsWhole ==
    /\ ReplacementCharacter \in Seq(0 .. 255) /\ Len(ReplacementCharacter) = 3
    /\ IsChar(ReplacementCharacter)
<1> DEFINE c == ReplacementCharacter
           row == <<238 .. 239, Tail80, Tail80>>
<1>1. c \in Seq(0 .. 255) /\ Len(c) = 3 /\ c[1] = 239 /\ c[2] = 191 /\ c[3] = 189
  BY DEF ReplacementCharacter
<1>2. row \in Table /\ Len(row) = 3 /\ row[1] = 238 .. 239 /\ row[2] = 128 .. 191 /\ row[3] = 128 .. 191
  BY DEF Table, Tail80
<1> HIDE DEF c, row
<1>3. \A k \in 1 .. 3 : c[k] \in row[k]
  BY <1>1, <1>2
<1>4. IsChar(c)
  BY <1>1, <1>2, <1>3 DEF IsChar, Matches
<1> QED BY <1>1, <1>4 DEF c

LEMMA Utf8InitInv ==
    ASSUME Utf8Init
    PROVE  Utf8Inv
<1>1. Utf8TypeOK /\ done = FALSE /\ offset = 0 /\ utf8 = <<>>
  <2>1. PICK n \in 0 .. MaxLength : text \in [1 .. n -> Bytes]
    BY DEF Utf8Init
  <2>2. n \in Nat /\ n <= MaxLength
    BY <2>1, MaxLengthAssumption
  <2>3. text \in Seq(Bytes) /\ Len(text) = n
    BY <2>1, <2>2
  <2>4. 0 \in 0 .. size /\ size <= MaxLength
    BY <2>2, <2>3 DEF size
  <2> QED BY <2>3, <2>4 DEF Utf8Init, Utf8TypeOK
<1>2. text \in Seq(0 .. 255) /\ 0 \in 0 .. Len(text)
  BY <1>1, TextsAreBytes DEF size
<1>3. Recommended \in Seq(0 .. 255)
  BY <1>2, RecommendedBytes DEF Recommended
<1>4. utf8 \o RecommendedFrom(text)[offset] = Recommended
  BY <1>1, <1>3 DEF Recommended
<1>5. utf8 \in Seq(0 .. 255) /\ IsUtf8(utf8)
  BY <1>1, NothingIsUtf8
<1> QED BY <1>1, <1>4, <1>5 DEF Utf8Inv

\* Writing a whole character c and moving on by n keeps the invariant where
\* c is what is recommended for these n bytes.
LEMMA Writing ==
    ASSUME Utf8Inv, ~ done, UNCHANGED <<text, done>>,
           NEW c \in Seq(0 .. 255), IsChar(c), Len(c) \in 1 .. 4,
           NEW n \in 1 .. size - offset,
           utf8' = utf8 \o c, offset' = offset + n,
           RecommendedFrom(text)[offset] = c \o RecommendedFrom(text)[offset + n]
    PROVE  Utf8Inv'
<1>1. text \in Seq(0 .. 255) /\ size \in Nat /\ offset \in 0 .. size
  BY TextsAreBytes DEF Utf8Inv
<1>2. offset + n \in 0 .. size
  BY <1>1
<1>3. Utf8TypeOK'
  <2>1. size' = size
    BY DEF size
  <2> QED BY <1>2, <2>1 DEF Utf8Inv, Utf8TypeOK
<1>4. RecommendedFrom(text)[offset + n] \in Seq(0 .. 255)
  BY <1>1, <1>2, RecommendedBytes DEF size
<1>5. utf8 \in Seq(0 .. 255) /\ IsUtf8(utf8) /\ utf8 \o RecommendedFrom(text)[offset] = Recommended
  BY DEF Utf8Inv
<1>6. (utf8 \o c) \o RecommendedFrom(text)[offset + n] = Recommended
  <2> DEFINE r == RecommendedFrom(text)[offset + n]
             S == 0 .. 255
  <2>1. utf8 \in Seq(S) /\ c \in Seq(S) /\ r \in Seq(S)
    BY <1>4, <1>5
  <2> HIDE DEF r, S
  <2>2. (utf8 \o c) \o r = utf8 \o (c \o r)
    BY <2>1, WrittenFirst
  <2>3. utf8 \o (c \o r) = Recommended
    BY <1>5 DEF r
  <2> QED BY <2>2, <2>3 DEF r
<1>7. utf8 \o c \in Seq(0 .. 255)
  BY <1>5
<1>8. IsUtf8(utf8 \o c)
  BY <1>5, CharAppended
<1>9. Recommended' = Recommended
  BY DEF Recommended
<1> QED BY <1>3, <1>6, <1>7, <1>8, <1>9 DEF Utf8Inv

\* What stays where the loop is left.
LEMMA Leaving ==
    ASSUME Utf8Inv, ~ done, done' = TRUE, UNCHANGED <<text, offset, utf8>>,
           RecommendedFrom(text)[offset] = <<>>
    PROVE  Utf8Inv'
<1>1. utf8 \in Seq(0 .. 255) /\ utf8 \o <<>> = Recommended
  BY DEF Utf8Inv
<1>2. utf8' = Recommended'
  BY <1>1 DEF Recommended
<1>3. Utf8TypeOK'
  BY DEF Utf8Inv, Utf8TypeOK, size
<1>4. (utf8 \in Seq(0 .. 255))' /\ IsUtf8(utf8)'
  BY DEF Utf8Inv
<1> QED BY <1>2, <1>3, <1>4 DEF Utf8Inv

\* The loop moves on by what it matched, and by one byte in any case.
LEMMA StrideHere ==
    ASSUME InTheText
    PROVE  Stride(TheLead) = IF TheLead.length = 0 THEN 1 ELSE matched_length(TheLead)
<1>1. TheLead.length \in 0 .. 4 /\ size - offset \in Nat \ {0}
  BY LeadHere DEF InTheText
<1>2. CASE TheLead.length > 0
  <2> DEFINE ml == matched_length(TheLead)
  <2>1. ml \in 1 .. 4
    BY <1>1, <1>2, MatchedLength
  <2> HIDE DEF ml
  <2>2. {ml, 1} \subseteq 0 .. 4 /\ {ml, 1} # {}
    BY <2>1
  <2>3. Max({ml, 1}) \in {ml, 1} /\ ml <= Max({ml, 1})
    BY <2>2, GreatestPosition
  <2>4. Max({ml, 1}) = ml
    BY <2>1, <2>3
  <2> QED BY <1>2, <2>4 DEF Stride, ml
<1>3. CASE TheLead.length = 0
  <2> DEFINE limit == Min({TheLead.length, size - offset})
  <2>1. {TheLead.length, size - offset} \subseteq Nat /\ {TheLead.length, size - offset} # {}
    BY <1>1
  <2>2. limit \in {TheLead.length, size - offset} /\ limit <= TheLead.length
    BY <2>1, LeastPosition
  <2>3. limit = 0
    BY <1>1, <1>3, <2>2
  <2>4. matched_length(TheLead) = 0
    <3> HIDE DEF limit
    <3>1. {m \in 1 .. limit - 1 : ~ Continues(TheLead, m)} = {}
      BY <2>3
    <3> QED BY <2>3, <3>1 DEF matched_length, limit
  <2>5. {0, 1} \subseteq 0 .. 1 /\ {0, 1} # {}
    OBVIOUS
  <2>6. Max({0, 1}) \in {0, 1} /\ 1 <= Max({0, 1})
    BY <2>5, GreatestPosition
  <2> QED BY <1>3, <2>4, <2>6 DEF Stride
<1> QED BY <1>1, <1>2, <1>3

LEMMA Utf8Step ==
    ASSUME Utf8Inv, [Utf8Next]_utf8Vars
    PROVE  Utf8Inv'
<1>1. CASE UNCHANGED utf8Vars
  BY <1>1 DEF utf8Vars, Utf8Inv, Utf8TypeOK, Recommended, size
<1>2. ASSUME Iterate PROVE Utf8Inv'
  <2>1. text \in Seq(0 .. 255) /\ size \in Nat /\ offset \in 0 .. size /\ size = Len(text)
    BY TextsAreBytes DEF Utf8Inv, size
  <2>2. ~ done /\ offset < size /\ UNCHANGED text
        /\ (Character(TheLead) \/ Incomplete(TheLead) \/ IllFormed(TheLead))
    BY <1>2 DEF Iterate, TheLead
  <2>3. InTheText
    BY <2>1, <2>2 DEF InTheText
  <2>4. TheLead.length \in 0 .. 4
    BY <2>3, LeadHere
  <2>5. RecommendedFrom(text)[offset] = Advised(text, RecommendedFrom(text), offset) /\ offset # Len(text)
    BY <2>1, <2>2, RecommendedFromIs
  <2>6. ASSUME Character(TheLead) PROVE Utf8Inv'
    <3> DEFINE n == TheLead.length
               c == Part(text, offset, n)
    <3>1. TheLead.length > 0 /\ matched_length(TheLead) = TheLead.length
      BY <2>6 DEF Character
    <3>2. /\ Chars(text, offset) = {n} /\ Max({n}) = n /\ n \in 1 .. size - offset /\ IsChar(c)
      BY <2>3, <3>1, WholeAdvised
    <3>3. c \in Seq(0 .. 255) /\ Len(c) = n /\ n \in 1 .. 4
      BY <2>1, <2>4, <3>1, <3>2, PartOf
    <3>4. RecommendedFrom(text)[offset] = c \o RecommendedFrom(text)[offset + n]
      <4>1. Chars(text, offset) # {} /\ Max(Chars(text, offset)) = n /\ offset < Len(text)
        BY <2>1, <2>2, <3>2
      <4> QED BY <2>5, <4>1 DEF Advised
    <3>5. utf8' = utf8 \o c /\ offset' = offset + n /\ UNCHANGED <<text, done>>
      <4>1. Stride(TheLead) = n
        BY <2>3, <3>1, StrideHere
      <4> QED BY <2>2, <2>6, <4>1 DEF Character, Part
    <3> HIDE DEF c, n
    <3> QED BY <2>2, <3>2, <3>3, <3>4, <3>5, Writing
  <2>7. ASSUME Incomplete(TheLead) PROVE Utf8Inv'
    <3>1. /\ TheLead.length > 0 /\ matched_length(TheLead) < TheLead.length
          /\ offset + matched_length(TheLead) = Len(text)
      BY <2>1, <2>7 DEF Incomplete, CutOff
    <3>2. Chars(text, offset) = {} /\ Starts(text, offset) # {}
          /\ Longest(text, offset) = matched_length(TheLead)
      BY <2>3, <3>1, StartAdvised
    <3>3. RecommendedFrom(text)[offset] = <<>>
      BY <2>1, <2>2, <2>5, <3>1, <3>2 DEF Advised
    <3>4. done' = TRUE /\ UNCHANGED <<text, offset, utf8>>
      BY <2>2, <2>7 DEF Incomplete
    <3> QED BY <2>2, <3>3, <3>4, Leaving
  <2>8. ASSUME IllFormed(TheLead) PROVE Utf8Inv'
    <3> DEFINE n == Longest(text, offset)
    <3>1. TheLead.length > 0 => matched_length(TheLead) < TheLead.length
                              /\ offset + matched_length(TheLead) # Len(text)
      BY <2>1, <2>4, <2>8 DEF IllFormed, CutOff
    <3>2. /\ Chars(text, offset) = {} /\ (Starts(text, offset) = {} <=> TheLead.length = 0)
          /\ TheLead.length > 0 => n = matched_length(TheLead)
      BY <2>3, <3>1, StartAdvised
    <3>3. n = Stride(TheLead) /\ n \in 1 .. size - offset
      <4>1. CASE TheLead.length = 0
        BY <2>1, <2>2, <2>3, <3>2, <4>1, StrideHere DEF Longest
      <4>2. CASE TheLead.length > 0
        <5>1. matched_length(TheLead) \in 1 .. TheLead.length /\ matched_length(TheLead) <= size - offset
          BY <2>3, <4>2, MatchedLength
        <5>2. n = matched_length(TheLead) /\ Stride(TheLead) = matched_length(TheLead)
          BY <2>3, <3>2, <4>2, StrideHere
        <5> HIDE DEF n
        <5> QED BY <2>1, <2>4, <5>1, <5>2
      <4> QED BY <2>4, <4>1, <4>2
    <3>4. RecommendedFrom(text)[offset] = ReplacementCharacter \o RecommendedFrom(text)[offset + n]
      <4>1. offset + n = Len(text) => Starts(text, offset) = {}
        BY <2>4, <3>1, <3>2
      <4> QED BY <2>5, <3>2, <4>1 DEF Advised
    <3>5. utf8' = utf8 \o ReplacementCharacter /\ offset' = offset + n /\ UNCHANGED <<text, done>>
      BY <2>2, <2>8, <3>3 DEF IllFormed
    <3>6. Len(ReplacementCharacter) \in 1 .. 4
      BY ReplacementIsWhole
    <3> HIDE DEF n
    <3> QED BY <2>2, <3>3, <3>4, <3>5, <3>6, ReplacementIsWhole, Writing
  <2> QED BY <2>2, <2>6, <2>7, <2>8
<1>3. ASSUME Return PROVE Utf8Inv'
  <2>1. text \in Seq(0 .. 255) /\ size \in Nat /\ offset \in 0 .. size /\ size = Len(text)
    BY TextsAreBytes DEF Utf8Inv, size
  <2>2. ~ done /\ done' = TRUE /\ UNCHANGED <<text, offset, utf8>> /\ offset = Len(text)
    BY <1>3, <2>1 DEF Return
  <2>3. RecommendedFrom(text)[offset] = Advised(text, RecommendedFrom(text), offset)
    BY <2>1, RecommendedFromIs
  <2>4. RecommendedFrom(text)[offset] = <<>>
    BY <2>2, <2>3 DEF Advised
  <2> QED BY <2>2, <2>4, Leaving
<1> QED BY <1>1, <1>2, <1>3 DEF Utf8Next

LEMMA MovingOn ==
    ASSUME Utf8Inv, Utf8Next
    PROVE  done' \/ offset' \in offset + 1 .. size
<1>1. text \in Seq(0 .. 255) /\ size \in Nat /\ offset \in 0 .. size
  BY TextsAreBytes DEF Utf8Inv
<1>2. CASE Return
  BY <1>2 DEF Return
<1>3. ASSUME Iterate PROVE done' \/ offset' \in offset + 1 .. size
  <2>1. offset < size /\ (Character(TheLead) \/ Incomplete(TheLead) \/ IllFormed(TheLead))
    BY <1>3 DEF Iterate, TheLead
  <2>2. InTheText
    BY <1>1, <2>1 DEF InTheText
  <2>3. TheLead.length \in 0 .. 4
    BY <2>2, LeadHere
  <2>4. Stride(TheLead) \in 1 .. size - offset
    <3>1. CASE TheLead.length = 0
      BY <1>1, <2>1, <2>2, <3>1, StrideHere
    <3>2. CASE TheLead.length > 0
      <4>1. matched_length(TheLead) \in 1 .. TheLead.length /\ matched_length(TheLead) <= size - offset
        BY <2>2, <3>2, MatchedLength
      <4>2. Stride(TheLead) = matched_length(TheLead)
        BY <2>2, <3>2, StrideHere
      <4> QED BY <1>1, <2>3, <4>1, <4>2
    <3> QED BY <2>3, <3>1, <3>2
  <2>5. CASE offset' = offset + Stride(TheLead)
    BY <1>1, <2>4, <2>5
  <2>6. done' \/ offset' = offset + Stride(TheLead)
    BY <2>1 DEF Character, Incomplete, IllFormed
  <2> QED BY <2>5, <2>6
<1> QED BY <1>2, <1>3 DEF Utf8Next

\* The invariant of to_utf8()'s loop, for every name.
THEOREM Utf8Inductive == Utf8Spec => []Utf8Inv
<1>1. Utf8Init => Utf8Inv
  BY Utf8InitInv
<1>2. Utf8Inv /\ [Utf8Next]_utf8Vars => Utf8Inv'
  BY Utf8Step
<1> QED BY <1>1, <1>2, PTL DEF Utf8Spec

\* Whatever the task's name, what the loop of to_utf8() has written is UTF-8
\* at every moment, and it stays inside the name.
THEOREM NamesBecomeUtf8 == Utf8Spec => []ResultIsUtf8
<1>1. Utf8Inv => ResultIsUtf8
  BY DEF Utf8Inv, ResultIsUtf8
<1> QED BY <1>1, Utf8Inductive, PTL

\* The loop of to_utf8() over bytes writes what the Unicode standard defines
\* over the set of well-formed sequences, for every name.
THEOREM ReplacementFollowsUnicode == Utf8Spec => []ReplacesAsRecommended
<1>1. Utf8Inv => ReplacesAsRecommended
  BY DEF Utf8Inv, ReplacesAsRecommended
<1> QED BY <1>1, Utf8Inductive, PTL

\* For every name, the loop of to_utf8() comes to an end: each iteration moves
\* on inside the name.
THEOREM TheLoopMovesOn == Utf8Spec => EveryIterationMovesOn
<1>1. Utf8Inv /\ [Utf8Next]_utf8Vars => [done' \/ offset' \in offset + 1 .. size]_utf8Vars
  BY MovingOn
<1> QED BY <1>1, Utf8Inductive, PTL DEF Utf8Spec, EveryIterationMovesOn
=============================================================================
