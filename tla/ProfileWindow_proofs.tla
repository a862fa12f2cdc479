------------------------- MODULE ProfileWindow_proofs -------------------------
(***************************************************************************)
(* The table of stacks and its index, and the account of all samples, for  *)
(* every number of cores, size of the rings and of the table, and set of   *)
(* samples; and of DrainTiming, the clocks of the same task: how many      *)
(* samples an export may cost, the length of the windows and the start     *)
(* they state, for every configuration.                                    *)
(***************************************************************************)
EXTENDS ProfileWindow, DrainTiming, SequenceTheorems, FiniteSetTheorems, TLAPS

-----------------------------------------------------------------------------
(* The key *)

\* A key is its front of three or four values, the name and the addresses.
Values == Nat \cup BOOLEAN
Three(s) == <<s.core, Len(s.pcs), s.has_span>>
Span(s)  == IF s.has_span THEN <<s.span>> ELSE <<>>
Front(s) == Three(s) \o Span(s)

LEMMA FrontFacts ==
    ASSUME NEW s \in Sample
    PROVE  /\ Front(s) \in Seq(Values)
           /\ Len(Front(s)) = IF s.has_span THEN 4 ELSE 3
           /\ Front(s)[1] = s.core /\ Front(s)[2] = Len(s.pcs) /\ Front(s)[3] = s.has_span
           /\ s.has_span => Front(s)[4] = s.span
<1>1. /\ s.core \in Values /\ Len(s.pcs) \in Values /\ s.has_span \in Values
      /\ s.span \in Values
  BY CoresAssumption DEF Sample, Values, Cores
<1>2. Three(s) \in Seq(Values) /\ Len(Three(s)) = 3
  BY <1>1 DEF Three
<1>3. Span(s) \in Seq(Values) /\ Len(Span(s)) = IF s.has_span THEN 1 ELSE 0
  BY <1>1 DEF Span
<1>4. /\ Front(s) \in Seq(Values)
      /\ Len(Front(s)) = Len(Three(s)) + Len(Span(s))
      /\ \A i \in 1 .. Len(Three(s)) + Len(Span(s)) :
            Front(s)[i] = IF i <= Len(Three(s)) THEN Three(s)[i]
                                                ELSE Span(s)[i - Len(Three(s))]
  BY <1>2, <1>3, ConcatProperties DEF Front
<1>5. s.has_span \in BOOLEAN
  BY DEF Sample
<1>6. /\ Front(s)[1] = Three(s)[1] /\ Front(s)[2] = Three(s)[2] /\ Front(s)[3] = Three(s)[3]
      /\ s.has_span => Front(s)[4] = Span(s)[1]
  BY <1>2, <1>3, <1>4, <1>5
<1>7. Len(Front(s)) = IF s.has_span THEN 4 ELSE 3
  BY <1>2, <1>3, <1>4, <1>5
<1> QED BY <1>4, <1>6, <1>7 DEF Three, Span

LEMMA ThreeParts ==
    ASSUME NEW S, NEW a \in Seq(S), NEW b \in Seq(S), NEW c \in Seq(S),
           NEW k, k = (a \o b) \o c
    PROVE  /\ Len(k) = Len(a) + Len(b) + Len(c)
           /\ \A i \in 1 .. Len(a) : k[i] = a[i]
           /\ \A i \in 1 .. Len(b) : k[Len(a) + i] = b[i]
           /\ \A i \in 1 .. Len(c) : k[Len(a) + Len(b) + i] = c[i]
<1>1. Len(a) \in Nat /\ Len(b) \in Nat /\ Len(c) \in Nat
  BY LenProperties
<1>2. PICK ab : ab = a \o b
  OBVIOUS
<1>3. /\ ab \in Seq(S) /\ Len(ab) = Len(a) + Len(b)
      /\ \A i \in 1 .. Len(a) + Len(b) :
            ab[i] = IF i <= Len(a) THEN a[i] ELSE b[i - Len(a)]
  BY <1>2, ConcatProperties, Zenon
<1>4. ab \in Seq(S)
  BY <1>3
<1>5. /\ Len(ab \o c) = Len(ab) + Len(c)
      /\ \A i \in 1 .. Len(ab) + Len(c) :
            (ab \o c)[i] = IF i <= Len(ab) THEN ab[i] ELSE c[i - Len(ab)]
  BY <1>4, ConcatProperties
<1>51. k = ab \o c
  BY <1>2
<1>6. \A i \in 1 .. Len(a) : k[i] = a[i]
  BY <1>1, <1>3, <1>5, <1>51
<1>7. \A i \in 1 .. Len(b) : k[Len(a) + i] = b[i]
  BY <1>1, <1>3, <1>5, <1>51
<1>8. \A i \in 1 .. Len(c) : k[Len(a) + Len(b) + i] = c[i]
  BY <1>1, <1>3, <1>5, <1>51
<1>9. Len(k) = Len(a) + Len(b) + Len(c)
  BY <1>1, <1>3, <1>5, <1>51
<1> QED BY <1>6, <1>7, <1>8, <1>9

LEMMA KeyFacts ==
    ASSUME NEW s \in Sample
    PROVE  /\ Len(Key(s)) = Len(Front(s)) + Len(s.name) + Len(s.pcs)
           /\ \A i \in 1 .. Len(Front(s)) : Key(s)[i] = Front(s)[i]
           /\ \A i \in 1 .. Len(s.name) : Key(s)[Len(Front(s)) + i] = s.name[i]
           /\ \A i \in 1 .. Len(s.pcs) :
                  Key(s)[Len(Front(s)) + Len(s.name) + i] = s.pcs[i]
<1>1. s.name \in Seq(Nat) /\ s.pcs \in Seq(Nat) /\ Nat \subseteq Values
  BY DEF Sample, Values
<1>2. s.name \in Seq(Values) /\ s.pcs \in Seq(Values) /\ Front(s) \in Seq(Values)
  BY <1>1, FrontFacts, SeqMonotonic
<1>3. Key(s) = (Front(s) \o s.name) \o s.pcs
  BY DEF Key, Front, Three, Span
<1>4. PICK f, n, q, k : f = Front(s) /\ n = s.name /\ q = s.pcs /\ k = Key(s)
  OBVIOUS
<1>5. /\ f \in Seq(Values) /\ n \in Seq(Values) /\ q \in Seq(Values)
      /\ k = (f \o n) \o q
  BY <1>2, <1>3, <1>4
<1>6. /\ Len(k) = Len(f) + Len(n) + Len(q)
      /\ \A i \in 1 .. Len(f) : k[i] = f[i]
      /\ \A i \in 1 .. Len(n) : k[Len(f) + i] = n[i]
      /\ \A i \in 1 .. Len(q) : k[Len(f) + Len(n) + i] = q[i]
  BY <1>5, ThreeParts, SMTT(60)
<1> QED BY <1>4, <1>6

\* The key tells two stacks apart exactly when they differ in core, task, span
\* or addresses: its parts have no separators, but the lengths at its front
\* leave only one way to read it, and neither what strlcpy() leaves after
\* the name nor a stale span is a part of it.
THEOREM KeyTellsStacksApart ==
    ASSUME NEW s \in Sample, NEW u \in Sample
    PROVE  Key(s) = Key(u) <=> Identity(s) = Identity(u)
<1>1. Identity(s) = Identity(u) <=>
        /\ s.core = u.core /\ s.name = u.name /\ s.pcs = u.pcs /\ Span(s) = Span(u)
  BY DEF Identity, Span
<1>2. Span(s) = Span(u) <=> s.has_span = u.has_span /\ (s.has_span => s.span = u.span)
  BY DEF Sample, Span
<1>3. ASSUME Identity(s) = Identity(u) PROVE Key(s) = Key(u)
  BY <1>1, <1>2, <1>3 DEF Key, Span
<1>4. ASSUME Key(s) = Key(u) PROVE Identity(s) = Identity(u)
  <2>1. /\ s.name \in Seq(Nat) /\ u.name \in Seq(Nat)
        /\ s.pcs \in Seq(Nat) /\ u.pcs \in Seq(Nat)
        /\ s.has_span \in BOOLEAN /\ u.has_span \in BOOLEAN
    BY DEF Sample
  <2>2. PICK fs, fu, k : fs = Front(s) /\ fu = Front(u) /\ k = Key(s) /\ k = Key(u)
    BY <1>4
  <2>3. /\ Len(fs) = (IF s.has_span THEN 4 ELSE 3)
        /\ Len(fu) = (IF u.has_span THEN 4 ELSE 3)
        /\ fs[1] = s.core /\ fs[2] = Len(s.pcs) /\ fs[3] = s.has_span
        /\ fu[1] = u.core /\ fu[2] = Len(u.pcs) /\ fu[3] = u.has_span
        /\ s.has_span => fs[4] = s.span
        /\ u.has_span => fu[4] = u.span
    BY <2>2, FrontFacts
  <2>4. /\ \A i \in 1 .. Len(fs) : k[i] = fs[i]
        /\ \A i \in 1 .. Len(fu) : k[i] = fu[i]
    <3>1. \A i \in 1 .. Len(Front(s)) : Key(s)[i] = Front(s)[i]
      BY KeyFacts
    <3>2. \A i \in 1 .. Len(Front(u)) : Key(u)[i] = Front(u)[i]
      BY KeyFacts
    <3> QED BY <2>2, <3>1, <3>2
  <2>5. s.core = u.core /\ Len(s.pcs) = Len(u.pcs) /\ s.has_span = u.has_span
    BY <2>1, <2>3, <2>4
  <2>6. PICK n \in Nat : n = Len(fs) /\ n = Len(fu)
    BY <2>1, <2>3, <2>5
  <2>7. s.has_span => s.span = u.span
    BY <2>1, <2>3, <2>4, <2>5
  <2>8. PICK m, p \in Nat : m = Len(s.name) /\ p = Len(s.pcs) /\ p = Len(u.pcs)
    BY <2>1, <2>5, LenProperties
  <2>9. Len(u.name) = m
    <3>1. Len(k) = n + m + p /\ Len(k) = n + Len(u.name) + p
      BY <2>2, <2>6, <2>8, KeyFacts
    <3>2. Len(u.name) \in Nat
      BY <2>1, LenProperties
    <3> QED BY <3>1, <3>2
  <2>10. \A i \in 1 .. m : s.name[i] = u.name[i]
    <3>1. \A i \in 1 .. m : k[n + i] = s.name[i]
      <4>1. \A i \in 1 .. Len(s.name) : Key(s)[Len(Front(s)) + i] = s.name[i]
        BY KeyFacts
      <4>2. Key(s) = k /\ Len(Front(s)) = n /\ Len(s.name) = m
        BY <2>2, <2>6, <2>8
      <4> QED BY <4>1, <4>2, Zenon
    <3>2. \A i \in 1 .. m : k[n + i] = u.name[i]
      <4>1. \A i \in 1 .. Len(u.name) : Key(u)[Len(Front(u)) + i] = u.name[i]
        BY KeyFacts
      <4>2. Key(u) = k /\ Len(Front(u)) = n /\ Len(u.name) = m
        BY <2>2, <2>6, <2>9
      <4> QED BY <4>1, <4>2, Zenon
    <3> QED BY <3>1, <3>2
  <2>11. \A i \in 1 .. p : s.pcs[i] = u.pcs[i]
    <3>1. \A i \in 1 .. p : k[n + m + i] = s.pcs[i]
      <4>1. \A i \in 1 .. Len(s.pcs) : Key(s)[Len(Front(s)) + Len(s.name) + i] = s.pcs[i]
        BY KeyFacts
      <4>2. Key(s) = k /\ Len(Front(s)) = n /\ Len(s.name) = m /\ Len(s.pcs) = p
        BY <2>2, <2>6, <2>8
      <4> QED BY <4>1, <4>2, Zenon
    <3>2. \A i \in 1 .. p : k[n + m + i] = u.pcs[i]
      <4>1. \A i \in 1 .. Len(u.pcs) : Key(u)[Len(Front(u)) + Len(u.name) + i] = u.pcs[i]
        BY KeyFacts
      <4>2. Key(u) = k /\ Len(Front(u)) = n /\ Len(u.name) = m /\ Len(u.pcs) = p
        BY <2>2, <2>6, <2>8, <2>9
      <4> QED BY <4>1, <4>2, Zenon
    <3> QED BY <3>1, <3>2
  <2>12. s.name = u.name
    BY <2>1, <2>8, <2>9, <2>10, SeqEqual
  <2>13. s.pcs = u.pcs
    BY <2>1, <2>8, <2>11, SeqEqual
  <2> QED BY <1>1, <1>2, <2>5, <2>7, <2>12, <2>13
<1> QED BY <1>3, <1>4

-----------------------------------------------------------------------------
(* The inductive invariant *)

Entry == [sample : Sample, count : Nat \ {0}]

\* The sampler's side; the export task's snapshot never exceeds the ring.
Sampling ==
    /\ armed \subseteq Cores
    /\ total \in [Cores -> Nat] /\ uncounted \subseteq armed
    /\ \A c \in Cores : Published[c] <= interrupts
    /\ queue \in [Cores -> Seq(Sample)] /\ \A c \in Cores : Len(queue[c]) <= RingBound
    /\ interrupts \in 0 .. MaxInterrupts
    /\ task \in {"delay", "drain", "check", "publish", "reset"}
    /\ core \in Cores /\ left \in Nat /\ left <= Len(queue[core])

Tables ==
    /\ agg \in Seq(Entry) /\ Len(agg) <= MaxUniqueStacks
    /\ window \in Seq(Sample) /\ leftOut \in Nat

\* How often a stack occurs among the samples w.
OccursIn(w, s) == Cardinality({k \in 1 .. Len(w) : Identity(w[k]) = Identity(s)})

\* The three parts of TableCountsStacks.
Exact   == \A i \in 1 .. Len(agg) : agg[i].count = OccursIn(window, agg[i].sample)
Distinct == \A i, j \in 1 .. Len(agg) :
                Identity(agg[i].sample) = Identity(agg[j].sample) => i = j
Complete == \A k \in 1 .. Len(window) :
                \/ Len(agg) = MaxUniqueStacks
                \/ \E i \in 1 .. Len(agg) : Identity(agg[i].sample) = Identity(window[k])

IInv == Sampling /\ Tables /\ IndexMatchesTable /\ Exact /\ Distinct /\ Complete

tablevars == <<agg, index, window, leftOut>>

-----------------------------------------------------------------------------
(* aggregate() *)

Holds(i, s) == i \in 1 .. Len(agg) /\ Identity(agg[i].sample) = Identity(s)

LEMMA EntriesHoldSamples ==
    ASSUME Tables
    PROVE  \A i \in 1 .. Len(agg) :
               agg[i] \in Entry /\ agg[i].sample \in Sample /\ agg[i].count \in Nat \ {0}
<1>1. \A i \in 1 .. Len(agg) : agg[i] \in Entry
  BY ElementOfSeq DEF Tables
<1> QED BY <1>1 DEF Entry

\* aggregate() either counts the one entry of the stack, or finds the table full,
\* or adds an entry behind the last.
LEMMA AggregateCases ==
    ASSUME Tables, IndexMatchesTable, NEW s \in Sample, Aggregate(s)
    PROVE  \/ \E i \in 1 .. Len(agg) :
                 /\ Holds(i, s) /\ index' = index
                 /\ agg' = [agg EXCEPT ![i].count = @ + 1]
           \/ /\ \A i \in 1 .. Len(agg) : ~Holds(i, s)
              /\ Len(agg) = MaxUniqueStacks /\ agg' = agg /\ index' = index
           \/ /\ \A i \in 1 .. Len(agg) : ~Holds(i, s)
              /\ Len(agg) < MaxUniqueStacks
              /\ agg' = Append(agg, [sample |-> s, count |-> 1])
              /\ index' = index \cup {<<Key(s), Len(agg) + 1>>}
<1>1. \A i \in 1 .. Len(agg) : agg[i].sample \in Sample
  BY EntriesHoldSamples
<1>2. \A i \in 1 .. Len(agg) : Key(agg[i].sample) = Key(s) <=> Holds(i, s)
  BY <1>1, KeyTellsStacksApart DEF Holds
<1>3. CASE Found(s) # {}
  <2>1. PICK e \in Found(s) : agg' = [agg EXCEPT ![e[2]].count = @ + 1] /\ index' = index
    BY <1>3 DEF Aggregate
  <2>2. PICK i \in 1 .. Len(agg) : e = <<Key(agg[i].sample), i>>
    BY <2>1 DEF Found, IndexMatchesTable
  <2>3. Holds(i, s) /\ e[2] = i
    BY <1>2, <2>1, <2>2 DEF Found
  <2> QED BY <2>1, <2>3
<1>4. CASE Found(s) = {}
  <2>1. \A i \in 1 .. Len(agg) : ~Holds(i, s)
    <3> SUFFICES ASSUME NEW i \in 1 .. Len(agg), Holds(i, s) PROVE FALSE
      OBVIOUS
    <3>1. <<Key(agg[i].sample), i>> \in index
      BY DEF IndexMatchesTable
    <3>2. Key(agg[i].sample) = Key(s)
      BY <1>2
    <3>3. <<Key(agg[i].sample), i>> \in Found(s)
      BY <3>1, <3>2 DEF Found
    <3> QED BY <1>4, <3>3
  <2>2. Len(agg) \in Nat
    BY LenProperties DEF Tables
  <2>3. CASE Len(agg) >= MaxUniqueStacks
    BY <1>4, <2>1, <2>2, <2>3, BoundsAssumption DEF Aggregate, Tables, table
  <2>4. CASE Len(agg) < MaxUniqueStacks
    BY <1>4, <2>1, <2>2, <2>4, BoundsAssumption DEF Aggregate
  <2> QED BY <2>2, <2>3, <2>4, BoundsAssumption
<1> QED BY <1>3, <1>4

\* A sample drained into the window is one more occurrence of its stack alone.
LEMMA OneMore ==
    ASSUME Tables, NEW h \in Sample, window' = Append(window, h)
    PROVE  \A s \in Sample : OccursIn(window', s) = IF Identity(h) = Identity(s)
                                              THEN OccursIn(window, s) + 1 ELSE OccursIn(window, s)
<1> SUFFICES ASSUME NEW s \in Sample
             PROVE  OccursIn(window', s) = IF Identity(h) = Identity(s)
                                        THEN OccursIn(window, s) + 1 ELSE OccursIn(window, s)
  OBVIOUS
<1> DEFINE n == Len(window)
           K == {k \in 1 .. n : Identity(window[k]) = Identity(s)}
           L == {k \in 1 .. n + 1 : Identity(window'[k]) = Identity(s)}
<1>1. n \in Nat /\ Len(window') = n + 1 /\ window'[n + 1] = h
      /\ \A k \in 1 .. n : window'[k] = window[k]
  BY DEF Tables
<1>2. IsFiniteSet(K) /\ n + 1 \notin K
  <2>1. IsFiniteSet(1 .. n)
    BY <1>1, FS_Interval
  <2> QED BY <1>1, <2>1, FS_Subset
<1>3. OccursIn(window, s) = Cardinality(K) /\ OccursIn(window', s) = Cardinality(L)
  BY <1>1 DEF OccursIn, Identity
<1>4. CASE Identity(h) = Identity(s)
  <2>1. L = K \cup {n + 1}
    BY <1>1, <1>4
  <2> HIDE DEF K, L
  <2> QED BY <1>2, <1>3, <1>4, <2>1, FS_AddElement
<1>5. CASE Identity(h) # Identity(s)
  <2>1. L = K
    BY <1>1, <1>5
  <2> HIDE DEF K, L
  <2> QED BY <1>3, <1>5, <2>1
<1> QED BY <1>4, <1>5

\* A stack that is not in a table with room has not occurred in the window.
LEMMA NothingYet ==
    ASSUME IInv, NEW h \in Sample, \A i \in 1 .. Len(agg) : ~Holds(i, h),
           Len(agg) < MaxUniqueStacks
    PROVE  OccursIn(window, h) = 0
<1>1. \A k \in 1 .. Len(window) : Identity(window[k]) # Identity(h)
  <2> SUFFICES ASSUME NEW k \in 1 .. Len(window), Identity(window[k]) = Identity(h)
               PROVE  FALSE
    OBVIOUS
  <2>1. Len(agg) # MaxUniqueStacks
    BY BoundsAssumption, LenProperties DEF IInv, Tables
  <2>2. PICK i \in 1 .. Len(agg) : Identity(agg[i].sample) = Identity(window[k])
    BY <2>1 DEF IInv, Complete
  <2> QED BY <2>2 DEF Holds
<1>2. {k \in 1 .. Len(window) : Identity(window[k]) = Identity(h)} = {}
  BY <1>1
<1> QED BY <1>2, FS_EmptySet DEF OccursIn

\* Draining a sample keeps the table, its index and the window in step.
LEMMA DrainKeepsTable ==
    ASSUME IInv, NEW h \in Sample, Aggregate(h), window' = Append(window, h),
           leftOut' \in Nat
    PROVE  Tables' /\ IndexMatchesTable' /\ Exact' /\ Distinct' /\ Complete'
<1> DEFINE n == Len(agg)
           one == [sample |-> h, count |-> 1]
<1>1. /\ Tables /\ IndexMatchesTable /\ n \in Nat /\ agg \in Seq(Entry)
      /\ window \in Seq(Sample) /\ window' \in Seq(Sample)
  BY LenProperties DEF IInv, Tables
<1>2. \A i \in 1 .. n :
        agg[i] \in Entry /\ agg[i].sample \in Sample /\ agg[i].count \in Nat \ {0}
  BY <1>1, EntriesHoldSamples
<1>3. \A s \in Sample : OccursIn(window', s) = IF Identity(h) = Identity(s)
                                          THEN OccursIn(window, s) + 1 ELSE OccursIn(window, s)
  BY <1>1, OneMore
<1>4. /\ Len(window) \in Nat /\ Len(window') = Len(window) + 1
      /\ window'[Len(window) + 1] = h
      /\ \A k \in 1 .. Len(window) : window'[k] = window[k]
  BY <1>1
<1>5. CASE \E i \in 1 .. n : /\ Holds(i, h) /\ index' = index
                            /\ agg' = [agg EXCEPT ![i].count = @ + 1]
  <2>1. PICK i \in 1 .. n : /\ Holds(i, h) /\ index' = index
                            /\ agg' = [agg EXCEPT ![i].count = @ + 1]
    BY <1>5
  <2> DEFINE e == [agg[i] EXCEPT !.count = @ + 1]
  <2>2. e \in Entry /\ e.sample = agg[i].sample /\ e.count = agg[i].count + 1
    BY <1>2 DEF Entry
  <2>3. agg' = [agg EXCEPT ![i] = e]
    BY <2>1
  <2>4. /\ agg' \in Seq(Entry) /\ Len(agg') = n
        /\ \A j \in 1 .. n : agg'[j] = IF j = i THEN e ELSE agg[j]
    <3> HIDE DEF e
    <3> QED BY <1>1, <2>2, <2>3, ExceptSeq
  <2>5. \A j \in 1 .. n : /\ agg'[j].sample = agg[j].sample
                          /\ agg'[j].count = IF j = i THEN agg[j].count + 1 ELSE agg[j].count
    BY <2>2, <2>4
  <2> HIDE DEF e
  <2>6. Tables'
    BY <1>1, <2>4 DEF Tables
  <2>7. IndexMatchesTable'
    BY <1>1, <2>1, <2>4, <2>5 DEF IndexMatchesTable, Key
  <2>8. \A j \in 1 .. n : Identity(agg[j].sample) = Identity(h) <=> j = i
    BY <2>1 DEF Holds, IInv, Distinct
  <2>9. Exact'
    <3> SUFFICES ASSUME NEW j \in 1 .. n
                 PROVE  agg'[j].count = OccursIn(window', agg'[j].sample)
      BY <2>4 DEF Exact
    <3>1. agg[j].count = OccursIn(window, agg[j].sample)
      BY DEF IInv, Exact
    <3>2. OccursIn(window', agg[j].sample) =
            IF j = i THEN OccursIn(window, agg[j].sample) + 1 ELSE OccursIn(window, agg[j].sample)
      BY <1>2, <1>3, <2>8
    <3> QED BY <2>5, <3>1, <3>2
  <2>10. Distinct'
    <3>1. \A j \in 1 .. n : Identity(agg'[j].sample) = Identity(agg[j].sample)
      BY <2>5
    <3>2. Distinct /\ Len(agg') = n
      BY <2>4 DEF IInv
    <3> QED BY <3>1, <3>2 DEF Distinct
  <2>11. Complete'
    <3> SUFFICES ASSUME NEW k \in 1 .. Len(window) + 1
                 PROVE  \/ Len(agg') = MaxUniqueStacks
                        \/ \E j \in 1 .. n : Identity(agg'[j].sample) = Identity(window'[k])
      BY <1>4, <2>4 DEF Complete, Identity
    <3>1. CASE k = Len(window) + 1
      BY <1>4, <2>1, <2>5, <3>1 DEF Holds
    <3>2. CASE k \in 1 .. Len(window)
      BY <1>4, <2>4, <2>5, <3>2 DEF IInv, Complete
    <3> QED BY <1>4, <3>1, <3>2
  <2> QED BY <2>6, <2>7, <2>9, <2>10, <2>11
<1>6. CASE /\ \A i \in 1 .. n : ~Holds(i, h)
           /\ n = MaxUniqueStacks /\ agg' = agg /\ index' = index
  <2>1. Tables' /\ IndexMatchesTable'
    BY <1>1, <1>6 DEF Tables, IndexMatchesTable, Key
  <2>2. Distinct'
    BY <1>6 DEF IInv, Distinct
  <2>3. Complete'
    BY <1>6 DEF Complete
  <2>4. Exact'
    <3> SUFFICES ASSUME NEW j \in 1 .. n
                 PROVE  agg'[j].count = OccursIn(window', agg'[j].sample)
      BY <1>6 DEF Exact
    <3>1. agg[j].count = OccursIn(window, agg[j].sample)
      BY DEF IInv, Exact
    <3>2. OccursIn(window', agg[j].sample) = OccursIn(window, agg[j].sample)
      BY <1>2, <1>3, <1>6 DEF Holds
    <3> QED BY <1>6, <3>1, <3>2
  <2> QED BY <2>1, <2>2, <2>3, <2>4
<1>7. CASE /\ \A i \in 1 .. n : ~Holds(i, h)
           /\ n < MaxUniqueStacks /\ agg' = Append(agg, one)
           /\ index' = index \cup {<<Key(h), n + 1>>}
  <2>1. one \in Entry /\ one.sample = h /\ one.count = 1
    BY DEF Entry
  <2>2. /\ agg' \in Seq(Entry) /\ Len(agg') = n + 1 /\ agg'[n + 1] = one
        /\ \A j \in 1 .. n : agg'[j] = agg[j]
    <3> HIDE DEF one
    <3> QED BY <1>1, <1>7, <2>1
  <2> HIDE DEF one
  <2>3. Tables'
    BY <1>1, <1>7, <2>2, BoundsAssumption DEF Tables
  <2>4. IndexMatchesTable'
    <3>1. index = {<<Key(agg[j].sample), j>> : j \in 1 .. n}
      BY <1>1 DEF IndexMatchesTable
    <3>2. {<<Key(agg'[j].sample), j>> : j \in 1 .. n + 1}
            = {<<Key(agg'[j].sample), j>> : j \in 1 .. n} \cup {<<Key(agg'[n + 1].sample), n + 1>>}
      <4> DEFINE pair(j) == <<Key(agg'[j].sample), j>>
      <4>1. 1 .. n + 1 = (1 .. n) \cup {n + 1}
        BY <1>1
      <4> HIDE DEF pair
      <4>2. {pair(j) : j \in 1 .. n + 1} = {pair(j) : j \in 1 .. n} \cup {pair(n + 1)}
        BY <4>1
      <4> QED BY <4>2 DEF pair
    <3>3. {<<Key(agg'[j].sample), j>> : j \in 1 .. n} = {<<Key(agg[j].sample), j>> : j \in 1 .. n}
      BY <2>2
    <3>4. Key(agg'[n + 1].sample) = Key(h)
      BY <2>1, <2>2
    <3> QED BY <1>7, <2>2, <3>1, <3>2, <3>3, <3>4 DEF IndexMatchesTable, Key
  <2>5. Exact'
    <3> SUFFICES ASSUME NEW j \in 1 .. n + 1
                 PROVE  agg'[j].count = OccursIn(window', agg'[j].sample)
      BY <2>2 DEF Exact
    <3>1. CASE j \in 1 .. n
      <4>1. agg[j].count = OccursIn(window, agg[j].sample)
        BY <3>1 DEF IInv, Exact
      <4>2. OccursIn(window', agg[j].sample) = OccursIn(window, agg[j].sample)
        BY <1>2, <1>3, <1>7, <3>1 DEF Holds
      <4> QED BY <2>2, <3>1, <4>1, <4>2
    <3>2. CASE j = n + 1
      <4>1. OccursIn(window', h) = OccursIn(window, h) + 1
        BY <1>3
      <4>2. OccursIn(window, h) = 0
        BY <1>1, <1>7, NothingYet
      <4> QED BY <2>1, <2>2, <3>2, <4>1, <4>2
    <3> QED BY <1>1, <3>1, <3>2
  <2>6. Distinct'
    <3> SUFFICES ASSUME NEW i \in 1 .. n + 1, NEW j \in 1 .. n + 1,
                        Identity(agg'[i].sample) = Identity(agg'[j].sample)
                 PROVE  i = j
      BY <2>2 DEF Distinct
    <3>1. CASE i \in 1 .. n /\ j \in 1 .. n
      BY <2>2, <3>1 DEF IInv, Distinct
    <3>2. ASSUME NEW k \in 1 .. n PROVE Identity(agg'[k].sample) # Identity(h)
      BY <1>7, <2>2 DEF Holds
    <3>3. Identity(agg'[n + 1].sample) = Identity(h)
      BY <2>1, <2>2
    <3>4. CASE i = n + 1
      BY <1>1, <3>2, <3>3, <3>4
    <3>5. CASE j = n + 1
      BY <1>1, <3>2, <3>3, <3>5
    <3> QED BY <1>1, <3>1, <3>4, <3>5
  <2>7. Complete'
    <3> SUFFICES ASSUME NEW k \in 1 .. Len(window) + 1
                 PROVE  \/ Len(agg') = MaxUniqueStacks
                        \/ \E j \in 1 .. n + 1 :
                              Identity(agg'[j].sample) = Identity(window'[k])
      BY <1>4, <2>2 DEF Complete, Identity
    <3>1. CASE k = Len(window) + 1
      BY <1>1, <1>4, <2>1, <2>2, <3>1
    <3>2. CASE k \in 1 .. Len(window)
      <4>0. Complete /\ Len(agg) # MaxUniqueStacks
        <5>1. n < MaxUniqueStacks /\ n \in Nat /\ MaxUniqueStacks \in Nat
          BY <1>1, <1>7, BoundsAssumption
        <5> QED BY <5>1 DEF IInv
      <4>1. PICK j \in 1 .. n : Identity(agg[j].sample) = Identity(window[k])
        BY <3>2, <4>0 DEF Complete
      <4>2. window'[k] = window[k] /\ agg'[j] = agg[j] /\ j \in 1 .. n + 1
        BY <1>1, <1>4, <2>2, <3>2
      <4> QED BY <4>1, <4>2
    <3> QED BY <1>4, <3>1, <3>2
  <2> QED BY <2>3, <2>4, <2>5, <2>6, <2>7
<1> QED BY <1>1, <1>5, <1>6, <1>7, AggregateCases

-----------------------------------------------------------------------------
LEMMA InitIInv == Init => IInv
<1> SUFFICES ASSUME Init PROVE IInv
  OBVIOUS
<1> USE CoresAssumption, BoundsAssumption DEF Init, Cores
<1>1. Sampling
  BY DEF Sampling, Published
<1>2. Tables
  BY DEF Tables
<1>3. IndexMatchesTable /\ Exact /\ Distinct /\ Complete
  BY DEF IndexMatchesTable, Exact, Distinct, Complete
<1> QED BY <1>1, <1>2, <1>3 DEF IInv

\* What leaves the table and the window alone keeps what is said of them.
LEMMA TableUnchanged ==
    ASSUME IInv, UNCHANGED tablevars
    PROVE  Tables' /\ IndexMatchesTable' /\ Exact' /\ Distinct' /\ Complete'
<1>1. agg' = agg /\ index' = index /\ window' = window /\ leftOut' = leftOut
  BY DEF tablevars
<1>2. Tables'
  BY <1>1 DEF IInv, Tables
<1>3. IndexMatchesTable'
  BY <1>1 DEF IInv, IndexMatchesTable, Key
<1>4. Exact'
  BY <1>1 DEF IInv, Exact
<1>5. Distinct' /\ Complete'
  BY <1>1 DEF IInv, Distinct, Complete
<1> QED BY <1>2, <1>3, <1>4, <1>5

LEMMA NextIInv == IInv /\ [Next]_vars => IInv'
<1> SUFFICES ASSUME IInv, [Next]_vars PROVE IInv'
  OBVIOUS
<1> USE CoresAssumption, BoundsAssumption
<1>0. \A c \in Cores : Len(queue[c]) \in Nat /\ queue[c] \in Seq(Sample)
  BY LenProperties DEF IInv, Sampling
<1>1. ASSUME NEW c \in Cores, ArmTimer(c) PROVE IInv'
  <2>1. Sampling'
    BY <1>1 DEF ArmTimer, IInv, Sampling, Published
  <2> QED BY <1>1, <2>1, TableUnchanged DEF ArmTimer, table, tablevars, IInv
<1>2. ASSUME NEW c \in Cores, Interrupt(c) PROVE IInv'
  <2>1. CASE Len(queue[c]) < RingBound
    <3>1. PICK s \in SamplesOf(c) : queue' = [queue EXCEPT ![c] = Append(@, s)]
      BY <1>2, <2>1 DEF Interrupt
    <3>2. s \in Sample
      BY <3>1, SamplesAssumption
    <3>3. /\ Append(queue[c], s) \in Seq(Sample)
          /\ Len(Append(queue[c], s)) = Len(queue[c]) + 1
      BY <1>0, <3>2
    <3>4. /\ queue' \in [Cores -> Seq(Sample)]
          /\ \A d \in Cores : Len(queue'[d]) <= RingBound /\ Len(queue[d]) <= Len(queue'[d])
      <4> DEFINE q == Append(queue[c], s)
      <4>1. queue' = [queue EXCEPT ![c] = q]
        BY <3>1
      <4> HIDE DEF q
      <4> QED BY <1>0, <2>1, <3>3, <4>1 DEF IInv, Sampling, q
    <3>5. total' \in [Cores -> Nat] /\ \A d \in Cores : Published'[d] <= interrupts'
      <4>1. /\ total' = total /\ interrupts' = interrupts + 1
            /\ uncounted' = uncounted \cup {c} /\ c \notin uncounted
        BY <1>2, <2>1 DEF Interrupt
      <4>2. /\ total \in [Cores -> Nat] /\ \A d \in Cores : Published[d] <= interrupts
            /\ interrupts \in Nat
        BY DEF IInv, Sampling
      <4>3. ASSUME NEW d \in Cores PROVE Published'[d] <= interrupts'
        <5>1. total[d] \in Nat /\ Published[d] <= interrupts
          BY <4>2
        <5> QED BY <4>1, <4>2, <5>1 DEF Published
      <4> QED BY <4>1, <4>2, <4>3
    <3>6. interrupts' \in 0 .. MaxInterrupts
      BY <1>2 DEF Interrupt, IInv, Sampling
    <3>7. /\ core' \in Cores /\ left' \in Nat /\ left' <= Len(queue'[core'])
          /\ armed' \subseteq Cores /\ uncounted' \subseteq armed'
          /\ task' \in {"delay", "drain", "check", "publish", "reset"}
      <4>1. /\ UNCHANGED <<armed, task, core, left>> /\ core \in Cores /\ left \in Nat
            /\ left <= Len(queue[core]) /\ Len(queue[core]) <= Len(queue'[core])
            /\ Len(queue[core]) \in Nat /\ Len(queue'[core]) \in Nat
        BY <1>0, <1>2, <3>4, LenProperties DEF Interrupt, IInv, Sampling
      <4>2. uncounted' \subseteq armed'
        BY <1>2, <2>1 DEF Interrupt, IInv, Sampling
      <4> QED BY <4>1, <4>2 DEF IInv, Sampling
    <3>8. Sampling'
      BY <3>4, <3>5, <3>6, <3>7 DEF Sampling
    <3> QED BY <1>2, <3>8, TableUnchanged DEF Interrupt, table, tablevars, IInv
  <2>2. CASE ~(Len(queue[c]) < RingBound)
    <3>1. Sampling'
      BY <1>2, <2>2 DEF Interrupt, IInv, Sampling, Published
    <3> QED BY <1>2, <3>1, TableUnchanged DEF Interrupt, table, tablevars, IInv
  <2> QED BY <2>1, <2>2
<1>3. CASE BeginDrain
  <2>1. 0 \in Cores
    BY DEF Cores
  <2>2. Sampling'
    BY <1>0, <1>3, <2>1 DEF BeginDrain, sampler, IInv, Sampling, Published
  <2> QED BY <1>3, <2>2, TableUnchanged DEF BeginDrain, table, tablevars, IInv
<1>4. CASE DrainOne
  <2> DEFINE q == queue[core]
  <2>1. core \in Cores /\ q \in Seq(Sample) /\ Len(q) \in Nat /\ 0 < left /\ left <= Len(q)
        /\ Len(q) <= RingBound
    BY <1>0, <1>4 DEF DrainOne, IInv, Sampling
  <2>2. q # <<>>
    <3>1. q = <<>> => Len(q) = 0
      BY EmptySeq
    <3> QED BY <2>1, <3>1 DEF IInv, Sampling
  <2>3. Head(q) \in Sample /\ Tail(q) \in Seq(Sample) /\ Len(Tail(q)) = Len(q) - 1
    BY <2>1, <2>2, HeadTailProperties
  <2>4. /\ queue' = [queue EXCEPT ![core] = Tail(q)]
        /\ Aggregate(Head(q)) /\ window' = Append(window, Head(q))
        /\ left' = left - 1
        /\ UNCHANGED <<armed, total, uncounted, task, core, interrupts>>
        /\ leftOut' \in Nat
    BY <1>4 DEF DrainOne, IInv, Tables
  <2> HIDE DEF q
  <2>5. Tables' /\ IndexMatchesTable' /\ Exact' /\ Distinct' /\ Complete'
    BY <2>3, <2>4, DrainKeepsTable
  <2>6. /\ queue' \in [Cores -> Seq(Sample)] /\ queue'[core] = Tail(q)
        /\ \A d \in Cores : Len(queue'[d]) <= RingBound
    BY <2>1, <2>3, <2>4 DEF IInv, Sampling
  <2>7. left' \in Nat /\ left' <= Len(queue'[core])
    BY <2>1, <2>3, <2>4, <2>6 DEF IInv, Sampling
  <2>8. Sampling'
    BY <2>4, <2>6, <2>7 DEF IInv, Sampling, Published
  <2> QED BY <2>5, <2>8 DEF IInv
<1>5. CASE NextCore
  <2>1. Sampling'
    <3>1. CASE core + 1 < NumCores
      <4>1. core + 1 \in Cores
        BY <3>1 DEF IInv, Sampling, Cores
      <4> QED BY <1>0, <1>5, <3>1, <4>1 DEF NextCore, sampler, IInv, Sampling, Published
    <3>2. CASE ~(core + 1 < NumCores)
      BY <1>5, <3>2 DEF NextCore, sampler, IInv, Sampling, Published
    <3> QED BY <3>1, <3>2
  <2> QED BY <1>5, <2>1, TableUnchanged DEF NextCore, table, tablevars, IInv
<1>6. CASE WindowContinues
  <2>1. Sampling'
    BY <1>6 DEF WindowContinues, sampler, IInv, Sampling, Published
  <2> QED BY <1>6, <2>1, TableUnchanged DEF WindowContinues, table, tablevars, IInv
<1>7. CASE WindowEnds
  <2>1. Sampling'
    BY <1>7 DEF WindowEnds, sampler, IInv, Sampling, Published
  <2> QED BY <1>7, <2>1, TableUnchanged DEF WindowEnds, table, tablevars, IInv
<1>8. CASE Publish
  <2>1. Sampling'
    BY <1>8 DEF Publish, sampler, IInv, Sampling, Published
  <2> QED BY <1>8, <2>1, TableUnchanged DEF Publish, table, tablevars, IInv
<1>9. CASE Reset
  <2>1. Sampling'
    BY <1>9 DEF Reset, sampler, IInv, Sampling, Published
  <2>2. Tables'
    BY <1>9 DEF Reset, IInv, Tables
  <2>3. IndexMatchesTable' /\ Exact' /\ Distinct' /\ Complete'
    BY <1>9 DEF Reset, IndexMatchesTable, Exact, Distinct, Complete
  <2> QED BY <2>1, <2>2, <2>3 DEF IInv
<1>10. CASE UNCHANGED vars
  <2>1. Sampling'
    BY <1>10 DEF vars, sampler, IInv, Sampling, Published
  <2> QED BY <1>10, <2>1, TableUnchanged DEF vars, table, tablevars, IInv
<1>11. ASSUME NEW c \in Cores, Count(c) PROVE IInv'
  <2>1. /\ total' = [total EXCEPT ![c] = @ + 1] /\ uncounted' = uncounted \ {c} /\ c \in uncounted
        /\ UNCHANGED <<armed, queue, interrupts, task, core, left>>
        /\ total \in [Cores -> Nat] /\ uncounted \subseteq armed
    BY <1>11 DEF Count, IInv, Sampling
  <2>2. total' \in [Cores -> Nat] /\ Published' = Published
    <3>1. \A d \in Cores : total[d] \in Nat
      BY <2>1
    <3> QED BY <2>1, <3>1 DEF Published
  <2>3. Sampling'
    BY <2>1, <2>2 DEF IInv, Sampling
  <2> QED BY <1>11, <2>3, TableUnchanged DEF Count, table, tablevars, IInv
<1> QED BY <1>1, <1>2, <1>11, <1>3, <1>4, <1>5, <1>6, <1>7, <1>8, <1>9, <1>10 DEF Next, ExportTask

\* The invariant that ties the table to its index and to the samples drained in
\* the window.
THEOREM Inductive == Spec => []IInv
<1>1. Init => IInv
  BY InitIInv
<1>2. IInv /\ [Next]_vars => IInv'
  BY NextIInv
<1> QED BY <1>1, <1>2, PTL DEF Spec

\* aggregate() always writes within the table, at the entry of the stack it is
\* given, however windows, drains and a full table follow each other.
THEOREM IndexIsExact == Spec => []IndexMatchesTable
<1>1. IInv => IndexMatchesTable
  BY DEF IInv
<1> QED BY <1>1, Inductive, PTL

\* Every document counts each stack of its window exactly, in one entry, and
\* leaves one out only when the table is full.
THEOREM TableIsExact == Spec => []TableCountsStacks
<1>1. IInv => TableCountsStacks
  <2> SUFFICES ASSUME IInv PROVE TableCountsStacks
    OBVIOUS
  <2>1. TypeOK
    <3>1. \A i \in 1 .. Len(agg) : agg[i].count \in Nat \ {0}
      BY EntriesHoldSamples DEF IInv
    <3>2. left \in 0 .. RingBound
      <4>1. Len(queue[core]) \in Nat
        BY LenProperties DEF IInv, Sampling
      <4> QED BY <4>1, BoundsAssumption DEF IInv, Sampling
    <3>3. total \in [Cores -> 0 .. MaxInterrupts]
      <4>1. \A d \in Cores : total[d] \in Nat /\ Published[d] <= interrupts
        BY DEF IInv, Sampling
      <4> QED BY <4>1, BoundsAssumption DEF IInv, Sampling, Published
    <3> QED BY <3>1, <3>2, <3>3 DEF TypeOK, IInv, Sampling, Tables
  <2>2. \A i \in 1 .. Len(agg) : agg[i].count = Occurrences(agg[i].sample)
    BY DEF IInv, Exact, OccursIn, Occurrences
  <2> QED BY <2>1, <2>2 DEF TableCountsStacks, IInv, Distinct, Complete
<1> QED BY <1>1, Inductive, PTL

-----------------------------------------------------------------------------
(* Every sample is somewhere *)

\* That the units of a sum are finitely many is a part of the invariant: each
\* step adds or takes one, so that nothing is counted up over cores or entries.

\* g is f with one more at x, which may be new to it.
Increment(f, g, x) ==
    /\ DOMAIN g = DOMAIN f \cup {x}
    /\ \A y \in DOMAIN f : f[y] \in Nat
    /\ \A y \in DOMAIN f \ {x} : g[y] = f[y]
    /\ g[x] = IF x \in DOMAIN f THEN f[x] + 1 ELSE 1

LEMMA UnitsOf ==
    ASSUME NEW f, NEW u
    PROVE  u \in Units(f) <=> \E y \in DOMAIN f : \E n \in 1 .. f[y] : u = <<y, n>>
<1>1. u \in Units(f) <=> \E y \in DOMAIN f : u \in {y} \X (1 .. f[y])
  BY DEF Units
<1>2. ASSUME NEW y \in DOMAIN f
      PROVE  u \in {y} \X (1 .. f[y]) <=> \E n \in 1 .. f[y] : u = <<y, n>>
  <2> DEFINE N == 1 .. f[y]
  <2> HIDE DEF N
  <2>1. u \in {y} \X N <=> \E n \in N : u = <<y, n>>
    OBVIOUS
  <2> QED BY <2>1 DEF N
<1> QED BY <1>1, <1>2

LEMMA OneMoreUnit ==
    ASSUME NEW f, NEW g, NEW x, Increment(f, g, x)
    PROVE  Units(g) = Units(f) \cup {<<x, g[x]>>} /\ <<x, g[x]>> \notin Units(f)
<1>1. ASSUME NEW u \in Units(g) PROVE u \in Units(f) \cup {<<x, g[x]>>}
  <2>1. PICK y \in DOMAIN g : \E n \in 1 .. g[y] : u = <<y, n>>
    BY UnitsOf
  <2>2. PICK n \in 1 .. g[y] : u = <<y, n>>
    BY <2>1
  <2>3. (y = x /\ n = g[x]) \/ (y \in DOMAIN f /\ n \in 1 .. f[y])
    <3>1. CASE y # x
      BY <2>1, <2>2, <3>1 DEF Increment
    <3>2. CASE y = x /\ x \in DOMAIN f
      <4>1. f[x] \in Nat /\ g[x] = f[x] + 1
        BY <3>2 DEF Increment
      <4>2. n \in 1 .. f[x] + 1
        BY <2>2, <3>2, <4>1
      <4>3. n = f[x] + 1 \/ n \in 1 .. f[x]
        BY <4>1, <4>2
      <4> QED BY <3>2, <4>1, <4>3
    <3>3. CASE y = x /\ x \notin DOMAIN f
      <4>1. g[x] = 1
        BY <3>3 DEF Increment
      <4>2. n \in 1 .. 1
        BY <2>2, <3>3, <4>1
      <4>3. n = 1
        BY <4>2
      <4> QED BY <3>3, <4>1, <4>3
    <3> QED BY <3>1, <3>2, <3>3
  <2> QED BY <2>2, <2>3, UnitsOf
<1>2. ASSUME NEW u \in Units(f) PROVE u \in Units(g) /\ u # <<x, g[x]>>
  <2>1. PICK y \in DOMAIN f : \E n \in 1 .. f[y] : u = <<y, n>>
    BY UnitsOf
  <2>2. PICK n \in 1 .. f[y] : u = <<y, n>>
    BY <2>1
  <2>3. y \in DOMAIN g /\ n \in 1 .. g[y] /\ (y = x => n # g[x])
    BY <2>1, <2>2 DEF Increment
  <2>4. u \in Units(g)
    BY <2>2, <2>3, UnitsOf
  <2> QED BY <2>2, <2>3, <2>4
<1>3. <<x, g[x]>> \in Units(g)
  <2>1. x \in DOMAIN g /\ g[x] \in 1 .. g[x]
    BY DEF Increment
  <2> QED BY <2>1, UnitsOf
<1> QED BY <1>1, <1>2, <1>3

LEMMA OneMoreSum ==
    ASSUME NEW f, NEW g, NEW x, Increment(f, g, x)
    PROVE  /\ IsFiniteSet(Units(f)) <=> IsFiniteSet(Units(g))
           /\ IsFiniteSet(Units(f)) => /\ SumOf(g) = SumOf(f) + 1
                                       /\ SumOf(f) \in Nat /\ SumOf(g) \in Nat
<1>1. Units(g) = Units(f) \cup {<<x, g[x]>>} /\ <<x, g[x]>> \notin Units(f)
  BY OneMoreUnit
<1>2. IsFiniteSet(Units(g)) => IsFiniteSet(Units(f))
  <2>1. Units(f) \in SUBSET Units(g)
    BY <1>1
  <2> QED BY <2>1, FS_Subset
<1>3. IsFiniteSet(Units(f)) => /\ IsFiniteSet(Units(g))
                               /\ Cardinality(Units(g)) = Cardinality(Units(f)) + 1
  BY <1>1, FS_AddElement
<1> QED BY <1>2, <1>3, FS_CardinalityType DEF SumOf

LEMMA SumOfNone ==
    ASSUME NEW f, \A x \in DOMAIN f : f[x] = 0
    PROVE  IsFiniteSet(Units(f)) /\ SumOf(f) = 0
<1>1. ASSUME NEW u \in Units(f) PROVE FALSE
  <2>1. PICK y \in DOMAIN f : \E n \in 1 .. f[y] : u = <<y, n>>
    BY UnitsOf
  <2> QED BY <2>1
<1>2. Units(f) = {}
  BY <1>1
<1> QED BY <1>2, FS_EmptySet DEF SumOf

\* All the samples there have been.
Taken == SumOf(Published)

InTable == IF task = "reset" THEN 0 ELSE Counted

Conserved ==
    /\ IsFiniteSet(Units(Published)) /\ IsFiniteSet(Units(Counts)) /\ IsFiniteSet(Units(Lengths))
    /\ exported \in Nat /\ lost \in Nat
    /\ exported + lost + leftOut + InTable + SumOf(Lengths) = Taken

LEMMA InitConserved == Init => Conserved
<1> SUFFICES ASSUME Init PROVE Conserved
  OBVIOUS
<1>1. IsFiniteSet(Units(Published)) /\ Taken = 0
  <2>1. \A c \in DOMAIN Published : Published[c] = 0
    BY DEF Init, Published
  <2> QED BY <2>1, SumOfNone DEF Taken
<1>2. IsFiniteSet(Units(Counts)) /\ Counted = 0
  <2>1. \A i \in DOMAIN Counts : FALSE
    BY DEF Init, Counts
  <2> QED BY <2>1, SumOfNone DEF Counted
<1>3. IsFiniteSet(Units(Lengths)) /\ SumOf(Lengths) = 0
  <2>1. \A c \in DOMAIN Lengths : Lengths[c] = 0
    BY DEF Init, Lengths
  <2> QED BY <2>1, SumOfNone
<1>4. exported = 0 /\ lost = 0 /\ leftOut = 0 /\ task = "delay"
  BY DEF Init
<1> QED BY <1>1, <1>2, <1>3, <1>4 DEF Conserved, InTable

\* A sample taken is one more in its core's ring.
LEMMA InterruptConserves == ASSUME IInv, Conserved, NEW c \in Cores, Interrupt(c) PROVE Conserved'
<1>1. /\ UNCHANGED <<task, agg, exported, lost, leftOut>>
      /\ queue \in [Cores -> Seq(Sample)] /\ total \in [Cores -> Nat] /\ leftOut \in Nat
  BY DEF Interrupt, IInv, Sampling, Tables, table
<1>2. Counts' = Counts /\ Counted' = Counted /\ InTable' = InTable
  BY <1>1 DEF Counts, Counted, InTable
<1>3. CASE Len(queue[c]) < RingBound
  <2>1. PICK s \in SamplesOf(c) : queue' = [queue EXCEPT ![c] = Append(@, s)]
    BY <1>3 DEF Interrupt
  <2>2. s \in Sample
    BY <2>1, SamplesAssumption
  <2>3. \A d \in Cores : Len(queue[d]) \in Nat
    BY <1>1
  <2>4. Len(queue'[c]) = Len(queue[c]) + 1 /\ \A d \in Cores \ {c} : queue'[d] = queue[d]
    BY <1>1, <2>1, <2>2
  <2>5. Increment(Lengths, Lengths', c)
    BY <2>3, <2>4 DEF Increment, Lengths
  <2>6. total' = total /\ c \notin uncounted /\ uncounted' = uncounted \cup {c}
    BY <1>3 DEF Interrupt
  <2>7. Increment(Published, Published', c)
    <3>1. \A d \in Cores : total[d] \in Nat
      BY <1>1
    <3> QED BY <2>6, <3>1 DEF Increment, Published
  <2>8. /\ IsFiniteSet(Units(Lengths)') /\ SumOf(Lengths)' = SumOf(Lengths) + 1 /\ SumOf(Lengths) \in Nat
    <3>1. Units(Lengths)' = Units(Lengths') /\ SumOf(Lengths)' = SumOf(Lengths')
      BY DEF Units, SumOf
    <3> HIDE DEF Conserved
    <3> QED BY <2>5, <3>1, OneMoreSum DEF Conserved
  <2>9. /\ IsFiniteSet(Units(Published)') /\ Taken' = Taken + 1 /\ Taken \in Nat
    <3>1. Units(Published)' = Units(Published') /\ SumOf(Published)' = SumOf(Published')
      BY DEF Units, SumOf
    <3> QED BY <2>7, <3>1, OneMoreSum DEF Conserved, Taken
  <2>10. InTable \in Nat
    BY FS_CardinalityType DEF Conserved, InTable, Counted, SumOf
  <2> QED BY <1>1, <1>2, <2>8, <2>9, <2>10 DEF Conserved
<1>4. CASE ~ (Len(queue[c]) < RingBound)
  <2>1. UNCHANGED <<queue, Published>>
    BY <1>4 DEF Interrupt, Published
  <2>2. Lengths' = Lengths /\ Taken' = Taken
    BY <2>1 DEF Lengths, Taken
  <2> QED BY <1>1, <1>2, <2>1, <2>2 DEF Conserved
<1> QED BY <1>3, <1>4

LEMMA OneMoved ==
    ASSUME NEW e \in Nat, NEW k \in Nat, NEW a \in Nat, NEW u \in Nat, NEW m \in Nat, NEW b \in Nat,
           NEW v \in Nat, NEW n, u = v + 1, m + b = k + a + 1, e + k + a + u = n
    PROVE  e + m + b + v = n
<1>1. e + k + a + u = e + (k + a + 1) + v
  OBVIOUS
<1>2. e + (m + b) + v = e + m + b + v
  OBVIOUS
<1> QED BY <1>1, <1>2

\* A sample drained is counted in an entry, or left out, and in its ring no more.
LEMMA DrainConserves == ASSUME IInv, Conserved, DrainOne PROVE Conserved'
<1> DEFINE q == queue[core]
<1>1. /\ core \in Cores /\ q \in Seq(Sample) /\ Len(q) \in Nat /\ left \in Nat /\ 0 < left /\ left <= Len(q)
      /\ queue \in [Cores -> Seq(Sample)] /\ leftOut \in Nat /\ exported \in Nat /\ lost \in Nat
      /\ Tables /\ IndexMatchesTable /\ task = "drain"
      /\ UNCHANGED <<Published, task, exported, lost>>
  BY LenProperties DEF DrainOne, IInv, Sampling, Tables, Conserved, Published
<1>2. q # <<>>
  <2>1. Len(q) # 0
    BY <1>1
  <2> QED BY <2>1, EmptySeq
<1>3. /\ queue' = [queue EXCEPT ![core] = Tail(q)] /\ Aggregate(Head(q))
      /\ leftOut' = IF agg' = agg THEN leftOut + 1 ELSE leftOut
  BY DEF DrainOne
<1>4. Head(q) \in Sample /\ Len(Tail(q)) = Len(q) - 1
  <2> HIDE DEF q
  <2> QED BY <1>1, <1>2, HeadTailProperties
<1>5. Increment(Lengths', Lengths, core)
  <2>1. \A d \in Cores : Len(queue[d]) \in Nat
    BY <1>1
  <2>2. Len(queue[core]) = Len(queue'[core]) + 1 /\ Len(queue'[core]) \in Nat
    <3>1. queue'[core] = Tail(q)
      BY <1>1, <1>3
    <3>2. Len(Tail(q)) + 1 = Len(q) /\ Len(Tail(q)) \in Nat
      BY <1>1, <1>4
    <3> QED BY <3>1, <3>2
  <2>3. \A d \in Cores \ {core} : queue'[d] = queue[d]
    BY <1>1, <1>3
  <2> HIDE DEF q
  <2> QED BY <1>1, <2>1, <2>2, <2>3 DEF Increment, Lengths
<1>6. /\ IsFiniteSet(Units(Lengths')) /\ SumOf(Lengths) = SumOf(Lengths') + 1
      /\ SumOf(Lengths') \in Nat
  BY <1>5, OneMoreSum DEF Conserved
<1>7. /\ IsFiniteSet(Units(Counts')) /\ SumOf(Counts') \in Nat /\ SumOf(Counts) \in Nat
      /\ leftOut' + SumOf(Counts') = leftOut + SumOf(Counts) + 1
  <2> DEFINE n == Len(agg)
  <2>1. /\ agg \in Seq(Entry) /\ n \in Nat
        /\ \A i \in 1 .. n : agg[i] \in Entry /\ agg[i].count \in Nat
    BY <1>1, EntriesHoldSamples, LenProperties DEF Tables
  <2>2. ASSUME NEW i \in 1 .. n, agg' = [agg EXCEPT ![i].count = @ + 1]
        PROVE  agg' # agg /\ Increment(Counts, Counts', i)
    <3>1. /\ Len(agg') = n /\ agg'[i].count = agg[i].count + 1
          /\ \A j \in 1 .. n : j # i => agg'[j] = agg[j]
      BY <2>1, <2>2 DEF Entry
    <3>2. agg' # agg
      BY <2>1, <3>1
    <3> QED BY <2>1, <3>1, <3>2 DEF Increment, Counts
  <2>3. ASSUME agg' = Append(agg, [sample |-> Head(q), count |-> 1])
        PROVE  agg' # agg /\ Increment(Counts, Counts', n + 1)
    <3> DEFINE e == [sample |-> Head(q), count |-> 1]
    <3>1. e \in Entry /\ e.count = 1
      BY <1>4 DEF Entry
    <3> HIDE DEF e
    <3>2. /\ Len(agg') = n + 1 /\ agg'[n + 1] = e
          /\ \A j \in 1 .. n : agg'[j] = agg[j]
      BY <2>1, <2>3, <3>1 DEF e
    <3>3. agg' # agg
      BY <2>1, <3>2
    <3> QED BY <2>1, <3>1, <3>2, <3>3 DEF Increment, Counts
  <2>4. CASE \E x : agg' # agg /\ Increment(Counts, Counts', x)
    <3>1. PICK x : agg' # agg /\ Increment(Counts, Counts', x)
      BY <2>4
    <3>2. /\ IsFiniteSet(Units(Counts')) /\ SumOf(Counts') = SumOf(Counts) + 1
          /\ SumOf(Counts) \in Nat /\ SumOf(Counts') \in Nat
      BY <3>1, OneMoreSum DEF Conserved
    <3>3. leftOut' = leftOut
      BY <1>3, <3>1
    <3> QED BY <1>1, <3>2, <3>3
  <2>5. CASE agg' = agg
    <3>1. Counts' = Counts /\ leftOut' = leftOut + 1
      BY <1>3, <2>5 DEF Counts
    <3>2. IsFiniteSet(Units(Counts)) /\ SumOf(Counts) \in Nat
      BY FS_CardinalityType DEF Conserved, SumOf
    <3> QED BY <1>1, <3>1, <3>2
  <2>6. (\E x : agg' # agg /\ Increment(Counts, Counts', x)) \/ agg' = agg
    <3> HIDE DEF q
    <3> QED BY <1>1, <1>3, <1>4, <2>2, <2>3, AggregateCases
  <2> QED BY <2>4, <2>5, <2>6
<1>8. InTable = SumOf(Counts) /\ InTable' = SumOf(Counts') /\ Taken' = Taken
      /\ IsFiniteSet(Units(Published')) /\ IsFiniteSet(Units(Lengths)') /\ IsFiniteSet(Units(Counts)')
      /\ SumOf(Lengths)' = SumOf(Lengths')
  BY <1>1, <1>6, <1>7 DEF InTable, Counted, Taken, Conserved, Units, SumOf
<1> HIDE DEF q
<1>9. (exported + lost + leftOut + SumOf(Counts) + SumOf(Lengths)) = Taken
  BY <1>8 DEF Conserved
<1>10. (exported' + lost' + leftOut' + SumOf(Counts') + SumOf(Lengths')) = Taken
  <2> DEFINE a == SumOf(Counts)
             b == SumOf(Counts')
             u == SumOf(Lengths)
             v == SumOf(Lengths')
  <2>1. a \in Nat /\ b \in Nat /\ v \in Nat /\ u = v + 1 /\ leftOut' + b = leftOut + a + 1
        /\ exported + lost + leftOut + a + u = Taken
        /\ leftOut \in Nat /\ exported \in Nat /\ lost \in Nat
    BY <1>1, <1>6, <1>7, <1>9
  <2>2. leftOut' \in Nat /\ exported' = exported /\ lost' = lost
    BY <1>1, <1>3
  <2>4. Taken \in Nat
    BY FS_CardinalityType DEF Conserved, Taken, SumOf
  <2> DEFINE e == exported + lost
             m == leftOut'
  <2>5. /\ e \in Nat /\ leftOut \in Nat /\ a \in Nat /\ m \in Nat /\ b \in Nat /\ v \in Nat
        /\ u = v + 1 /\ m + b = leftOut + a + 1
    <3> HIDE DEF a, b, u, v
    <3>1. e \in Nat
      BY <2>1
    <3>2. leftOut \in Nat /\ a \in Nat /\ b \in Nat /\ v \in Nat
      BY <2>1
    <3>3. m \in Nat
      BY <2>2
    <3>4. u = v + 1
      BY <2>1
    <3>5. m + b = leftOut + a + 1
      BY <2>1
    <3> QED BY <3>1, <3>2, <3>3, <3>4, <3>5
  <2>6. e + leftOut + a + u = Taken /\ u \in Nat
    <3> HIDE DEF a, b, u, v
    <3> QED BY <2>1
  <2> HIDE DEF a, b, u, v, e, m, Conserved, Taken
  <2>7. e + m + b + v = Taken
    BY <2>5, <2>6, OneMoved
  <2>3. exported + lost + leftOut' + b + v = Taken
    BY <2>7 DEF e, m
  <2> QED BY <2>2, <2>3 DEF b, v
<1> QED BY <1>1, <1>8, <1>10 DEF Conserved

\* What becomes of a window moves its samples between what is in the table and
\* what was exported or lost.
LEMMA WindowConserves ==
    ASSUME Conserved, UNCHANGED <<queue, Published, leftOut>>,
           IsFiniteSet(Units(Counts)'), exported' \in Nat, lost' \in Nat,
           exported' + lost' + InTable' = exported + lost + InTable,
           leftOut \in Nat, InTable \in Nat, InTable' \in Nat
    PROVE  Conserved'
<1>1. Lengths' = Lengths /\ Taken' = Taken
  BY DEF Lengths, Taken
<1>2. SumOf(Lengths) \in Nat
  BY FS_CardinalityType DEF Conserved, SumOf
<1>3. exported' + lost' + leftOut' + InTable' + SumOf(Lengths)' = Taken'
  <2> DEFINE s == SumOf(Lengths)
  <2>1. exported + lost + leftOut + InTable + s = Taken /\ exported \in Nat /\ lost \in Nat
        /\ s \in Nat /\ leftOut' = leftOut /\ SumOf(Lengths)' = s
    BY <1>1, <1>2 DEF Conserved
  <2>3. Taken \in Nat
    BY FS_CardinalityType DEF Conserved, Taken, SumOf
  <2> DEFINE e == exported + lost
             f == exported' + lost'
             a == InTable
             b == InTable'
  <2>6. exported' \in Nat /\ lost' \in Nat /\ exported' + lost' + InTable' = exported + lost + InTable
    OBVIOUS
  <2>7. exported' \in Nat /\ lost' \in Nat
    OBVIOUS
  <2>4. /\ e \in Nat /\ f \in Nat /\ leftOut \in Nat /\ a \in Nat /\ b \in Nat /\ s \in Nat
        /\ f + b = e + a /\ e + leftOut + a + s = Taken
    <3> HIDE DEF s, a, b
    <3>1. e \in Nat
      BY <2>1
    <3>2. f \in Nat
      <4>1. \A x, y \in Nat : x + y \in Nat
        OBVIOUS
      <4> QED BY <2>7, <4>1, Zenon
    <3>3. leftOut \in Nat /\ s \in Nat
      BY <2>1
    <3>4. a \in Nat /\ b \in Nat
      BY DEF a, b
    <3>5. f + b = e + a
      BY <2>6 DEF a, b
    <3>6. e + leftOut + a + s = Taken
      BY <2>1 DEF a, b
    <3> QED BY <3>1, <3>2, <3>3, <3>4, <3>5, <3>6
  <2> HIDE DEF s, a, b, e, f
  <2>5. f + leftOut + b + s = Taken
    <3> DEFINE k == leftOut
    <3> HIDE DEF k
    <3>1. k \in Nat /\ e + k + a + s = Taken
      BY <2>4 DEF k
    <3>2. f + k + b + s = (f + b) + (k + s)
      BY <2>4, <3>1
    <3>3. (e + a) + (k + s) = e + k + a + s
      BY <2>4, <3>1
    <3>4. f + k + b + s = Taken
      BY <2>4, <3>1, <3>2, <3>3
    <3> QED BY <3>4 DEF k
  <2>2. exported' + lost' + leftOut + InTable' + s = Taken
    BY <2>5 DEF f, b
  <2> QED BY <1>1, <2>1, <2>2
<1>4. Units(Lengths)' = Units(Lengths) /\ Units(Published)' = Units(Published)
  BY <1>1 DEF Units
<1> QED BY <1>3, <1>4 DEF Conserved

LEMMA NextConserved == ASSUME IInv, Conserved, [Next]_vars PROVE Conserved'
<1>1. Counted \in Nat /\ InTable \in Nat /\ leftOut \in Nat /\ exported \in Nat /\ lost \in Nat
  BY FS_CardinalityType DEF Conserved, InTable, Counted, SumOf, IInv, Tables
<1>2. ASSUME UNCHANGED <<queue, Published, agg, exported, lost, leftOut>>,
             task' = "reset" <=> task = "reset"
      PROVE  Conserved'
  <2>1. Counts' = Counts /\ Counted' = Counted /\ InTable' = InTable
    BY <1>2 DEF Counts, Counted, InTable
  <2>2. IsFiniteSet(Units(Counts)')
    BY <2>1 DEF Conserved
  <2> QED BY <1>1, <1>2, <2>1, <2>2, WindowConserves
<1>3. ASSUME NEW c \in Cores, ArmTimer(c) PROVE Conserved'
  BY <1>2, <1>3 DEF ArmTimer, table, Published
<1>4. CASE BeginDrain \/ NextCore \/ WindowContinues \/ UNCHANGED vars
  BY <1>2, <1>4 DEF BeginDrain, NextCore, WindowContinues, vars, sampler, table, Published
<1>5. CASE WindowEnds
  <2>1. UNCHANGED <<queue, Published, agg, exported, lost, leftOut>> /\ task = "check"
        /\ task' = IF agg # <<>> THEN "publish" ELSE "reset"
    BY <1>5 DEF WindowEnds, sampler, table, Published
  <2>2. CASE agg # <<>>
    BY <1>2, <2>1, <2>2
  <2>3. CASE agg = <<>>
    <3>1. Counted = 0
      <4>1. \A i \in DOMAIN Counts : FALSE
        BY <2>3 DEF Counts
      <4> QED BY <4>1, SumOfNone DEF Counted
    <3>2. Counts' = Counts /\ InTable' = 0 /\ InTable = 0
      BY <2>1, <2>3, <3>1 DEF Counts, InTable
    <3>3. IsFiniteSet(Units(Counts)')
      BY <3>2 DEF Conserved
    <3> QED BY <1>1, <2>1, <3>2, <3>3, WindowConserves
  <2> QED BY <2>2, <2>3
<1>6. CASE Publish
  <2>1. UNCHANGED <<queue, Published, agg, leftOut>> /\ task = "publish" /\ task' = "reset"
        /\ \/ exported' = exported + Counted /\ lost' = lost
           \/ lost' = lost + Counted /\ exported' = exported
    BY <1>6 DEF Publish, sampler, table, Published
  <2>2. Counts' = Counts /\ InTable' = 0 /\ InTable = Counted
    BY <2>1 DEF Counts, InTable
  <2>3. IsFiniteSet(Units(Counts)')
    BY <2>2 DEF Conserved
  <2>4. exported' \in Nat /\ lost' \in Nat /\ exported' + lost' + InTable' = exported + lost + InTable
    BY <1>1, <2>1, <2>2
  <2> QED BY <1>1, <2>1, <2>2, <2>3, <2>4, WindowConserves
<1>7. CASE Reset
  <2>1. UNCHANGED <<queue, Published, exported, lost, leftOut>> /\ task = "reset" /\ task' = "delay"
        /\ agg' = <<>>
    BY <1>7 DEF Reset, sampler, Published
  <2>2. IsFiniteSet(Units(Counts')) /\ SumOf(Counts') = 0
    <3>1. \A i \in DOMAIN Counts' : FALSE
      BY <2>1 DEF Counts
    <3> QED BY <3>1, SumOfNone
  <2>3. InTable = 0 /\ InTable' = 0 /\ IsFiniteSet(Units(Counts)')
    BY <2>1, <2>2 DEF InTable, Counted, SumOf, Units
  <2> QED BY <1>1, <2>1, <2>3, WindowConserves
<1>8. ASSUME NEW c \in Cores, Count(c) PROVE Conserved'
  <2>1. /\ total' = [total EXCEPT ![c] = @ + 1] /\ uncounted' = uncounted \ {c} /\ c \in uncounted
        /\ UNCHANGED <<queue, agg, exported, lost, leftOut, task>>
        /\ total \in [Cores -> Nat]
    BY <1>8 DEF Count, IInv, Sampling, table
  <2>2. Published' = Published
    <3>1. \A d \in Cores : total[d] \in Nat
      BY <2>1
    <3> QED BY <2>1, <3>1 DEF Published
  <2> QED BY <1>2, <2>1, <2>2
<1> QED BY <1>3, <1>4, <1>5, <1>6, <1>7, <1>8, InterruptConserves, DrainConserves DEF Next, ExportTask

\* The counts the application is given by
\* esp_opentelemetry_profiling_samples() can be settled against the documents:
\* no interleaving of interrupts, drains and windows counts a sample twice or
\* forgets one.
THEOREM NoSampleIsForgotten == Spec => []SamplesAreConserved
<1>1. Init => Conserved
  BY InitConserved
<1>2. IInv /\ Conserved /\ [Next]_vars => Conserved'
  BY NextConserved
<1>3. IInv /\ Conserved => SamplesAreConserved
  <2> SUFFICES ASSUME IInv, Conserved PROVE SamplesAreConserved
    OBVIOUS
  <2>1. ASSUME uncounted = {} PROVE Published = total
    <3>1. total \in [Cores -> Nat]
      BY DEF IInv, Sampling
    <3>2. \A d \in Cores : total[d] \in Nat /\ Published[d] = total[d]
      BY <2>1, <3>1 DEF Published
    <3> QED BY <3>1, <3>2 DEF Published
  <2>2. uncounted = {} => SumOf(Published) = Samples
    BY <2>1 DEF Samples
  <2> QED BY <2>2 DEF Conserved, SamplesAreConserved, InTable, Taken
<1> QED BY <1>1, <1>2, <1>3, Inductive, PTL DEF Spec

-----------------------------------------------------------------------------
(* The clocks of the same export task: when its steps come.  The rings and *)
(* the table are counts of samples here.                                   *)

Docs == [wall : Nat, mono : Nat, duration : Nat, oldest : Nat]

\* Everything a time, and nothing later than the next step of the task.
Times ==
    /\ now \in Nat /\ now <= MaxTime
    /\ fill \in Nat /\ samples \in Nat /\ missed \in Nat /\ exportTook \in Nat
    /\ ringOldest \in Nat /\ tableOldest \in Nat
    /\ step \in {"delay", "clock", "publish"}
    /\ ready \in Nat /\ deadline \in Nat
    /\ mono_start \in Nat /\ wall_start \in Nat
    /\ next_publish \in Nat /\ mono_now \in Nat
    /\ document \in {NoDocument} \cup Docs

Order ==
    /\ fill <= UsableSlots
    /\ fill + samples + missed <= now
    /\ exportTook <= PublishTime /\ exportTook <= now
    /\ ringOldest <= now /\ tableOldest <= now
    /\ ready <= deadline /\ now <= deadline
    /\ mono_start <= now /\ wall_start <= now /\ mono_now <= now

\* The samples taken since the last drain, and those still to come until the
\* task's next step, are no more than the time since that drain can be: the
\* export, if there was one, the sleep and the task's being late.
Within ==
    /\ step = "delay"   => fill + missed + deadline <= now + exportTook + Delay + 2 * Latency
    /\ step = "clock"   => fill + missed + deadline <= now + Latency
    /\ step = "publish" => fill + missed + mono_now <= now + Latency
    /\ step = "clock"   => exportTook = 0
    /\ missed > 0 => fill = UsableSlots

\* The task's next step comes soon enough after its window began.
Longest == Larger(Interval - 1, PublishTime)
Timely ==
    /\ next_publish = mono_start + Interval
    /\ step = "delay"   => deadline <= mono_start + Longest + Delay + Latency
    /\ step = "clock"   => deadline <= mono_start + Longest + Delay + 2 * Latency
    /\ step = "publish" => deadline <= mono_now + PublishTime
    /\ document # NoDocument =>
           Interval <= document.duration /\ document.duration <= Longest + Delay + 2 * Latency

\* The samples of the table belong to the window, those of the ring to it or to
\* the next.
Recent ==
    /\ step = "clock" => deadline <= now + Latency
    /\ samples > 0 => tableOldest + Latency >= mono_start
    /\ fill > 0 /\ step = "delay"   => ringOldest + Latency >= mono_start
    /\ fill > 0 /\ step = "clock"   => ringOldest + Latency > deadline
    /\ fill > 0 /\ step = "publish" => ringOldest + Latency >= mono_now
    /\ document # NoDocument => document.oldest + Latency >= document.mono

\* The wall clock of the window's start was read by one export later.
StartsOff ==
    /\ wall_start <= mono_start + PublishTime
    /\ document # NoDocument => document.wall <= document.oldest + Latency + PublishTime

TIInv == Times /\ Order /\ Timely /\ Recent /\ StartsOff

-----------------------------------------------------------------------------
LEMMA LargerIsMax ==
    ASSUME NEW a \in Int, NEW b \in Int
    PROVE  /\ Larger(a, b) \in {a, b}
           /\ a <= Larger(a, b) /\ b <= Larger(a, b)
<1>1. \E x \in {a, b} : \A y \in {a, b} : x >= y
  <2>1. CASE a >= b
    BY <2>1
  <2>2. CASE b >= a
    BY <2>2
  <2> QED BY <2>1, <2>2
<1>2. Larger(a, b) = CHOOSE x \in {a, b} : \A y \in {a, b} : x >= y
  BY DEF Larger, Max
<1>3. Larger(a, b) \in {a, b} /\ \A y \in {a, b} : Larger(a, b) >= y
  BY <1>1, <1>2, Zenon
<1> QED BY <1>3

LEMMA LongestBounds ==
    Longest \in Nat /\ Interval - 1 <= Longest /\ PublishTime <= Longest
BY LargerIsMax, TimingAssumption DEF Longest

LEMMA TInitIInv == TimingInit => TIInv
BY LongestBounds, TimingAssumption
   DEF TimingInit, TIInv, Times, Order, Timely, Recent, StartsOff, NoDocument

\* Every step keeps the invariant: time passes only before the deadline, and
\* the task's own steps set the next one.
LEMMA TNextIInv == TIInv /\ [TimingNext]_timingVars => TIInv'
<1> SUFFICES ASSUME TIInv, [TimingNext]_timingVars PROVE TIInv'
  OBVIOUS
<1> USE LongestBounds, TimingAssumption
<1>1. CASE Tick
  <2> USE <1>1 DEF Tick, ring, losses, tableTimes, windowTimes, TIInv, Times, Order
  <2>1. Times'
    OBVIOUS
  <2>2. Order'
    OBVIOUS
  <2>3. Timely'
    BY DEF Timely
  <2>4. Recent'
    BY DEF Recent
  <2>5. StartsOff'
    BY DEF StartsOff
  <2> QED BY <2>1, <2>2, <2>3, <2>4, <2>5
<1>2. CASE Drain
  <2> USE <1>2 DEF Drain, EmptyRing, Schedule, windowTimes, TIInv, Times, Order
  <2>1. Times'
    OBVIOUS
  <2>2. Order'
    OBVIOUS
  <2>3. Timely'
    BY DEF Timely
  <2>4. Recent'
    BY DEF Recent
  <2>5. StartsOff'
    BY DEF StartsOff
  <2> QED BY <2>1, <2>2, <2>3, <2>4, <2>5
<1>3. CASE NotYetOver
  <2> USE <1>3 DEF NotYetOver, Sleep, Schedule, ring, tableTimes, windowTimes, losses, TIInv, Times, Order
  <2>1. Times'
    OBVIOUS
  <2>2. Order'
    OBVIOUS
  <2>3. Timely'
    BY DEF Timely
  <2>4. Recent'
    BY DEF Recent
  <2>5. StartsOff'
    BY DEF StartsOff
  <2> QED BY <2>1, <2>2, <2>3, <2>4, <2>5
<1>4. CASE WindowOver
  <2> USE <1>4 DEF WindowOver, Schedule, ring, tableTimes, windowTimes, losses, TIInv, Times, Order
  <2> DEFINE published == [wall |-> wall_start, mono |-> mono_start,
                          duration |-> now - mono_start, oldest |-> tableOldest]
  <2>1. /\ now - mono_start \in Nat /\ Interval <= now - mono_start
        /\ now - mono_start <= Longest + Delay + 2 * Latency
    BY DEF Timely
  <2>2. published \in Docs
    BY <2>1 DEF Docs
  <2>3. Times'
    BY <2>2
  <2>4. Order'
    OBVIOUS
  <2>5. Timely'
    BY <2>1 DEF Timely
  <2>6. Recent'
    BY DEF Recent
  <2>7. StartsOff'
    BY DEF StartsOff, Recent
  <2> QED BY <2>3, <2>4, <2>5, <2>6, <2>7
<1>5. CASE NewWindow
  <2> USE <1>5 DEF NewWindow, NextWindow, Sleep, Schedule, ring, TIInv, Times, Order
  <2>1. Times'
    OBVIOUS
  <2>2. Order'
    BY DEF Timely
  <2>3. Timely'
    BY DEF Timely
  <2>4. Recent'
    BY DEF Recent
  <2>5. StartsOff'
    BY DEF StartsOff, Timely
  <2> QED BY <2>1, <2>2, <2>3, <2>4, <2>5
<1>6. CASE UNCHANGED timingVars
  BY <1>6 DEF timingVars, ring, tableTimes, windowTimes, losses, TIInv, Times, Order,
          Timely, Recent, StartsOff
<1> QED BY <1>1, <1>2, <1>3, <1>4, <1>5, <1>6 DEF TimingNext, Stop

\* Whatever the configuration: where each step of the task finds the clocks, the
\* ring and the table.
THEOREM TimingInductive == TimingSpec => []TIInv
<1>1. TimingInit => TIInv
  BY TInitIInv
<1>2. TIInv /\ [TimingNext]_timingVars => TIInv'
  BY TNextIInv
<1> QED BY <1>1, <1>2, PTL DEF TimingSpec

-----------------------------------------------------------------------------
\* What the drain loop guarantees of every rate, ring, interval and exporter:
\* samples are lost only to an export, and no more of them than it took longer
\* than the ring lasts.
THEOREM LossesAreBounded == TimingSpec => []LossNeedsASlowExport
<1> DEFINE Inv == TIInv /\ Within
<1>1. TimingInit => Inv
  BY TInitIInv, TimingAssumption DEF TimingInit, Within
<1>2. Inv /\ [TimingNext]_timingVars => Inv'
  <2> SUFFICES ASSUME Inv, [TimingNext]_timingVars PROVE Within'
    BY TNextIInv
  <2> USE TimingAssumption DEF TIInv, Times, Order, Within
  <2>1. CASE Tick
    BY <2>1 DEF Tick, ring, tableTimes, windowTimes
  <2>2. CASE Drain
    BY <2>2 DEF Drain, EmptyRing, Schedule
  <2>3. CASE NotYetOver
    BY <2>3 DEF NotYetOver, Sleep, Schedule, ring, losses
  <2>4. CASE WindowOver
    BY <2>4 DEF WindowOver, Schedule, ring, losses
  <2>5. CASE NewWindow
    BY <2>5 DEF NewWindow, Sleep, Schedule, ring
  <2>6. CASE UNCHANGED timingVars
    BY <2>6 DEF timingVars, ring, losses
  <2> QED BY <2>1, <2>2, <2>3, <2>4, <2>5, <2>6 DEF TimingNext, Stop
<1>3. Inv => LossNeedsASlowExport
  BY TimingAssumption DEF TIInv, Times, Order, Within, LossNeedsASlowExport, ExportTime
<1> QED BY <1>1, <1>2, <1>3, PTL DEF TimingSpec

\* A document stands for one window: at least the interval long, and longer only
\* by what the task was late and the export before it took.
THEOREM WindowsKeepTheirLength == TimingSpec => []WindowLength
<1>1. TIInv => WindowLength
  <2> SUFFICES ASSUME TIInv PROVE WindowLength
    OBVIOUS
  <2> USE LongestBounds, TimingAssumption DEF TIInv, Times, Order
  <2>1. TimingTypeOK
    BY DEF TimingTypeOK
  <2>2. ASSUME document # NoDocument
        PROVE  document.duration \in
                   Interval .. Larger(Interval - 1, PublishTime) + Delay + 2 * Latency
    <3>1. document.duration \in Nat
      BY <2>2 DEF Docs
    <3> QED BY <3>1, <2>2 DEF Timely, Longest
  <2> QED BY <2>1, <2>2 DEF WindowLength
<1> QED BY <1>1, TimingInductive, PTL

\* A document's samples were taken in its window on the monotonic clock, and the
\* start it states is off by no more than the export before it.
THEOREM StartsAreNear == TimingSpec => []StartIsOffByOneExport
<1>1. TIInv => StartIsOffByOneExport
  BY DEF TIInv, Recent, StartsOff, StartIsOffByOneExport
<1> QED BY <1>1, TimingInductive, PTL
=============================================================================
