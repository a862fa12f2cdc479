----------------------------- MODULE OtlpHttp_proofs -----------------------------
(***************************************************************************)
(* Of OtlpHttp, for any number of exporters and documents: each request    *)
(* has one end, and the hops together implement Delivery, with what that   *)
(* promises the exporter and the collector.  The invariant says what each  *)
(* exporter's task and its requests know of each other; the hosts change a *)
(* request without changing whose it is or taking back an answer.          *)
(***************************************************************************)
EXTENDS OtlpHttp, TLAPS

Events == {"CreateFailed", "NetworkError", "OnResponse", "Response"}
Fates  == {"unknown", "delivered", "failed"}

Types ==
    /\ pc \in [Exporters -> Steps]
    /\ exports \in [Exporters -> Nat]
    /\ \A e \in Exporters : exports[e] <= MaxDocuments[e]
    /\ request \in [Exporters -> BOOLEAN]
    /\ active \in [Exporters -> BOOLEAN]
    /\ client \in [Exporters -> BOOLEAN]
    /\ told \in [Exporters -> Seq(Events)]
    /\ shut \subseteq Signals
    /\ posts \in [Exporters -> Seq(Requests)]
    /\ stored \in Seq(Documents)
    /\ outcome \in [Documents -> Fates]

\* What SendRequest and PerformSync leave behind at each of their steps.
AnEnd == {<<"CreateFailed">>, <<"NetworkError">>, <<"OnResponse", "Response">>}

Session(e) ==
    /\ e \in Signals =>
           pc[e] \in {"idle", "send", "init", "perform", "cleanup", "return", "wait"}
    /\ e = Profiles => pc[e] \in {"idle", "open", "perform", "close"} /\ ~active[e]
    /\ told[e] \in IF pc[e] \in {"cleanup", "return", "wait"} THEN AnEnd ELSE {<<>>}
    /\ pc[e] \in {"idle", "send", "wait"} => ~active[e]
    /\ client[e] => pc[e] \in {"perform", "cleanup", "close"}

\* The fate of an exporter's document is open exactly as long as its export is
\* under way; later documents have none yet.
Fate(e) ==
    /\ pc[e] = "idle" /\ exports[e] > 0 => outcome[Doc(e)] # "unknown"
    /\ pc[e] # "idle" => exports[e] > 0
    /\ pc[e] \notin {"idle", "close"} => outcome[Doc(e)] = "unknown"
    /\ pc[e] = "close" => outcome[Doc(e)] # "unknown"
    /\ \A n \in exports[e] + 1 .. MaxDocuments[e] : outcome[<<e, n>>] = "unknown"

\* The requests of an exporter are of different documents, none of them new.
Numbered(e) ==
    \A k \in 1 .. Len(posts[e]) :
        /\ posts[e][k].doc = <<e, posts[e][k].doc[2]>>
        /\ posts[e][k].doc[2] \in 1 .. exports[e]
Once(e) == \A j, k \in 1 .. Len(posts[e]) : posts[e][j].doc = posts[e][k].doc => j = k
Fresh(e) ==
    pc[e] \in {"send", "init", "open"} =>
        \A k \in 1 .. Len(posts[e]) : posts[e][k].doc # Doc(e)

\* The last request is the one that perform works on, and the one whose answer
\* the handler was told.
Current(e) ==
    pc[e] = "perform" \/ Told(e, "Response") =>
        /\ Len(posts[e]) > 0 /\ Last(e).doc = Doc(e)
        /\ Told(e, "Response") => Last(e).status # Waiting

\* The answer that tells whether the collector stored a document, and that no
\* hop confirms what is not stored.
Accepted(e, k) == IF e \in Signals THEN posts[e][k].status = Ok ELSE posts[e][k].reply = Ok
Honest(e) ==
    \A k \in 1 .. Len(posts[e]) :
        /\ D!IsStored(posts[e][k].doc) <=> Accepted(e, k)
        /\ posts[e][k].status = Ok => Accepted(e, k)
Sent == \A i \in 1 .. Len(stored) : \E e \in Exporters : \E k \in 1 .. Len(posts[e]) :
            posts[e][k].doc = stored[i]

IInv ==
    /\ Types
    /\ \A e \in Exporters :
           Session(e) /\ Fate(e) /\ Numbered(e) /\ Once(e) /\ Fresh(e) /\ Current(e) /\ Honest(e)
    /\ Sent

-----------------------------------------------------------------------------
(* Documents and requests *)

LEMMA DocumentParts ==
    /\ \A d \in Documents : d[1] \in Exporters /\ d[2] \in 1 .. MaxDocuments[d[1]]
    /\ \A e \in Exporters : \A n \in 1 .. MaxDocuments[e] : <<e, n>> \in Documents
BY DEF Documents

\* An exporter that has begun an export has a document.
LEMMA DocIsDocument ==
    ASSUME Types, NEW e \in Exporters, exports[e] > 0
    PROVE  Doc(e) \in Documents
<1>1. exports[e] \in 1 .. MaxDocuments[e]
  BY MaxDocumentsAssumption DEF Types
<1> QED BY <1>1, DocumentParts DEF Doc

\* What a step leaves alone of an exporter stays as it is.
FatesStay(x) == \A n \in 1 .. MaxDocuments[x] : outcome'[<<x, n>>] = outcome[<<x, n>>]

LEMMA SessionStays ==
    ASSUME Types, NEW x \in Exporters, Session(x), Fate(x), pc'[x] = pc[x],
           exports'[x] = exports[x], active'[x] = active[x], client'[x] = client[x],
           told'[x] = told[x], FatesStay(x)
    PROVE  Session(x)' /\ Fate(x)'
<1>1. Session(x)'
  BY DEF Session
<1>a. exports[x] \in Nat /\ MaxDocuments[x] \in Nat /\ exports[x] <= MaxDocuments[x]
  BY MaxDocumentsAssumption DEF Types
<1>2. /\ exports[x] > 0 => outcome'[<<x, exports[x]>>] = outcome[<<x, exports[x]>>]
      /\ \A n \in exports[x] + 1 .. MaxDocuments[x] : outcome'[<<x, n>>] = outcome[<<x, n>>]
  BY <1>a DEF FatesStay
<1>3. Fate(x)'
  BY <1>a, <1>2 DEF Fate, Doc
<1> QED BY <1>1, <1>3

LEMMA PostsStay ==
    ASSUME NEW x, Numbered(x), Once(x), Fresh(x), Current(x), pc'[x] = pc[x],
           exports'[x] = exports[x], told'[x] = told[x], posts'[x] = posts[x]
    PROVE  Numbered(x)' /\ Once(x)' /\ Fresh(x)' /\ Current(x)'
BY DEF Numbered, Once, Fresh, Current, Told, Last, Doc

LEMMA HonestyStays ==
    ASSUME UNCHANGED <<posts, stored>>
    PROVE  /\ \A x \in Exporters : Honest(x) => Honest(x)'
           /\ Sent => Sent'
BY DEF Honest, Sent, Accepted, D!IsStored

\* A request changes into r: it stays of its document and keeps its answer.
Updated(e, k, r) ==
    /\ k \in 1 .. Len(posts[e]) /\ r \in Requests
    /\ r.doc = posts[e][k].doc
    /\ posts[e][k].status # Waiting => r.status = posts[e][k].status
    /\ posts' = [posts EXCEPT ![e] = [@ EXCEPT ![k] = r]]

\* What is left of it: the other requests, and what every request keeps.
UpdatedOnly(e, k, r) ==
    /\ posts' \in [Exporters -> Seq(Requests)]
    /\ \A x \in Exporters :
           /\ Len(posts'[x]) = Len(posts[x])
           /\ \A j \in 1 .. Len(posts[x]) :
                  /\ posts'[x][j].doc = posts[x][j].doc
                  /\ posts[x][j].status # Waiting =>
                         posts'[x][j].status = posts[x][j].status
                  /\ x # e \/ j # k => posts'[x][j] = posts[x][j]
    /\ posts'[e][k] = r

LEMMA UpdateFacts ==
    ASSUME Types, NEW e \in Exporters, NEW k, NEW r, Updated(e, k, r)
    PROVE  UpdatedOnly(e, k, r)
<1> DEFINE new == [posts[e] EXCEPT ![k] = r]
<1>1. /\ posts[e] \in Seq(Requests) /\ posts \in [Exporters -> Seq(Requests)]
      /\ k \in 1 .. Len(posts[e]) /\ r \in Requests
      /\ r.doc = posts[e][k].doc
      /\ posts[e][k].status # Waiting => r.status = posts[e][k].status
  BY DEF Types, Updated
<1>2. /\ new \in Seq(Requests) /\ Len(new) = Len(posts[e]) /\ new[k] = r
      /\ \A j \in 1 .. Len(posts[e]) : j # k => new[j] = posts[e][j]
  BY <1>1
<1>3. posts' = [posts EXCEPT ![e] = new]
  BY DEF Updated
<1>4. /\ posts' \in [Exporters -> Seq(Requests)] /\ posts'[e] = new
      /\ \A x \in Exporters : x # e => posts'[x] = posts[x]
  BY <1>1, <1>2, <1>3
<1> QED
  <2> HIDE DEF new
  <2> QED BY <1>1, <1>2, <1>4 DEF UpdatedOnly

LEMMA UpdateKeeps ==
    ASSUME IInv, NEW e \in Exporters, NEW k, NEW r, Updated(e, k, r), UNCHANGED exports
    PROVE  \A x \in Exporters : Numbered(x)' /\ Once(x)'
<1> SUFFICES ASSUME NEW x \in Exporters PROVE Numbered(x)' /\ Once(x)'
  OBVIOUS
<1>1. /\ Len(posts'[x]) = Len(posts[x])
      /\ \A j \in 1 .. Len(posts[x]) : posts'[x][j].doc = posts[x][j].doc
  <2>1. UpdatedOnly(e, k, r)
    BY UpdateFacts DEF IInv
  <2> QED BY <2>1 DEF UpdatedOnly
<1>2. Numbered(x) /\ Once(x)
  BY DEF IInv
<1>3. Numbered(x)'
  BY <1>1, <1>2 DEF Numbered
<1>4. Once(x)'
  BY <1>1, <1>2 DEF Once
<1> QED BY <1>3, <1>4

\* A change of a request that does not concern whether its document is stored.
LEMMA UpdateIsHonest ==
    ASSUME IInv, NEW e \in Exporters, NEW k, NEW r, Updated(e, k, r), UNCHANGED stored,
           e \in Signals => (r.status = Ok <=> posts[e][k].status = Ok),
           e \notin Signals => (r.reply = Ok <=> posts[e][k].reply = Ok),
           e \notin Signals /\ r.status = Ok => r.reply = Ok
    PROVE  (\A x \in Exporters : Honest(x)') /\ Sent'
<1>0. UpdatedOnly(e, k, r)
  BY UpdateFacts DEF IInv
<1>1. \A x \in Exporters :
          /\ Len(posts'[x]) = Len(posts[x])
          /\ \A j \in 1 .. Len(posts[x]) :
                 /\ posts'[x][j].doc = posts[x][j].doc
                 /\ x # e \/ j # k => posts'[x][j] = posts[x][j]
  BY <1>0 DEF UpdatedOnly
<1>2. posts'[e][k] = r
  BY <1>0 DEF UpdatedOnly
<1>3. \A d : D!IsStored(d)' <=> D!IsStored(d)
  BY DEF D!IsStored
<1>4. ASSUME NEW x \in Exporters PROVE Honest(x)'
  <2>1. Honest(x)
    BY DEF IInv
  <2> SUFFICES ASSUME NEW j \in 1 .. Len(posts[x])
               PROVE  /\ D!IsStored(posts[x][j].doc)' <=> Accepted(x, j)'
                      /\ posts'[x][j].status = Ok => Accepted(x, j)'
    BY <1>1 DEF Honest
  <2>2. CASE x # e \/ j # k
    BY <2>1, <2>2, <1>1, <1>3 DEF Honest, Accepted
  <2>3. CASE x = e /\ j = k
    BY <2>1, <2>3, <1>1, <1>2, <1>3 DEF Honest, Accepted
  <2> QED BY <2>2, <2>3
<1>5. Sent'
  <2> SUFFICES ASSUME NEW i \in 1 .. Len(stored)
               PROVE  \E x \in Exporters : \E j \in 1 .. Len(posts'[x]) :
                          posts'[x][j].doc = stored[i]
    BY DEF Sent
  <2>1. PICK x \in Exporters : \E j \in 1 .. Len(posts[x]) : posts[x][j].doc = stored[i]
    BY DEF Sent, IInv
  <2>2. PICK j \in 1 .. Len(posts[x]) : posts[x][j].doc = stored[i]
    BY <2>1
  <2>3. j \in 1 .. Len(posts'[x]) /\ posts'[x][j].doc = stored[i]
    BY <2>2, <1>1
  <2> QED BY <2>3
<1> QED BY <1>4, <1>5

\* The collector stores the document of a request and says so.
LEMMA StoreIsHonest ==
    ASSUME IInv, NEW e \in Exporters, NEW k, NEW r, Updated(e, k, r),
           stored' = Append(stored, posts[e][k].doc), ~Accepted(e, k),
           e \in Signals => r.status = Ok, e \notin Signals => r.reply = Ok
    PROVE  (\A x \in Exporters : Honest(x)') /\ Sent'
<1>0. UpdatedOnly(e, k, r)
  BY UpdateFacts DEF IInv
<1>1. \A x \in Exporters :
          /\ Len(posts'[x]) = Len(posts[x])
          /\ \A j \in 1 .. Len(posts[x]) :
                 /\ posts'[x][j].doc = posts[x][j].doc
                 /\ x # e \/ j # k => posts'[x][j] = posts[x][j]
  BY <1>0 DEF UpdatedOnly
<1>2. posts'[e][k] = r
  BY <1>0 DEF UpdatedOnly
<1>3. k \in 1 .. Len(posts[e])
  BY DEF Updated
<1>4. posts[e][k].doc \in Documents /\ stored \in Seq(Documents)
  <2>1. posts[e] \in Seq(Requests) /\ stored \in Seq(Documents)
    BY DEF IInv, Types
  <2>2. posts[e][k] \in Requests
    BY <1>3, <2>1
  <2> QED BY <2>1, <2>2 DEF Requests
<1>5. /\ Len(stored') = Len(stored) + 1 /\ stored'[Len(stored) + 1] = posts[e][k].doc
      /\ \A i \in 1 .. Len(stored) : stored'[i] = stored[i]
      /\ Len(stored) \in Nat
  BY <1>4
<1>6. ASSUME NEW d PROVE D!IsStored(d)' <=> D!IsStored(d) \/ d = posts[e][k].doc
  <2>1. \A i : i \in 1 .. Len(stored') <=> i \in 1 .. Len(stored) \/ i = Len(stored) + 1
    BY <1>5
  <2> QED BY <2>1, <1>5 DEF D!IsStored
<1>7. ASSUME NEW x \in Exporters PROVE Honest(x)'
  <2>1. Honest(x) /\ Numbered(x) /\ Once(x) /\ Numbered(e)
    BY DEF IInv
  <2> SUFFICES ASSUME NEW j \in 1 .. Len(posts[x])
               PROVE  /\ D!IsStored(posts[x][j].doc)' <=> Accepted(x, j)'
                      /\ posts'[x][j].status = Ok => Accepted(x, j)'
    BY <1>1 DEF Honest
  <2>2. D!IsStored(posts[x][j].doc)' <=> D!IsStored(posts'[x][j].doc) \/ posts[x][j].doc = posts[e][k].doc
    BY <1>6, <1>1
  <2>3. CASE x # e \/ j # k
    <3>1. posts[x][j].doc # posts[e][k].doc
      BY <2>1, <2>3, <1>3 DEF Numbered, Once
    <3> QED BY <2>1, <2>2, <2>3, <3>1, <1>1 DEF Honest, Accepted
  <2>4. CASE x = e /\ j = k
    BY <2>2, <2>4, <1>2 DEF Accepted
  <2> QED BY <2>3, <2>4
<1>8. Sent'
  <2> SUFFICES ASSUME NEW i \in 1 .. Len(stored')
               PROVE  \E x \in Exporters : \E j \in 1 .. Len(posts'[x]) :
                          posts'[x][j].doc = stored'[i]
    BY DEF Sent
  <2>1. CASE i = Len(stored) + 1
    BY <2>1, <1>1, <1>3, <1>5
  <2>2. CASE i \in 1 .. Len(stored)
    <3>1. PICK x \in Exporters : \E j \in 1 .. Len(posts[x]) : posts[x][j].doc = stored[i]
      BY <2>2 DEF Sent, IInv
    <3>2. PICK j \in 1 .. Len(posts[x]) : posts[x][j].doc = stored[i]
      BY <3>1
    <3>3. j \in 1 .. Len(posts'[x]) /\ posts'[x][j].doc = stored'[i]
      BY <2>2, <3>2, <1>1, <1>5
    <3> QED BY <3>3
  <2> QED BY <2>1, <2>2, <1>5
<1> QED BY <1>7, <1>8

\* A new request, of a document that none was sent of.
LEMMA OpenKeeps ==
    ASSUME IInv, NEW e \in Exporters, Open(e), pc[e] \in {"init", "open"},
           UNCHANGED <<exports, stored>>
    PROVE  /\ posts' \in [Exporters -> Seq(Requests)]
           /\ \A x \in Exporters : x # e => posts'[x] = posts[x]
           /\ Len(posts'[e]) > 0 /\ posts'[e][Len(posts'[e])].doc = Doc(e)
           /\ \A x \in Exporters : Numbered(x)' /\ Once(x)' /\ Honest(x)'
           /\ Sent'
<1>0. Types /\ Fate(e) /\ Numbered(e) /\ Once(e) /\ Fresh(e) /\ Honest(e)
  BY DEF IInv
<1>1. exports[e] > 0 /\ Doc(e) \in Documents /\ exports[e] \in Nat
  BY <1>0, DocIsDocument DEF Fate, Types
<1>2. Post(Doc(e)) \in Requests /\ posts[e] \in Seq(Requests)
  BY <1>0, <1>1 DEF Post, Requests, Statuses, Waiting, Types
<1>3. posts' = [posts EXCEPT ![e] = Append(posts[e], Post(Doc(e)))]
  BY DEF Open
<1>4. /\ posts' \in [Exporters -> Seq(Requests)] /\ posts'[e] = Append(posts[e], Post(Doc(e)))
      /\ \A x \in Exporters : x # e => posts'[x] = posts[x]
  BY <1>0, <1>2, <1>3 DEF Types
<1>5. /\ Len(posts[e]) \in Nat /\ Len(posts'[e]) = Len(posts[e]) + 1
      /\ posts'[e][Len(posts[e]) + 1] = Post(Doc(e))
      /\ \A j \in 1 .. Len(posts[e]) : posts'[e][j] = posts[e][j]
  BY <1>2, <1>4
<1>6. \A j : j \in 1 .. Len(posts'[e]) <=> j \in 1 .. Len(posts[e]) \/ j = Len(posts[e]) + 1
  BY <1>5
<1>7. Post(Doc(e)).doc = <<e, exports[e]>> /\ Post(Doc(e)).status = 0 /\ Post(Doc(e)).reply = 0
  BY DEF Post, Doc, Waiting
<1>8. Numbered(e)'
  <2> SUFFICES ASSUME NEW j \in 1 .. Len(posts'[e])
               PROVE  /\ posts'[e][j].doc = <<e, posts'[e][j].doc[2]>>
                      /\ posts'[e][j].doc[2] \in 1 .. exports[e]
    BY DEF Numbered
  <2>1. CASE j \in 1 .. Len(posts[e])
    BY <2>1, <1>0, <1>5 DEF Numbered
  <2>2. CASE j = Len(posts[e]) + 1
    BY <2>2, <1>1, <1>5, <1>7
  <2> QED BY <2>1, <2>2, <1>6
<1>9. \A j \in 1 .. Len(posts[e]) : posts[e][j].doc # <<e, exports[e]>>
  BY <1>0 DEF Fresh, Doc
<1>10. Once(e)'
  <2> SUFFICES ASSUME NEW i \in 1 .. Len(posts'[e]), NEW j \in 1 .. Len(posts'[e]),
                      posts'[e][i].doc = posts'[e][j].doc
               PROVE  i = j
    BY DEF Once
  <2>1. CASE i \in 1 .. Len(posts[e]) /\ j \in 1 .. Len(posts[e])
    BY <2>1, <1>0, <1>5 DEF Once
  <2>2. CASE i = Len(posts[e]) + 1 \/ j = Len(posts[e]) + 1
    BY <2>2, <1>5, <1>6, <1>7, <1>9
  <2> QED BY <2>1, <2>2, <1>6
<1>11. ~D!IsStored(<<e, exports[e]>>)
  <2> SUFFICES ASSUME NEW i \in 1 .. Len(stored), stored[i] = <<e, exports[e]>> PROVE FALSE
    BY DEF D!IsStored
  <2>1. PICK x \in Exporters : \E j \in 1 .. Len(posts[x]) : posts[x][j].doc = stored[i]
    BY DEF Sent, IInv
  <2>2. PICK j \in 1 .. Len(posts[x]) : posts[x][j].doc = stored[i]
    BY <2>1
  <2>3. x = e
    BY <2>2 DEF Numbered, IInv
  <2> QED BY <2>2, <2>3, <1>9
<1>12. \A d : D!IsStored(d)' <=> D!IsStored(d)
  BY DEF D!IsStored
<1>13. Honest(e)'
  <2> SUFFICES ASSUME NEW j \in 1 .. Len(posts'[e])
               PROVE  /\ D!IsStored(posts'[e][j].doc) <=> Accepted(e, j)'
                      /\ posts'[e][j].status = Ok => Accepted(e, j)'
    BY DEF Honest, D!IsStored
  <2>1. CASE j \in 1 .. Len(posts[e])
    BY <2>1, <1>0, <1>5 DEF Honest, Accepted
  <2>2. CASE j = Len(posts[e]) + 1
    BY <2>2, <1>5, <1>7, <1>11 DEF Accepted, Ok
  <2> QED BY <2>1, <2>2, <1>6
<1>14. ASSUME NEW x \in Exporters, x # e PROVE Numbered(x)' /\ Once(x)' /\ Honest(x)'
  <2>1. posts'[x] = posts[x] /\ Numbered(x) /\ Once(x) /\ Honest(x)
    BY <1>4, <1>14 DEF IInv
  <2> QED BY <2>1 DEF Numbered, Once, Honest, Accepted, D!IsStored
<1>15. Sent'
  <2> SUFFICES ASSUME NEW i \in 1 .. Len(stored)
               PROVE  \E x \in Exporters : \E j \in 1 .. Len(posts'[x]) :
                          posts'[x][j].doc = stored[i]
    BY DEF Sent
  <2>1. PICK x \in Exporters : \E j \in 1 .. Len(posts[x]) : posts[x][j].doc = stored[i]
    BY DEF Sent, IInv
  <2>2. PICK j \in 1 .. Len(posts[x]) : posts[x][j].doc = stored[i]
    BY <2>1
  <2>3. j \in 1 .. Len(posts'[x]) /\ posts'[x][j].doc = stored[i]
    BY <2>2, <1>4, <1>5, <1>6
  <2> QED BY <2>3
<1>16. Len(posts'[e]) > 0 /\ posts'[e][Len(posts'[e])].doc = Doc(e)
  BY <1>5, <1>7 DEF Doc
<1> QED BY <1>4, <1>8, <1>10, <1>13, <1>14, <1>15, <1>16

-----------------------------------------------------------------------------
(* The steps of an exporter's task *)

\* A step of e's task is none of another's.
OthersStay(e) ==
    \A x \in Exporters \ {e} :
        /\ pc'[x] = pc[x] /\ exports'[x] = exports[x] /\ active'[x] = active[x]
        /\ client'[x] = client[x] /\ told'[x] = told[x] /\ posts'[x] = posts[x]
        /\ FatesStay(x)

LEMMA StepKeeps ==
    ASSUME IInv, NEW e \in Exporters, Types', OthersStay(e),
           Session(e)', Fate(e)', Fresh(e)', Current(e)',
           \A x \in Exporters : Numbered(x)' /\ Once(x)' /\ Honest(x)', Sent'
    PROVE  IInv'
<1>1. ASSUME NEW x \in Exporters \ {e}
      PROVE  Session(x)' /\ Fate(x)' /\ Fresh(x)' /\ Current(x)'
  <2>1. /\ pc'[x] = pc[x] /\ exports'[x] = exports[x] /\ active'[x] = active[x]
        /\ client'[x] = client[x] /\ told'[x] = told[x] /\ posts'[x] = posts[x]
        /\ FatesStay(x)
    BY DEF OthersStay
  <2>2. /\ Types /\ Session(x) /\ Fate(x) /\ Numbered(x) /\ Once(x) /\ Fresh(x) /\ Current(x)
    BY DEF IInv
  <2>3. Session(x)' /\ Fate(x)'
    BY <2>1, <2>2, SessionStays
  <2>4. Fresh(x)' /\ Current(x)'
    BY <2>1, <2>2, PostsStay
  <2> QED BY <2>3, <2>4
<1> QED BY <1>1 DEF IInv

\* A step that leaves the requests alone.
LEMMA QuietStepKeeps ==
    ASSUME IInv, NEW e \in Exporters, Types', OthersStay(e), UNCHANGED <<posts, stored, exports>>,
           Session(e)', Fate(e)', Fresh(e)', Current(e)'
    PROVE  IInv'
<1>1. ASSUME NEW x \in Exporters PROVE Numbered(x)' /\ Once(x)' /\ Honest(x)'
  BY HonestyStays DEF IInv, Numbered, Once
<1>2. Sent'
  BY HonestyStays DEF IInv
<1> QED BY <1>1, <1>2, StepKeeps

\* The handler is told its first and only event.
LEMMA FirstTold ==
    ASSUME Types, NEW e \in Exporters, told[e] = <<>>,
           NEW what \in {"CreateFailed", "NetworkError"}, Tell(e, what)
    PROVE  /\ told' \in [Exporters -> Seq(Events)] /\ told'[e] = <<what>>
           /\ \A x \in Exporters \ {e} : told'[x] = told[x]
<1>1. <<what>> \in Seq(Events)
  BY DEF Events
<1>2. told' = [told EXCEPT ![e] = <<what>>]
  <2>1. Append(told[e], what) = <<what>>
    OBVIOUS
  <2> QED BY <2>1 DEF Tell
<1>3. told \in [Exporters -> Seq(Events)]
  BY DEF Types
<1> QED BY <1>1, <1>2, <1>3

LEMMA SendRequestIInv == ASSUME IInv, NEW e \in Exporters, SendRequest(e) PROVE IInv'
<1>1. /\ Types /\ Session(e) /\ Fate(e) /\ Fresh(e) /\ Current(e)
      /\ pc[e] = "send" /\ told[e] = <<>>
      /\ UNCHANGED <<exports, request, client, shut, posts, stored, outcome>>
  BY DEF IInv, SendRequest, Session
<1>2. CASE request[e]
  <2>1. /\ active' = [active EXCEPT ![e] = TRUE] /\ told' = told
        /\ pc' = [pc EXCEPT ![e] = "init"]
    BY <1>2 DEF SendRequest, Goto
  <2>2. Types' /\ OthersStay(e)
    BY <1>1, <2>1 DEF Types, OthersStay, FatesStay, Steps
  <2>3. Session(e)' /\ Fate(e)' /\ Fresh(e)' /\ Current(e)'
    BY <1>1, <2>1 DEF Types, Session, AnEnd, Fate, Fresh, Current, Told, Last, Doc
  <2> QED BY <1>1, <2>2, <2>3, QuietStepKeeps
<1>3. CASE ~request[e]
  <2>1. /\ active' = active /\ pc' = [pc EXCEPT ![e] = "wait"]
        /\ told' \in [Exporters -> Seq(Events)] /\ told'[e] = <<"CreateFailed">>
        /\ \A x \in Exporters \ {e} : told'[x] = told[x]
    BY <1>1, <1>3, FirstTold DEF SendRequest, Goto
  <2>2. Types' /\ OthersStay(e)
    BY <1>1, <2>1 DEF Types, OthersStay, FatesStay, Steps
  <2>3. Session(e)' /\ Fate(e)'
    BY <1>1, <2>1 DEF Types, Session, AnEnd, Fate, Doc
  <2>4. Fresh(e)' /\ Current(e)'
    BY <1>1, <2>1 DEF Types, Fresh, Current, Told
  <2> QED BY <1>1, <2>2, <2>3, <2>4, QuietStepKeeps
<1> QED BY <1>2, <1>3

LEMMA OpenSessionIInv == ASSUME IInv, NEW e \in Exporters, OpenSession(e) PROVE IInv'
<1>1. /\ Types /\ Session(e) /\ Fate(e) /\ Fresh(e) /\ Current(e)
      /\ pc[e] = "init" /\ told[e] = <<>> /\ e \in Signals
      /\ UNCHANGED <<exports, request, active, shut, stored, outcome>>
  BY DEF IInv, OpenSession, Session, Exporters
<1>2. CASE Open(e) /\ Goto(e, "perform") /\ UNCHANGED told
  <2>1. /\ client' = [client EXCEPT ![e] = TRUE] /\ told' = told
        /\ pc' = [pc EXCEPT ![e] = "perform"]
    BY <1>2 DEF Open, Goto
  <2>2. /\ posts' \in [Exporters -> Seq(Requests)]
        /\ \A x \in Exporters : x # e => posts'[x] = posts[x]
        /\ Len(posts'[e]) > 0 /\ posts'[e][Len(posts'[e])].doc = Doc(e)
    BY <1>1, <1>2, OpenKeeps
  <2>a. Sent'
    BY <1>1, <1>2, OpenKeeps
  <2>b. ASSUME NEW x \in Exporters PROVE Numbered(x)' /\ Once(x)' /\ Honest(x)'
    BY <1>1, <1>2, OpenKeeps
  <2>3. Types' /\ OthersStay(e)
    BY <1>1, <2>1, <2>2 DEF Types, OthersStay, FatesStay, Steps
  <2>4. Session(e)' /\ Fate(e)'
    BY <1>1, <2>1 DEF Types, Session, AnEnd, Fate, Doc
  <2>5. Fresh(e)' /\ Current(e)'
    BY <1>1, <2>1, <2>2 DEF Types, Fresh, Current, Told, Last, Doc
  <2> QED BY <2>a, <2>b, <2>3, <2>4, <2>5, StepKeeps
<1>3. CASE NoClient(e) /\ Goto(e, "return") /\ UNCHANGED <<client, posts>>
  <2>1. /\ UNCHANGED <<client, posts>> /\ pc' = [pc EXCEPT ![e] = "return"]
        /\ told' \in [Exporters -> Seq(Events)] /\ told'[e] = <<"CreateFailed">>
        /\ \A x \in Exporters \ {e} : told'[x] = told[x]
    BY <1>1, <1>3, FirstTold DEF NoClient, Goto
  <2>2. Types' /\ OthersStay(e)
    BY <1>1, <2>1 DEF Types, OthersStay, FatesStay, Steps
  <2>3. Session(e)' /\ Fate(e)'
    BY <1>1, <2>1 DEF Types, Session, AnEnd, Fate, Doc
  <2>4. Fresh(e)' /\ Current(e)'
    BY <1>1, <2>1 DEF Types, Fresh, Current, Told
  <2> QED BY <1>1, <2>1, <2>2, <2>3, <2>4, QuietStepKeeps
<1> QED BY <1>2, <1>3 DEF OpenSession

\* Perform gives up: at most the request's body is cut off.
LEMMA GiveUpKeeps ==
    ASSUME IInv, NEW e \in Exporters, pc[e] = "perform", GiveUp(e), UNCHANGED <<exports, stored>>
    PROVE  /\ posts' \in [Exporters -> Seq(Requests)]
           /\ \A x \in Exporters \ {e} : posts'[x] = posts[x]
           /\ \A x \in Exporters : Numbered(x)' /\ Once(x)' /\ Honest(x)'
           /\ Sent'
<1>1. Types /\ Current(e)
  BY DEF IInv
<1>2. CASE UNCHANGED posts
  <2>1. posts' \in [Exporters -> Seq(Requests)] /\ \A x \in Exporters \ {e} : posts'[x] = posts[x]
    BY <1>1, <1>2 DEF Types
  <2>2. ASSUME NEW x \in Exporters PROVE Numbered(x)' /\ Once(x)' /\ Honest(x)'
    BY <1>2, HonestyStays DEF IInv, Numbered, Once
  <2>3. Sent'
    BY <1>2, HonestyStays DEF IInv
  <2> QED BY <2>1, <2>2, <2>3
<1>3. CASE posts' = [posts EXCEPT ![e][Len(posts[e])].whole = FALSE]
  <2> DEFINE k == Len(posts[e])
             r == [posts[e][k] EXCEPT !.whole = FALSE]
  <2>1. posts[e] \in Seq(Requests) /\ k > 0
    BY <1>1 DEF Types, Current
  <2>2. k \in 1 .. Len(posts[e]) /\ posts[e][k] \in Requests
    BY <2>1
  <2>3. /\ r \in Requests /\ r.doc = posts[e][k].doc /\ r.status = posts[e][k].status
        /\ r.reply = posts[e][k].reply
    BY <2>2 DEF Requests
  <2>4. posts' = [posts EXCEPT ![e] = [@ EXCEPT ![k] = r]]
    BY <1>3
  <2> HIDE DEF k, r
  <2>5. Updated(e, k, r)
    BY <2>2, <2>3, <2>4 DEF Updated
  <2>6. /\ posts' \in [Exporters -> Seq(Requests)]
    <3>1. UpdatedOnly(e, k, r)
      BY <1>1, <2>5, UpdateFacts
    <3> QED BY <3>1 DEF UpdatedOnly
  <2>7. \A x \in Exporters \ {e} : posts'[x] = posts[x]
    BY <1>1, <2>4 DEF Types
  <2>8. \A x \in Exporters : Numbered(x)' /\ Once(x)'
    BY <2>5, UpdateKeeps
  <2>9. e \notin Signals /\ r.status = Ok => r.reply = Ok
    BY <2>2, <2>3 DEF IInv, Honest, Accepted
  <2>10. (\A x \in Exporters : Honest(x)') /\ Sent'
    BY <2>3, <2>5, <2>9, UpdateIsHonest
  <2> QED BY <2>6, <2>7, <2>8, <2>10
<1> QED BY <1>2, <1>3 DEF GiveUp

LEMMA SessionFailsIInv == ASSUME IInv, NEW e \in Exporters, SessionFails(e) PROVE IInv'
<1>1. /\ Types /\ Session(e) /\ Fate(e)
      /\ pc[e] = "perform" /\ told[e] = <<>> /\ e \in Signals /\ GiveUp(e)
      /\ UNCHANGED <<exports, request, active, client, shut, stored, outcome>>
  BY ProfilesAssumption DEF IInv, SessionFails, Session
<1>2. /\ pc' = [pc EXCEPT ![e] = "cleanup"]
      /\ told' \in [Exporters -> Seq(Events)] /\ told'[e] = <<"NetworkError">>
      /\ \A x \in Exporters \ {e} : told'[x] = told[x]
  BY <1>1, FirstTold DEF SessionFails, Goto, AfterError
<1>3. posts' \in [Exporters -> Seq(Requests)] /\ \A x \in Exporters \ {e} : posts'[x] = posts[x]
  BY <1>1, GiveUpKeeps
<1>4. \A x \in Exporters : Numbered(x)' /\ Once(x)' /\ Honest(x)'
  BY <1>1, GiveUpKeeps
<1>5. Sent'
  BY <1>1, GiveUpKeeps
<1>6. Types' /\ OthersStay(e)
  BY <1>1, <1>2, <1>3 DEF Types, OthersStay, FatesStay, Steps
<1>7. Session(e)' /\ Fate(e)'
  BY <1>1, <1>2, ProfilesAssumption DEF Types, Session, AnEnd, Fate, Doc
<1>8. Fresh(e)' /\ Current(e)'
  BY <1>1, <1>2 DEF Types, Fresh, Current, Told
<1> QED BY <1>4, <1>5, <1>6, <1>7, <1>8, StepKeeps

LEMMA SessionAnsweredIInv == ASSUME IInv, NEW e \in Exporters, SessionAnswered(e) PROVE IInv'
<1>1. /\ Types /\ Session(e) /\ Fate(e) /\ Current(e)
      /\ pc[e] = "perform" /\ told[e] = <<>> /\ e \in Signals /\ Last(e).status # Waiting
      /\ UNCHANGED <<exports, request, active, client, shut, posts, stored, outcome>>
      /\ pc' = [pc EXCEPT ![e] = "cleanup"]
  BY ProfilesAssumption DEF IInv, SessionAnswered, Session, Goto
<1>2. told' = [told EXCEPT ![e] = <<"OnResponse", "Response">>]
  <2>1. told[e] \o <<"OnResponse", "Response">> = <<"OnResponse", "Response">>
    BY <1>1
  <2> QED BY <2>1 DEF SessionAnswered
<1>3. told' \in [Exporters -> Seq(Events)] /\ told'[e] = <<"OnResponse", "Response">>
  <2>1. <<"OnResponse", "Response">> \in Seq(Events)
    BY DEF Events
  <2> QED BY <1>1, <1>2, <2>1 DEF Types
<1>4. Types' /\ OthersStay(e)
  BY <1>1, <1>2, <1>3 DEF Types, OthersStay, FatesStay, Steps
<1>5. Session(e)' /\ Fate(e)'
  BY <1>1, <1>3, ProfilesAssumption DEF Types, Session, AnEnd, Fate, Doc
<1>6. Fresh(e)' /\ Current(e)'
  BY <1>1 DEF Types, Fresh, Current, Last, Doc
<1> QED BY <1>1, <1>4, <1>5, <1>6, QuietStepKeeps

LEMMA CleanUpIInv == ASSUME IInv, NEW e \in Exporters, CleanUp(e) PROVE IInv'
<1>1. /\ Types /\ Session(e) /\ Fate(e) /\ Current(e) /\ pc[e] = "cleanup"
      /\ UNCHANGED <<exports, request, active, told, shut, posts, stored, outcome>>
      /\ pc' = [pc EXCEPT ![e] = "return"] /\ client' = [client EXCEPT ![e] = FALSE]
  BY DEF IInv, CleanUp, Goto, Close
<1>2. Types' /\ OthersStay(e)
  BY <1>1 DEF Types, OthersStay, FatesStay, Steps
<1>3. Session(e)' /\ Fate(e)'
  BY <1>1 DEF Types, Session, Fate, Doc
<1>4. Fresh(e)' /\ Current(e)'
  BY <1>1 DEF Types, Fresh, Current, Last, Told, Doc
<1> QED BY <1>1, <1>2, <1>3, <1>4, QuietStepKeeps

LEMMA ReturnIInv == ASSUME IInv, NEW e \in Exporters, Return(e) PROVE IInv'
<1>1. /\ Types /\ Session(e) /\ Fate(e) /\ Current(e) /\ pc[e] = "return"
      /\ UNCHANGED <<exports, request, client, told, shut, posts, stored, outcome>>
      /\ pc' = [pc EXCEPT ![e] = "wait"] /\ active' = [active EXCEPT ![e] = FALSE]
  BY DEF IInv, Return, Goto
<1>2. Types' /\ OthersStay(e)
  BY <1>1 DEF Types, OthersStay, FatesStay, Steps
<1>3. Session(e)' /\ Fate(e)'
  BY <1>1 DEF Types, Session, Fate, Doc
<1>4. Fresh(e)' /\ Current(e)'
  BY <1>1 DEF Types, Fresh, Current, Last, Told, Doc
<1> QED BY <1>1, <1>2, <1>3, <1>4, QuietStepKeeps

\* An exporter learns the fate of its document.
LEMMA FateIsKnown ==
    ASSUME Types, NEW e \in Exporters, exports[e] > 0, NEW what \in Fates, Know(Doc(e), what)
    PROVE  /\ outcome' \in [Documents -> Fates] /\ outcome'[<<e, exports[e]>>] = what
           /\ \A n \in exports[e] + 1 .. MaxDocuments[e] : outcome'[<<e, n>>] = outcome[<<e, n>>]
           /\ \A x \in Exporters \ {e} : FatesStay(x)
<1>1. /\ Doc(e) \in Documents /\ outcome \in [Documents -> Fates] /\ Doc(e) = <<e, exports[e]>>
      /\ exports[e] \in Nat /\ MaxDocuments[e] \in Nat
  BY DocIsDocument, MaxDocumentsAssumption DEF Types, Doc
<1>2. outcome' = [outcome EXCEPT ![Doc(e)] = what]
  BY DEF Know
<1>3. ASSUME NEW x \in Exporters \ {e} PROVE FatesStay(x)
  <2> SUFFICES ASSUME NEW n \in 1 .. MaxDocuments[x]
               PROVE  outcome'[<<x, n>>] = outcome[<<x, n>>]
    BY DEF FatesStay
  <2>1. <<x, n>> \in Documents
    BY DocumentParts
  <2> QED BY <2>1, <1>1, <1>2
<1>4. ASSUME NEW n \in exports[e] + 1 .. MaxDocuments[e]
      PROVE  outcome'[<<e, n>>] = outcome[<<e, n>>]
  <2>1. <<e, n>> \in Documents /\ n # exports[e]
    BY <1>1, DocumentParts
  <2> QED BY <2>1, <1>1, <1>2
<1> QED BY <1>1, <1>2, <1>3, <1>4

LEMMA FinishIInv == ASSUME IInv, NEW e \in Exporters, Finish(e) PROVE IInv'
<1>1. /\ Types /\ Session(e) /\ Fate(e) /\ pc[e] = "wait"
      /\ UNCHANGED <<exports, active, client, shut, posts, stored>>
      /\ pc' = [pc EXCEPT ![e] = "idle"] /\ told' = [told EXCEPT ![e] = <<>>]
      /\ request' = [request EXCEPT ![e] = FALSE]
      /\ \E what \in {"delivered", "failed"} : Know(Doc(e), what)
  BY DEF IInv, Finish, Goto
<1>2. PICK what \in {"delivered", "failed"} : Know(Doc(e), what)
  BY <1>1
<1>3. /\ outcome' \in [Documents -> Fates] /\ outcome'[<<e, exports[e]>>] = what
      /\ \A n \in exports[e] + 1 .. MaxDocuments[e] : outcome'[<<e, n>>] = outcome[<<e, n>>]
      /\ \A x \in Exporters \ {e} : FatesStay(x)
  BY <1>1, <1>2, FateIsKnown DEF Fate, Fates
<1>4. Types' /\ OthersStay(e)
  BY <1>1, <1>3 DEF Types, OthersStay, Steps
<1>5. Session(e)' /\ Fate(e)'
  BY <1>1, <1>3 DEF Types, Session, Fate, Doc
<1>6. Fresh(e)' /\ Current(e)'
  BY <1>1 DEF Types, Fresh, Current, Told
<1> QED BY <1>1, <1>4, <1>5, <1>6, QuietStepKeeps

LEMMA ShutdownIInv == ASSUME IInv, NEW e \in Exporters, Shutdown(e) PROVE IInv'
<1>1. /\ Types /\ Session(e) /\ Fate(e) /\ Fresh(e) /\ Current(e)
      /\ shut' = shut \cup {e} /\ e \in Signals
      /\ UNCHANGED <<pc, exports, request, active, client, told, posts, stored, outcome>>
  BY DEF IInv, Shutdown
<1>2. Types' /\ OthersStay(e)
  BY <1>1 DEF Types, OthersStay, FatesStay
<1>3. Session(e)' /\ Fate(e)'
  BY <1>1 DEF Session, Fate, Doc
<1>4. Fresh(e)' /\ Current(e)'
  BY <1>1 DEF Fresh, Current, Last, Told, Doc
<1> QED BY <1>1, <1>2, <1>3, <1>4, QuietStepKeeps

\* An exporter's next document is one that no request is of.
LEMMA NextDocument ==
    ASSUME IInv, NEW e \in Exporters, pc[e] = "idle", exports[e] < MaxDocuments[e],
           exports' = [exports EXCEPT ![e] = @ + 1], UNCHANGED <<posts, stored>>
    PROVE  /\ exports' \in [Exporters -> Nat] /\ exports'[e] = exports[e] + 1
           /\ exports'[e] \in 1 .. MaxDocuments[e] /\ <<e, exports'[e]>> \in Documents
           /\ \A x \in Exporters : exports'[x] <= MaxDocuments[x]
           /\ \A x \in Exporters : Numbered(x)' /\ Once(x)' /\ Honest(x)'
           /\ Sent' /\ Fresh(e)'
<1>1. /\ exports \in [Exporters -> Nat] /\ MaxDocuments[e] \in Nat
      /\ \A x \in Exporters : exports[x] <= MaxDocuments[x]
  BY MaxDocumentsAssumption DEF IInv, Types
<1>2. /\ exports' \in [Exporters -> Nat] /\ exports'[e] = exports[e] + 1
      /\ \A x \in Exporters : x # e => exports'[x] = exports[x]
  BY <1>1
<1>3. exports'[e] \in 1 .. MaxDocuments[e]
  BY <1>1, <1>2
<1>4. <<e, exports'[e]>> \in Documents
  BY <1>3, DocumentParts
<1>5. \A x \in Exporters : exports'[x] <= MaxDocuments[x]
  BY <1>1, <1>2, <1>3
<1>6. ASSUME NEW x \in Exporters PROVE Numbered(x)' /\ Once(x)' /\ Honest(x)'
  <2>1. Numbered(x) /\ Once(x) /\ exports[x] \in Nat /\ exports'[x] \in exports[x] .. (exports[x] + 1)
    BY <1>1, <1>2 DEF IInv
  <2>2. Numbered(x)'
    BY <2>1 DEF Numbered
  <2>3. Once(x)' /\ Honest(x)'
    BY <2>1, HonestyStays DEF Once, IInv
  <2> QED BY <2>2, <2>3
<1>7. Sent'
  BY HonestyStays DEF IInv
<1>8. Fresh(e)'
  <2>1. Numbered(e)
    BY DEF IInv
  <2> SUFFICES ASSUME NEW k \in 1 .. Len(posts[e]) PROVE posts[e][k].doc # <<e, exports'[e]>>
    BY DEF Fresh, Doc
  <2>2. posts[e][k].doc[2] <= exports[e] /\ posts[e][k].doc[2] \in Nat
    BY <2>1, <1>1 DEF Numbered
  <2> QED BY <2>2, <1>1, <1>2
<1> QED BY <1>2, <1>3, <1>4, <1>5, <1>6, <1>7, <1>8

LEMMA BeginIInv == ASSUME IInv, NEW e \in Exporters, Begin(e) PROVE IInv'
<1>1. /\ Types /\ Session(e) /\ Fate(e) /\ Current(e) /\ pc[e] = "idle" /\ e \in Signals
      /\ exports[e] < MaxDocuments[e] /\ exports' = [exports EXCEPT ![e] = @ + 1]
      /\ UNCHANGED <<active, client, told, shut, posts, stored>>
  BY DEF IInv, Begin
<1>2. /\ exports' \in [Exporters -> Nat] /\ exports'[e] = exports[e] + 1
      /\ exports'[e] \in 1 .. MaxDocuments[e] /\ <<e, exports'[e]>> \in Documents
      /\ \A x \in Exporters : exports'[x] <= MaxDocuments[x]
      /\ \A x \in Exporters \ {e} : exports'[x] = exports[x]
  BY <1>1, NextDocument DEF Types
<1>3. ASSUME NEW x \in Exporters PROVE Numbered(x)' /\ Once(x)' /\ Honest(x)'
  BY <1>1, NextDocument
<1>4. Sent' /\ Fresh(e)'
  BY <1>1, NextDocument
<1>5. told[e] = <<>> /\ outcome \in [Documents -> Fates] /\ exports[e] \in Nat
  BY <1>1 DEF Session, Types
<1>6. Current(e)'
  <2>1. pc'[e] # "perform"
    BY <1>1 DEF Begin, Goto, Types
  <2> QED BY <1>1, <1>5, <2>1 DEF Current, Told
<1>7. CASE e \in shut
  <2>1. /\ outcome' = [outcome EXCEPT ![<<e, exports'[e]>>] = "failed"]
        /\ UNCHANGED <<pc, request>>
    BY <1>2, <1>7 DEF Begin
  <2>2. outcome' \in [Documents -> Fates] /\ outcome'[<<e, exports'[e]>>] = "failed"
    BY <1>2, <1>5, <2>1 DEF Fates
  <2>3. ASSUME NEW x \in Exporters \ {e} PROVE FatesStay(x)
    <3> SUFFICES ASSUME NEW n \in 1 .. MaxDocuments[x]
                 PROVE  outcome'[<<x, n>>] = outcome[<<x, n>>]
      BY DEF FatesStay
    <3>1. <<x, n>> \in Documents
      BY DocumentParts
    <3> QED BY <3>1, <1>5, <2>1
  <2>4. ASSUME NEW n \in exports'[e] + 1 .. MaxDocuments[e]
        PROVE  outcome'[<<e, n>>] = "unknown"
    <3>1. <<e, n>> \in Documents /\ n \in exports[e] + 1 .. MaxDocuments[e] /\ n # exports'[e]
      BY <1>2, <1>5, DocumentParts, MaxDocumentsAssumption
    <3> QED BY <3>1, <1>1, <1>5, <2>1 DEF Fate
  <2>5. Types'
    BY <1>1, <1>2, <2>1, <2>2 DEF Types
  <2>6. OthersStay(e)
    BY <1>1, <1>2, <2>1, <2>3 DEF OthersStay
  <2>7. Session(e)'
    BY <1>1, <2>1 DEF Session
  <2>8. Fate(e)'
    BY <1>1, <1>2, <1>5, <2>1, <2>2, <2>4 DEF Fate, Doc
  <2> QED BY <1>3, <1>4, <1>6, <2>5, <2>6, <2>7, <2>8, StepKeeps
<1>8. CASE e \notin shut
  <2>1. /\ pc' = [pc EXCEPT ![e] = "send"] /\ outcome' = outcome
        /\ request' \in [Exporters -> BOOLEAN]
    BY <1>1, <1>8 DEF Begin, Goto, Types
  <2>2. outcome[<<e, exports'[e]>>] = "unknown"
    BY <1>1, <1>2, <1>5 DEF Fate
  <2>3. Types' /\ OthersStay(e)
    BY <1>1, <1>2, <2>1 DEF Types, OthersStay, FatesStay, Steps
  <2>4. \A n \in exports'[e] + 1 .. MaxDocuments[e] : outcome[<<e, n>>] = "unknown"
    BY <1>1, <1>2, <1>5, MaxDocumentsAssumption DEF Fate
  <2>5. Session(e)' /\ Fate(e)'
    BY <1>1, <1>2, <1>5, <2>1, <2>2, <2>4, ProfilesAssumption DEF Types, Session, Fate, Doc
  <2> QED BY <1>3, <1>4, <1>6, <2>3, <2>5, StepKeeps
<1> QED BY <1>7, <1>8

LEMMA BeginProfilesIInv == ASSUME IInv, NEW e \in Exporters, BeginProfiles(e) PROVE IInv'
<1>1. /\ Types /\ Session(e) /\ Fate(e) /\ Current(e) /\ pc[e] = "idle" /\ e = Profiles
      /\ exports[e] < MaxDocuments[e] /\ exports' = [exports EXCEPT ![e] = @ + 1]
      /\ pc' = [pc EXCEPT ![e] = "open"]
      /\ UNCHANGED <<request, active, client, told, shut, posts, stored, outcome>>
  BY DEF IInv, BeginProfiles, Goto
<1>2. /\ exports' \in [Exporters -> Nat] /\ exports'[e] = exports[e] + 1
      /\ exports'[e] \in 1 .. MaxDocuments[e] /\ <<e, exports'[e]>> \in Documents
      /\ \A x \in Exporters : exports'[x] <= MaxDocuments[x]
      /\ \A x \in Exporters \ {e} : exports'[x] = exports[x]
  BY <1>1, NextDocument DEF Types
<1>3. ASSUME NEW x \in Exporters PROVE Numbered(x)' /\ Once(x)' /\ Honest(x)'
  BY <1>1, NextDocument
<1>4. Sent' /\ Fresh(e)'
  BY <1>1, NextDocument
<1>5. told[e] = <<>> /\ exports[e] \in Nat
  BY <1>1 DEF Session, Types
<1>6. outcome[<<e, exports'[e]>>] = "unknown"
  BY <1>1, <1>2, <1>5 DEF Fate
<1>7. \A n \in exports'[e] + 1 .. MaxDocuments[e] : outcome[<<e, n>>] = "unknown"
  BY <1>1, <1>2, <1>5, MaxDocumentsAssumption DEF Fate
<1>8. Types' /\ OthersStay(e)
  BY <1>1, <1>2 DEF Types, OthersStay, FatesStay, Steps
<1>9. Session(e)' /\ Fate(e)'
  BY <1>1, <1>2, <1>5, <1>6, <1>7, ProfilesAssumption DEF Types, Session, Fate, Doc
<1>10. Current(e)'
  BY <1>1, <1>5 DEF Types, Current, Told
<1> QED BY <1>3, <1>4, <1>8, <1>9, <1>10, StepKeeps

LEMMA OpenProfilesIInv == ASSUME IInv, NEW e \in Exporters, OpenProfiles(e) PROVE IInv'
<1>1. /\ Types /\ Session(e) /\ Fate(e) /\ Fresh(e) /\ Current(e)
      /\ pc[e] = "open" /\ told[e] = <<>> /\ e = Profiles /\ exports[e] > 0
      /\ UNCHANGED <<exports, request, active, told, shut, stored>>
  BY DEF IInv, OpenProfiles, Session, Fate, Exporters
<1>2. CASE Open(e) /\ Goto(e, "perform") /\ UNCHANGED outcome
  <2>1. /\ client' = [client EXCEPT ![e] = TRUE] /\ outcome' = outcome
        /\ pc' = [pc EXCEPT ![e] = "perform"]
    BY <1>2 DEF Open, Goto
  <2>2. /\ posts' \in [Exporters -> Seq(Requests)]
        /\ \A x \in Exporters : x # e => posts'[x] = posts[x]
        /\ Len(posts'[e]) > 0 /\ posts'[e][Len(posts'[e])].doc = Doc(e)
    BY <1>1, <1>2, OpenKeeps
  <2>3. Sent'
    BY <1>1, <1>2, OpenKeeps
  <2>4. ASSUME NEW x \in Exporters PROVE Numbered(x)' /\ Once(x)' /\ Honest(x)'
    BY <1>1, <1>2, OpenKeeps
  <2>5. Types' /\ OthersStay(e)
    BY <1>1, <2>1, <2>2 DEF Types, OthersStay, FatesStay, Steps
  <2>6. Session(e)' /\ Fate(e)'
    BY <1>1, <2>1 DEF Types, Session, Fate, Doc
  <2>7. Fresh(e)' /\ Current(e)'
    BY <1>1, <2>1, <2>2 DEF Types, Fresh, Current, Told, Last, Doc
  <2> QED BY <2>3, <2>4, <2>5, <2>6, <2>7, StepKeeps
<1>3. CASE Know(Doc(e), "failed") /\ Goto(e, "idle") /\ UNCHANGED <<client, posts>>
  <2>1. UNCHANGED <<client, posts>> /\ pc' = [pc EXCEPT ![e] = "idle"]
    BY <1>3 DEF Goto
  <2>2. /\ outcome' \in [Documents -> Fates] /\ outcome'[<<e, exports[e]>>] = "failed"
        /\ \A n \in exports[e] + 1 .. MaxDocuments[e] : outcome'[<<e, n>>] = outcome[<<e, n>>]
        /\ \A x \in Exporters \ {e} : FatesStay(x)
    BY <1>1, <1>3, FateIsKnown DEF Fates
  <2>3. Types' /\ OthersStay(e)
    BY <1>1, <2>1, <2>2 DEF Types, OthersStay, Steps
  <2>4. Session(e)' /\ Fate(e)'
    BY <1>1, <2>1, <2>2 DEF Types, Session, Fate, Doc
  <2>5. Fresh(e)' /\ Current(e)'
    BY <1>1, <2>1 DEF Types, Fresh, Current, Told
  <2> QED BY <1>1, <2>1, <2>3, <2>4, <2>5, QuietStepKeeps
<1> QED BY <1>1, <1>2, <1>3 DEF OpenProfiles

LEMMA ProfilesFailIInv == ASSUME IInv, NEW e \in Exporters, ProfilesFail(e) PROVE IInv'
<1>1. /\ Types /\ Session(e) /\ Fate(e) /\ exports[e] > 0
      /\ pc[e] = "perform" /\ told[e] = <<>> /\ e = Profiles /\ GiveUp(e)
      /\ Know(Doc(e), "failed") /\ pc' = [pc EXCEPT ![e] = "close"]
      /\ UNCHANGED <<exports, request, active, client, told, shut, stored>>
  BY DEF IInv, ProfilesFail, Session, Fate, Goto
<1>2. /\ outcome' \in [Documents -> Fates] /\ outcome'[<<e, exports[e]>>] = "failed"
      /\ \A n \in exports[e] + 1 .. MaxDocuments[e] : outcome'[<<e, n>>] = outcome[<<e, n>>]
      /\ \A x \in Exporters \ {e} : FatesStay(x)
  BY <1>1, FateIsKnown DEF Fates
<1>3. posts' \in [Exporters -> Seq(Requests)] /\ \A x \in Exporters \ {e} : posts'[x] = posts[x]
  BY <1>1, GiveUpKeeps
<1>4. \A x \in Exporters : Numbered(x)' /\ Once(x)' /\ Honest(x)'
  BY <1>1, GiveUpKeeps
<1>5. Sent'
  BY <1>1, GiveUpKeeps
<1>6. Types' /\ OthersStay(e)
  BY <1>1, <1>2, <1>3 DEF Types, OthersStay, Steps
<1>7. Session(e)' /\ Fate(e)'
  BY <1>1, <1>2, ProfilesAssumption DEF Types, Session, Fate, Doc
<1>8. Fresh(e)' /\ Current(e)'
  BY <1>1 DEF Types, Fresh, Current, Told
<1> QED BY <1>4, <1>5, <1>6, <1>7, <1>8, StepKeeps

LEMMA ProfilesAnsweredIInv == ASSUME IInv, NEW e \in Exporters, ProfilesAnswered(e) PROVE IInv'
<1>1. /\ Types /\ Session(e) /\ Fate(e) /\ exports[e] > 0
      /\ pc[e] = "perform" /\ told[e] = <<>> /\ e = Profiles
      /\ pc' = [pc EXCEPT ![e] = "close"]
      /\ \E what \in {"delivered", "failed"} : Know(Doc(e), what)
      /\ UNCHANGED <<exports, request, active, client, told, shut, posts, stored>>
  BY DEF IInv, ProfilesAnswered, Session, Fate, Goto
<1>2. PICK what \in {"delivered", "failed"} : Know(Doc(e), what)
  BY <1>1
<1>3. /\ outcome' \in [Documents -> Fates] /\ outcome'[<<e, exports[e]>>] = what
      /\ \A n \in exports[e] + 1 .. MaxDocuments[e] : outcome'[<<e, n>>] = outcome[<<e, n>>]
      /\ \A x \in Exporters \ {e} : FatesStay(x)
  BY <1>1, <1>2, FateIsKnown DEF Fates
<1>4. Types' /\ OthersStay(e)
  BY <1>1, <1>3 DEF Types, OthersStay, Steps
<1>5. Session(e)' /\ Fate(e)'
  BY <1>1, <1>3, ProfilesAssumption DEF Types, Session, Fate, Doc
<1>6. Fresh(e)' /\ Current(e)'
  BY <1>1 DEF Types, Fresh, Current, Told
<1> QED BY <1>1, <1>4, <1>5, <1>6, QuietStepKeeps

LEMMA CloseProfilesIInv == ASSUME IInv, NEW e \in Exporters, CloseProfiles(e) PROVE IInv'
<1>1. /\ Types /\ Session(e) /\ Fate(e) /\ pc[e] = "close" /\ told[e] = <<>>
      /\ UNCHANGED <<exports, request, active, told, shut, posts, stored, outcome>>
      /\ pc' = [pc EXCEPT ![e] = "idle"] /\ client' = [client EXCEPT ![e] = FALSE]
  BY DEF IInv, CloseProfiles, Session, Goto, Close
<1>2. Types' /\ OthersStay(e)
  BY <1>1 DEF Types, OthersStay, FatesStay, Steps
<1>3. Session(e)' /\ Fate(e)'
  BY <1>1, ProfilesAssumption DEF Types, Session, Fate, Doc, Exporters
<1>4. Fresh(e)' /\ Current(e)'
  BY <1>1 DEF Types, Fresh, Current, Told
<1> QED BY <1>1, <1>2, <1>3, <1>4, QuietStepKeeps

-----------------------------------------------------------------------------
(* The steps of the hosts *)

\* A host changes one request and nothing on the device.
LEMMA HostStepKeeps ==
    ASSUME IInv, NEW e \in Exporters, NEW k, NEW r, Updated(e, k, r), UNCHANGED device,
           stored' \in Seq(Documents), \A x \in Exporters : Honest(x)', Sent'
    PROVE  IInv'
<1>1. UNCHANGED <<pc, exports, request, active, client, told, shut, outcome>>
  BY DEF device
<1>2. Types
  BY DEF IInv
<1>3. /\ posts' \in [Exporters -> Seq(Requests)]
      /\ \A x \in Exporters :
             /\ Len(posts'[x]) = Len(posts[x])
             /\ \A j \in 1 .. Len(posts[x]) :
                    /\ posts'[x][j].doc = posts[x][j].doc
                    /\ posts[x][j].status # Waiting => posts'[x][j].status = posts[x][j].status
  <2>1. UpdatedOnly(e, k, r)
    BY <1>2, UpdateFacts
  <2> QED BY <2>1 DEF UpdatedOnly
<1>4. Types'
  BY <1>1, <1>2, <1>3 DEF Types
<1>5. ASSUME NEW x \in Exporters PROVE Numbered(x)' /\ Once(x)'
  BY <1>1, UpdateKeeps
<1>6. ASSUME NEW x \in Exporters
      PROVE  Session(x)' /\ Fate(x)' /\ Fresh(x)' /\ Current(x)'
  <2>1. Session(x) /\ Fate(x) /\ Fresh(x) /\ Current(x) /\ posts[x] \in Seq(Requests)
    BY <1>2 DEF IInv, Types
  <2>2. Session(x)' /\ Fate(x)'
    BY <2>1, <1>1 DEF Session, Fate, Doc
  <2>3. Fresh(x)'
    BY <2>1, <1>1, <1>3 DEF Fresh, Doc
  <2>4. Current(x)'
    <3>1. Len(posts[x]) > 0 => Len(posts[x]) \in 1 .. Len(posts[x])
      BY <2>1
    <3> QED BY <2>1, <3>1, <1>1, <1>3 DEF Current, Told, Last, Doc
  <2> QED BY <2>2, <2>3, <2>4
<1> QED BY <1>4, <1>5, <1>6 DEF IInv

\* An answer to a request that has none.
LEMMA AnswerUpdates ==
    ASSUME Types, NEW e \in Exporters, NEW k, Unanswered(e, k), NEW status \in Statuses,
           Answer(e, k, status)
    PROVE  Updated(e, k, [posts[e][k] EXCEPT !.status = status])
<1> DEFINE r == [posts[e][k] EXCEPT !.status = status]
<1>1. posts[e] \in Seq(Requests) /\ k \in 1 .. Len(posts[e]) /\ posts[e][k].status = Waiting
  BY DEF Types, Unanswered
<1>2. posts[e][k] \in Requests
  BY <1>1
<1>3. r \in Requests /\ r.doc = posts[e][k].doc
  BY <1>2 DEF Requests
<1>4. posts' = [posts EXCEPT ![e] = [@ EXCEPT ![k] = r]]
  BY DEF Answer
<1> HIDE DEF r
<1>5. Updated(e, k, r)
  BY <1>1, <1>3, <1>4 DEF Updated
<1> QED BY <1>5 DEF r

\* A host that answers for the collector confirms only what it confirmed.
LEMMA RelayedAnswerKeeps ==
    ASSUME IInv, NEW k, Unanswered(Profiles, k), NEW status \in Statuses,
           Answer(Profiles, k, status), status = Ok => posts[Profiles][k].reply = Ok,
           UNCHANGED <<device, stored>>
    PROVE  IInv'
<1> DEFINE r == [posts[Profiles][k] EXCEPT !.status = status]
<1>1. Types /\ Profiles \in Exporters /\ Profiles \notin Signals
  BY ProfilesAssumption DEF IInv, Exporters
<1>2. posts[Profiles][k] \in Requests /\ stored' \in Seq(Documents) /\ UNCHANGED device
  <2>1. posts[Profiles] \in Seq(Requests) /\ k \in 1 .. Len(posts[Profiles])
    BY <1>1 DEF Types, Unanswered
  <2> QED BY <1>1, <2>1 DEF Types
<1>3. r.status = status /\ r.reply = posts[Profiles][k].reply
  BY <1>2 DEF Requests
<1>4. Updated(Profiles, k, r)
  BY <1>1, AnswerUpdates
<1> HIDE DEF r
<1>5. (\A x \in Exporters : Honest(x)') /\ Sent'
  BY <1>1, <1>3, <1>4, UpdateIsHonest
<1> QED BY <1>1, <1>2, <1>4, <1>5, HostStepKeeps

LEMMA ReceiveIInv == ASSUME IInv, NEW k, Receive(k) PROVE IInv'
<1>1. /\ Types /\ Unanswered(Profiles, k) /\ UNCHANGED <<device, stored>>
      /\ Profiles \in Exporters /\ Profiles \notin Signals
  BY ProfilesAssumption DEF IInv, Receive, Exporters
<1>2. CASE posts[Profiles][k].whole
  <2> DEFINE r == [posts[Profiles][k] EXCEPT !.forwarded = TRUE]
  <2>1. /\ posts[Profiles] \in Seq(Requests) /\ k \in 1 .. Len(posts[Profiles])
        /\ stored' \in Seq(Documents)
    BY <1>1 DEF Types, Unanswered
  <2>2. posts[Profiles][k] \in Requests
    BY <2>1
  <2>3. /\ r \in Requests /\ r.doc = posts[Profiles][k].doc
        /\ r.status = posts[Profiles][k].status /\ r.reply = posts[Profiles][k].reply
    BY <2>2 DEF Requests
  <2>4. posts' = [posts EXCEPT ![Profiles] = [@ EXCEPT ![k] = r]]
    BY <1>2 DEF Receive
  <2> HIDE DEF r
  <2>5. Updated(Profiles, k, r)
    BY <2>1, <2>3, <2>4 DEF Updated
  <2>6. r.status # Ok
    BY <1>1, <2>3 DEF Unanswered, Waiting, Ok
  <2>7. (\A x \in Exporters : Honest(x)') /\ Sent'
    BY <1>1, <2>3, <2>5, <2>6, UpdateIsHonest
  <2> QED BY <1>1, <2>1, <2>5, <2>7, HostStepKeeps
<1>3. CASE ~posts[Profiles][k].whole
  <2>1. Answer(Profiles, k, Malformed) /\ Malformed \in Statuses /\ Malformed # Ok
    BY <1>3 DEF Receive, Malformed, Statuses, Ok
  <2> QED BY <1>1, <2>1, RelayedAnswerKeeps
<1> QED BY <1>2, <1>3

LEMMA RelayIInv == ASSUME IInv, NEW k, Relay(k) PROVE IInv'
<1>1. /\ Types /\ Unanswered(Profiles, k) /\ UNCHANGED <<device, stored>>
      /\ Answer(Profiles, k, Relayed(posts[Profiles][k].reply))
      /\ posts[Profiles][k].reply # Waiting /\ Profiles \in Exporters
  BY DEF IInv, Relay, Exporters
<1>2. posts[Profiles][k].reply \in Statuses
  <2>1. posts[Profiles] \in Seq(Requests) /\ k \in 1 .. Len(posts[Profiles])
    BY <1>1 DEF Types, Unanswered
  <2>2. posts[Profiles][k] \in Requests
    BY <2>1
  <2> QED BY <2>2 DEF Requests
<1>3. /\ Relayed(posts[Profiles][k].reply) \in Statuses
      /\ Relayed(posts[Profiles][k].reply) = Ok => posts[Profiles][k].reply = Ok
  BY <1>1, <1>2 DEF Relayed, Success, Statuses, Waiting, Ok, Malformed, Unavailable
<1> QED BY <1>1, <1>3, RelayedAnswerKeeps

LEMMA ForwardFailsIInv == ASSUME IInv, NEW k, ForwardFails(k) PROVE IInv'
<1>1. /\ Unanswered(Profiles, k) /\ UNCHANGED <<device, stored>>
      /\ Answer(Profiles, k, Unavailable) /\ Unavailable \in Statuses /\ Unavailable # Ok
  BY DEF ForwardFails, ReportCollector, Unavailable, Statuses, Ok
<1> QED BY <1>1, RelayedAnswerKeeps

LEMMA CollectIInv == ASSUME IInv, NEW e \in Exporters, NEW k, Collect(e, k) PROVE IInv'
<1>1. /\ Types /\ e \in Signals /\ Unanswered(e, k) /\ UNCHANGED device
      /\ posts[e] \in Seq(Requests) /\ k \in 1 .. Len(posts[e])
      /\ stored \in Seq(Documents)
  BY DEF IInv, Collect, Unanswered, Types
<1>2. posts[e][k] \in Requests /\ posts[e][k].status = Waiting
  BY <1>1 DEF Unanswered
<1>3. ASSUME stored' = Append(stored, posts[e][k].doc), Answer(e, k, Ok) PROVE IInv'
  <2> DEFINE r == [posts[e][k] EXCEPT !.status = Ok]
  <2>1. Ok \in Statuses
    BY DEF Statuses
  <2>2. Updated(e, k, r)
    BY <1>1, <1>3, <2>1, AnswerUpdates
  <2>3. r.status = Ok
    BY <1>2 DEF Requests
  <2>4. ~Accepted(e, k)
    BY <1>1, <1>2 DEF Accepted, Waiting, Ok
  <2> HIDE DEF r
  <2>5. (\A x \in Exporters : Honest(x)') /\ Sent'
    BY <1>1, <1>3, <2>2, <2>3, <2>4, StoreIsHonest
  <2>6. stored' \in Seq(Documents)
    BY <1>1, <1>2, <1>3 DEF Requests
  <2> QED BY <1>1, <2>2, <2>5, <2>6, HostStepKeeps
<1>4. ASSUME NEW status \in {Unavailable, Malformed}, Answer(e, k, status), UNCHANGED stored
      PROVE  IInv'
  <2> DEFINE r == [posts[e][k] EXCEPT !.status = status]
  <2>1. status \in Statuses /\ status # Ok
    BY DEF Statuses, Unavailable, Malformed, Ok
  <2>2. Updated(e, k, r)
    BY <1>1, <1>4, <2>1, AnswerUpdates
  <2>3. r.status = status
    BY <1>2 DEF Requests
  <2>4. posts[e][k].status # Ok
    BY <1>2 DEF Waiting, Ok
  <2> HIDE DEF r
  <2>5. (\A x \in Exporters : Honest(x)') /\ Sent'
    BY <1>1, <1>4, <2>1, <2>2, <2>3, <2>4, UpdateIsHonest
  <2>6. stored' \in Seq(Documents)
    BY <1>1, <1>4
  <2> QED BY <1>1, <2>2, <2>5, <2>6, HostStepKeeps
<1> QED BY <1>3, <1>4 DEF Collect

LEMMA CollectForwardedIInv == ASSUME IInv, NEW k, CollectForwarded(k) PROVE IInv'
<1>1. /\ Types /\ Profiles \in Exporters /\ Profiles \notin Signals /\ UNCHANGED device
      /\ posts[Profiles] \in Seq(Requests) /\ k \in 1 .. Len(posts[Profiles])
      /\ stored \in Seq(Documents)
  BY ProfilesAssumption DEF IInv, CollectForwarded, Exporters, Types
<1>2. posts[Profiles][k] \in Requests /\ posts[Profiles][k].reply = Waiting
  BY <1>1 DEF CollectForwarded
<1>3. PICK reply \in {Ok, Unavailable} :
         /\ posts' = [posts EXCEPT ![Profiles][k].reply = reply]
         /\ stored' = IF reply = Ok THEN Append(stored, posts[Profiles][k].doc) ELSE stored
  BY DEF CollectForwarded
<1> DEFINE r == [posts[Profiles][k] EXCEPT !.reply = reply]
<1>4. /\ r \in Requests /\ r.doc = posts[Profiles][k].doc
      /\ r.status = posts[Profiles][k].status /\ r.reply = reply
  BY <1>2 DEF Requests, Statuses
<1>5. posts' = [posts EXCEPT ![Profiles] = [@ EXCEPT ![k] = r]]
  BY <1>3
<1>6. posts[Profiles][k].status # Ok /\ ~Accepted(Profiles, k)
  <2>1. Honest(Profiles)
    BY <1>1 DEF IInv
  <2>2. ~Accepted(Profiles, k)
    BY <1>1, <1>2 DEF Accepted, Waiting, Ok
  <2> QED BY <1>1, <2>1, <2>2 DEF Honest
<1> HIDE DEF r
<1>7. Updated(Profiles, k, r)
  BY <1>1, <1>4, <1>5 DEF Updated
<1>8. stored' \in Seq(Documents)
  BY <1>1, <1>2, <1>3 DEF Requests
<1>9. CASE reply = Ok
  <2>1. (\A x \in Exporters : Honest(x)') /\ Sent'
    BY <1>1, <1>3, <1>4, <1>6, <1>7, <1>9, StoreIsHonest
  <2> QED BY <1>1, <1>7, <1>8, <2>1, HostStepKeeps
<1>10. CASE reply # Ok
  <2>1. posts[Profiles][k].reply # Ok /\ stored' = stored
    BY <1>2, <1>3, <1>10 DEF Waiting, Ok
  <2>2. (\A x \in Exporters : Honest(x)') /\ Sent'
    BY <1>1, <1>4, <1>6, <1>7, <1>10, <2>1, UpdateIsHonest
  <2> QED BY <1>1, <1>7, <1>8, <2>2, HostStepKeeps
<1> QED BY <1>9, <1>10

-----------------------------------------------------------------------------
(* The invariant holds, and what follows from it *)

LEMMA InitIInv == Init => IInv
<1> SUFFICES ASSUME Init PROVE IInv
  OBVIOUS
<1>1. Types
  BY MaxDocumentsAssumption DEF Init, Types, Steps, Fates
<1>2. ASSUME NEW e \in Exporters PROVE Session(e) /\ Fate(e) /\ Fresh(e) /\ Current(e)
  <2>1. \A n \in 0 + 1 .. MaxDocuments[e] : <<e, n>> \in Documents
    BY DocumentParts
  <2> QED BY <2>1, MaxDocumentsAssumption
          DEF Init, Session, Fate, Fresh, Current, Told, Exporters
<1>3. ASSUME NEW e \in Exporters PROVE Numbered(e) /\ Once(e) /\ Honest(e)
  BY DEF Init, Numbered, Once, Honest
<1>4. Sent
  BY DEF Init, Sent
<1> QED BY <1>1, <1>2, <1>3, <1>4 DEF IInv

LEMMA StutterIInv == IInv /\ UNCHANGED vars => IInv'
<1> SUFFICES ASSUME IInv, UNCHANGED vars PROVE IInv'
  OBVIOUS
<1>1. /\ UNCHANGED <<pc, exports, request, active, client, told, shut, outcome>>
      /\ UNCHANGED <<posts, stored>>
  BY DEF vars, device
<1>2. ASSUME NEW e \in Exporters PROVE OthersStay(e)
  BY <1>1 DEF OthersStay, FatesStay
<1>3. Types' /\ Sent'
  BY <1>1, HonestyStays DEF IInv, Types
<1>4. ASSUME NEW e \in Exporters
      PROVE  /\ Session(e)' /\ Fate(e)' /\ Numbered(e)' /\ Once(e)'
             /\ Fresh(e)' /\ Current(e)' /\ Honest(e)'
  <2>1. Session(e)' /\ Fate(e)'
    BY <1>1, SessionStays DEF IInv, FatesStay
  <2>2. Numbered(e)' /\ Once(e)' /\ Fresh(e)' /\ Current(e)'
    BY <1>1, PostsStay DEF IInv
  <2> QED BY <1>1, <2>1, <2>2, HonestyStays DEF IInv
<1> QED BY <1>3, <1>4 DEF IInv

LEMMA NextIInv == IInv /\ [Next]_vars => IInv'
<1> SUFFICES ASSUME IInv, [Next]_vars PROVE IInv'
  OBVIOUS
<1>1. ASSUME NEW e \in Exporters, Begin(e) \/ BeginProfiles(e) \/ Shutdown(e) PROVE IInv'
  BY <1>1, BeginIInv, BeginProfilesIInv, ShutdownIInv
<1>2. ASSUME NEW e \in Exporters, Proceed(e) PROVE IInv'
  <2>1. ASSUME SendRequest(e) \/ OpenSession(e) PROVE IInv'
    BY <2>1, SendRequestIInv, OpenSessionIInv
  <2>2. ASSUME SessionFails(e) \/ SessionAnswered(e) PROVE IInv'
    BY <2>2, SessionFailsIInv, SessionAnsweredIInv
  <2>3. ASSUME CleanUp(e) \/ Return(e) \/ Finish(e) PROVE IInv'
    BY <2>3, CleanUpIInv, ReturnIInv, FinishIInv
  <2>4. ASSUME OpenProfiles(e) \/ CloseProfiles(e) PROVE IInv'
    BY <2>4, OpenProfilesIInv, CloseProfilesIInv
  <2>5. ASSUME ProfilesFail(e) \/ ProfilesAnswered(e) PROVE IInv'
    BY <2>5, ProfilesFailIInv, ProfilesAnsweredIInv
  <2> QED BY <1>2, <2>1, <2>2, <2>3, <2>4, <2>5 DEF Proceed
<1>3. ASSUME NEW k \in 1 .. Len(posts[Profiles]), Host(k) PROVE IInv'
  BY <1>3, ReceiveIInv, RelayIInv, ForwardFailsIInv, CollectForwardedIInv DEF Host
<1>4. ASSUME NEW e \in Signals, NEW k \in 1 .. Len(posts[e]), Collect(e, k) PROVE IInv'
  BY <1>4, CollectIInv DEF Exporters
<1>5. CASE UNCHANGED vars
  BY <1>5, StutterIInv
<1> QED BY <1>1, <1>2, <1>3, <1>4, <1>5 DEF Next

\* What an exporter's task, its requests and the collector know of each other
\* at every point of an export.
THEOREM Inductive == Spec => []IInv
<1>1. Init => IInv
  BY InitIInv
<1>2. IInv /\ [Next]_vars => IInv'
  BY NextIInv
<1> QED BY <1>1, <1>2, PTL DEF Spec

LEMMA OneEndOfAnEnd ==
    ASSUME NEW e, told[e] \in AnEnd
    PROVE  \E k \in Ends(e) : Ends(e) = {k}
<1>1. CASE told[e] = <<"CreateFailed">> \/ told[e] = <<"NetworkError">>
  <2>1. Ends(e) = {1}
    BY <1>1 DEF Ends
  <2> QED BY <2>1
<1>2. CASE told[e] = <<"OnResponse", "Response">>
  <2>1. Ends(e) = {2}
    BY <1>2 DEF Ends
  <2> QED BY <2>1
<1> QED BY <1>1, <1>2 DEF AnEnd

\* On every path of SendRequest and PerformSync the handler is told one end,
\* the handle is given back and the session is not left active.
THEOREM OneEnd == Spec => []OneEndPerRequest
<1>1. IInv => OneEndPerRequest
  <2> SUFFICES ASSUME IInv PROVE OneEndPerRequest
    OBVIOUS
  <2>1. TypeOK
    <3>1. \A e \in Exporters : exports[e] \in 0 .. MaxDocuments[e]
      BY MaxDocumentsAssumption DEF IInv, Types
    <3> QED BY <3>1 DEF IInv, Types, TypeOK, Events, Fates
  <2>2. ASSUME NEW e \in Exporters
        PROVE  /\ pc[e] \in {"send", "init", "perform"} => Ends(e) = {}
               /\ pc[e] \in {"cleanup", "return", "wait"} => \E k \in Ends(e) : Ends(e) = {k}
               /\ pc[e] \in {"idle", "wait"} => ~active[e] /\ ~client[e]
    <3>1. Session(e) /\ client[e] \in BOOLEAN
      BY DEF IInv, Types
    <3>2. told[e] = <<>> => Ends(e) = {}
      BY DEF Ends
    <3>3. told[e] \in AnEnd => \E k \in Ends(e) : Ends(e) = {k}
      BY OneEndOfAnEnd
    <3> QED BY <3>1, <3>2, <3>3 DEF Session
  <2> QED BY <2>1, <2>2 DEF OneEndPerRequest
<1> QED BY <1>1, Inductive, PTL

-----------------------------------------------------------------------------
(* What Delivery promises, of the same exporters and documents *)

LEMMA SameDocuments == D!Documents = Documents
BY DEF D!Documents, Documents

\* A document is its exporter and its number.
LEMMA Parts ==
    /\ \A d \in D!Documents : /\ d[1] \in Exporters
                              /\ d[2] \in 1 .. MaxDocuments[d[1]]
                              /\ d = <<d[1], d[2]>>
    /\ \A e \in Exporters : \A n \in 1 .. MaxDocuments[e] : <<e, n>> \in D!Documents
BY DEF D!Documents

DTypes ==
    /\ exports \in [Exporters -> Nat]
    /\ \A e \in Exporters : exports[e] <= MaxDocuments[e]
    /\ stored \in Seq(D!Documents)
    /\ outcome \in [D!Documents -> Fates]

\* The fate of every document but the last is known, and only documents that
\* were submitted are stored.
EarlierAreKnown   == \A d \in D!Documents : d[2] < exports[d[1]] => outcome[d] # "unknown"
StoredAreSubmitted == \A k \in 1 .. Len(stored) : D!Submitted(stored[k])

DIInv ==
    /\ DTypes
    /\ EarlierAreKnown
    /\ StoredAreSubmitted
    /\ D!DeliveredMeansStored
    /\ D!OnceAndInOrder

LEMMA DInitIInv == D!DInit => DIInv
BY Parts, MaxDocumentsAssumption
   DEF D!DInit, DIInv, DTypes, Fates, EarlierAreKnown, StoredAreSubmitted, D!DeliveredMeansStored,
       D!OnceAndInOrder

\* A step that changes the fate of one unknown document, and nothing else that
\* is stored, keeps the invariant if it does not confirm what is not stored.
LEMMA DSubmitIInv == ASSUME DIInv, NEW e \in Exporters, D!Submit(e) PROVE DIInv'
<1> DEFINE new == <<e, exports[e] + 1>>
<1> USE DEF DIInv, DTypes, Fates
<1>1. exports[e] \in Nat /\ MaxDocuments[e] \in Nat /\ exports[e] + 1 \in 1 .. MaxDocuments[e]
  <2>1. exports[e] \in Nat /\ MaxDocuments[e] \in Nat
    BY MaxDocumentsAssumption
  <2>2. exports[e] < MaxDocuments[e]
    BY DEF D!Submit
  <2> QED BY <2>1, <2>2
<1>2. new \in D!Documents
  BY <1>1, Parts
<1>3. /\ exports' = [exports EXCEPT ![e] = exports[e] + 1] /\ stored' = stored
      /\ outcome' = outcome \/ outcome' = [outcome EXCEPT ![new] = "failed"]
  BY DEF D!Submit
<1>4. \A d \in D!Documents : outcome'[d] = outcome[d] \/ (d = new /\ outcome'[d] = "failed")
  BY <1>2, <1>3
<1>5. DTypes'
  <2>1. exports' \in [Exporters -> Nat] /\ stored' \in Seq(D!Documents)
    BY <1>1, <1>3
  <2>2. \A x \in Exporters : exports'[x] <= MaxDocuments[x]
    BY <1>1, <1>3
  <2>3. outcome' \in [D!Documents -> Fates]
    BY <1>2, <1>3
  <2> QED BY <2>1, <2>2, <2>3
<1>6. EarlierAreKnown'
  <2> SUFFICES ASSUME NEW d \in D!Documents, d[2] < exports'[d[1]]
               PROVE  outcome'[d] # "unknown"
    BY DEF EarlierAreKnown
  <2>0. d[1] \in Exporters /\ d[2] \in Nat /\ d = <<d[1], d[2]>> /\ d[2] > 0
    BY Parts, MaxDocumentsAssumption
  <2>1. CASE d[1] # e
    BY <2>1, <2>0, <1>3, <1>4 DEF EarlierAreKnown
  <2>2. CASE d[1] = e
    <3>1. d[2] <= exports[e]
      BY <2>2, <2>0, <1>1, <1>3
    <3>2. exports[e] > 0 => outcome[<<e, exports[e]>>] # "unknown"
      BY DEF D!Submit
    <3>3. CASE d[2] < exports[e]
      BY <2>2, <3>3, <1>4 DEF EarlierAreKnown
    <3>4. CASE d[2] = exports[e]
      <4>1. d = <<e, exports[e]>> /\ exports[e] > 0
        BY <2>2, <2>0, <3>4
      <4> QED BY <4>1, <3>2, <1>4
    <3> QED BY <2>0, <3>1, <3>3, <3>4, <1>1
  <2> QED BY <2>1, <2>2
<1>7. \A d \in D!Documents : D!Submitted(d) => d[2] <= exports'[d[1]]
  <2> SUFFICES ASSUME NEW d \in D!Documents, d[2] <= exports[d[1]]
               PROVE  d[2] <= exports'[d[1]]
    BY DEF D!Submitted
  <2>1. d[1] \in Exporters /\ d[2] \in Nat /\ exports[d[1]] \in Nat
    BY Parts
  <2>2. exports'[d[1]] \in {exports[d[1]], exports[d[1]] + 1}
    BY <1>3, <2>1
  <2> QED BY <2>1, <2>2
<1>8. StoredAreSubmitted'
  <2> SUFFICES ASSUME NEW k \in 1 .. Len(stored) PROVE D!Submitted(stored[k])'
    BY <1>3 DEF StoredAreSubmitted
  <2>1. stored[k] \in D!Documents /\ D!Submitted(stored[k])
    BY DEF StoredAreSubmitted
  <2>2. stored' = stored
    BY <1>3
  <2> HIDE DEF DIInv, DTypes
  <2> QED BY <2>1, <2>2, <1>7 DEF D!Submitted
<1>9. \A k \in 1 .. Len(stored) : stored[k] # new
  BY <1>1 DEF StoredAreSubmitted, D!Submitted
<1>10. D!DeliveredMeansStored'
  BY <1>3, <1>4 DEF D!DeliveredMeansStored, D!IsStored
<1>11. D!OnceAndInOrder'
  BY <1>3, <1>4, <1>9 DEF D!OnceAndInOrder
<1> QED BY <1>5, <1>6, <1>8, <1>10, <1>11

LEMMA DStoreIInv == ASSUME DIInv, NEW d \in D!Documents, D!Store(d) PROVE DIInv'
<1> USE DEF DIInv, DTypes, Fates
<1>1. /\ stored' = Append(stored, d) /\ UNCHANGED <<exports, outcome>>
      /\ D!Submitted(d) /\ ~D!IsStored(d)
  BY DEF D!Store
<1>2. /\ Len(stored') = Len(stored) + 1 /\ stored'[Len(stored) + 1] = d
      /\ \A k \in 1 .. Len(stored) : stored'[k] = stored[k] /\ stored[k] # d
      /\ Len(stored) \in Nat
  BY <1>1 DEF D!IsStored
<1>3. DTypes' /\ EarlierAreKnown'
  BY <1>1 DEF EarlierAreKnown
<1>4. StoredAreSubmitted'
  BY <1>1, <1>2 DEF StoredAreSubmitted, D!Submitted
<1>5. D!DeliveredMeansStored'
  BY <1>1, <1>2 DEF D!DeliveredMeansStored, D!IsStored
<1>6. D!OnceAndInOrder'
  <2>0. D!OnceAndInOrder /\ outcome' = outcome
    BY <1>1
  <2> SUFFICES ASSUME NEW i \in 1 .. Len(stored'), NEW j \in 1 .. Len(stored'), i < j
               PROVE  /\ stored'[i] # stored'[j]
                      /\ stored'[i][1] = stored'[j][1] /\ stored'[i][2] > stored'[j][2] =>
                             outcome'[stored'[j]] = "failed"
    <3> HIDE DEF DIInv, DTypes, Fates
    <3> QED BY DEF D!OnceAndInOrder
  <2>1. i \in 1 .. Len(stored)
    BY <1>2
  <2>2. CASE j \in 1 .. Len(stored)
    <3>1. stored'[i] = stored[i] /\ stored'[j] = stored[j]
      BY <1>2, <2>1, <2>2
    <3>2. /\ stored[i] # stored[j]
          /\ stored[i][1] = stored[j][1] /\ stored[i][2] > stored[j][2] =>
                 outcome[stored[j]] = "failed"
      <4> HIDE DEF DIInv, DTypes, Fates
      <4> QED BY <2>0, <2>1, <2>2 DEF D!OnceAndInOrder
    <3> HIDE DEF DIInv, DTypes, Fates
    <3> QED BY <2>0, <3>1, <3>2
  <2>3. CASE j = Len(stored) + 1
    <3>1. D!Submitted(stored[i]) /\ stored[i] \in D!Documents /\ stored'[i] = stored[i]
      BY <2>1, <1>2 DEF StoredAreSubmitted
    <3>2. ASSUME stored[i][1] = d[1], stored[i][2] > d[2] PROVE outcome[d] = "failed"
      <4>1. d[2] < exports[d[1]]
        BY <3>1, <3>2, Parts, MaxDocumentsAssumption DEF D!Submitted
      <4>2. outcome[d] # "unknown" /\ outcome[d] # "delivered"
        BY <4>1, <1>1 DEF EarlierAreKnown, D!DeliveredMeansStored
      <4> QED BY <4>2
    <3>3. stored'[j] = d /\ stored[i] # d
      BY <1>2, <2>1, <2>3
    <3> HIDE DEF DIInv, DTypes, Fates
    <3> QED BY <2>0, <3>1, <3>2, <3>3
  <2> QED BY <2>2, <2>3, <1>2
<1> QED BY <1>3, <1>4, <1>5, <1>6

\* A fate that becomes known.
LEMMA DFateIInv == ASSUME DIInv, NEW d \in D!Documents, D!Confirm(d) \/ D!GiveUp(d) PROVE DIInv'
<1> USE DEF DIInv, DTypes, Fates
<1>1. /\ outcome[d] = "unknown" /\ UNCHANGED <<exports, stored>>
      /\ \/ outcome' = [outcome EXCEPT ![d] = "delivered"] /\ D!IsStored(d)
         \/ outcome' = [outcome EXCEPT ![d] = "failed"]
  BY DEF D!Confirm, D!GiveUp
<1>2. DTypes' /\ EarlierAreKnown' /\ StoredAreSubmitted'
  BY <1>1 DEF EarlierAreKnown, StoredAreSubmitted, D!Submitted
<1>3. D!DeliveredMeansStored'
  BY <1>1 DEF D!DeliveredMeansStored, D!IsStored
<1>4. D!OnceAndInOrder'
  BY <1>1 DEF D!OnceAndInOrder
<1> QED BY <1>2, <1>3, <1>4

LEMMA DNextIInv == DIInv /\ [D!DNext]_D!dvars => DIInv'
<1> SUFFICES ASSUME DIInv, [D!DNext]_D!dvars PROVE DIInv'
  OBVIOUS
<1>1. ASSUME NEW e \in Exporters, D!Submit(e) PROVE DIInv'
  BY <1>1, DSubmitIInv
<1>2. ASSUME NEW d \in D!Documents, D!Store(d) PROVE DIInv'
  BY <1>2, DStoreIInv
<1>3. ASSUME NEW d \in D!Documents, D!Confirm(d) \/ D!GiveUp(d) PROVE DIInv'
  BY <1>3, DFateIInv
<1>4. CASE UNCHANGED D!dvars
  <2>1. UNCHANGED <<exports, outcome, stored>>
    BY <1>4 DEF D!dvars
  <2>2. DTypes'
    BY <2>1 DEF DIInv, DTypes, Fates
  <2>3. EarlierAreKnown'
    BY <2>1 DEF DIInv, EarlierAreKnown, D!Submitted
  <2>4. StoredAreSubmitted'
    BY <2>1 DEF DIInv, StoredAreSubmitted, D!Submitted
  <2>5. D!DeliveredMeansStored'
    BY <2>1 DEF DIInv, D!DeliveredMeansStored, D!IsStored
  <2>6. D!OnceAndInOrder'
    BY <2>1 DEF DIInv, D!OnceAndInOrder
  <2> QED BY <2>2, <2>3, <2>4, <2>5, <2>6 DEF DIInv
<1> QED BY <1>1, <1>2, <1>3, <1>4 DEF D!DNext

LEMMA DeliveryInductive == D!DSpec => []DIInv
<1>1. D!DInit => DIInv
  BY DInitIInv
<1>2. DIInv /\ [D!DNext]_D!dvars => DIInv'
  BY DNextIInv
<1> QED BY <1>1, <1>2, PTL DEF D!DSpec

\* What an exporter takes for delivered is stored at the collector: no answer
\* of a hop in between confirms what did not arrive.
THEOREM DeliveredIsStored == D!DSpec => []D!DeliveredMeansStored
<1>1. DIInv => D!DeliveredMeansStored
  BY DEF DIInv
<1> QED BY <1>1, DeliveryInductive, PTL

\* The collector stores no document twice, and one that arrives behind a later
\* one of its exporter was given up by it.
THEOREM StoredOnceAndInOrder == D!DSpec => []D!OnceAndInOrder
<1>1. DIInv => D!OnceAndInOrder
  BY DEF DIInv
<1> QED BY <1>1, DeliveryInductive, PTL

-----------------------------------------------------------------------------
(* The refinement of Delivery *)

LEMMA SubmittedLast ==
    ASSUME IInv, NEW e \in Exporters, exports[e] > 0
    PROVE  Doc(e) \in D!Documents /\ D!Submitted(Doc(e))
<1>1. Doc(e) \in Documents /\ exports[e] \in Nat
  BY DocIsDocument DEF IInv, Types
<1> QED BY <1>1, SameDocuments DEF D!Submitted, Doc

\* A document that becomes known was submitted, and it is stored if its exporter
\* takes it for delivered.
LEMMA KnowRefines ==
    ASSUME IInv, NEW e \in Exporters, NEW what \in {"delivered", "failed"},
           Know(Doc(e), what), UNCHANGED <<exports, stored>>,
           exports[e] > 0, outcome[Doc(e)] = "unknown",
           what = "delivered" => D!IsStored(Doc(e))
    PROVE  D!DNext
<1>1. Doc(e) \in D!Documents /\ D!Submitted(Doc(e))
  BY SubmittedLast
<1>2. CASE what = "delivered"
  BY <1>1, <1>2 DEF D!DNext, D!Confirm, Know
<1>3. CASE what = "failed"
  BY <1>1, <1>3 DEF D!DNext, D!GiveUp, Know
<1> QED BY <1>2, <1>3

\* A successful answer to the last request says that its document is stored.
LEMMA SuccessIsStored ==
    ASSUME IInv, NEW e \in Exporters, Len(posts[e]) > 0, Last(e).doc = Doc(e),
           Last(e).status # Waiting, Success(Last(e).status)
    PROVE  D!IsStored(Doc(e))
<1>1. posts[e] \in Seq(Requests) /\ Honest(e)
  BY DEF IInv, Types
<1>2. Len(posts[e]) \in 1 .. Len(posts[e])
  BY <1>1
<1>3. Last(e) \in Requests
  BY <1>1, <1>2 DEF Last
<1>4. Last(e).status \in Statuses
  BY <1>3 DEF Requests
<1>5. Last(e).status = Ok
  BY <1>4 DEF Statuses, Success, Waiting, Ok, Malformed, Unavailable
<1> QED BY <1>1, <1>2, <1>5 DEF Honest, Last

LEMMA BeginRefines ==
    ASSUME IInv, NEW e \in Exporters, Begin(e) \/ BeginProfiles(e)
    PROVE  D!DNext
<1>1. /\ pc[e] = "idle" /\ exports[e] < MaxDocuments[e] /\ UNCHANGED stored
      /\ exports' = [exports EXCEPT ![e] = @ + 1]
      /\ \/ UNCHANGED outcome
         \/ outcome' = [outcome EXCEPT ![<<e, exports[e] + 1>>] = "failed"]
  BY DEF Begin, BeginProfiles
<1>2. exports[e] > 0 => outcome[<<e, exports[e]>>] # "unknown"
  BY <1>1 DEF IInv, Fate, Doc
<1>3. D!Submit(e)
  BY <1>1, <1>2 DEF D!Submit
<1> QED BY <1>3 DEF D!DNext

LEMMA FinishRefines == ASSUME IInv, NEW e \in Exporters, Finish(e) PROVE D!DNext
<1> DEFINE what == IF Told(e, "Response") /\ Success(Last(e).status)
                     THEN "delivered" ELSE "failed"
<1>1. /\ exports[e] > 0 /\ outcome[Doc(e)] = "unknown" /\ Know(Doc(e), what)
      /\ UNCHANGED <<exports, stored>>
  BY DEF IInv, Fate, Finish
<1>2. what = "delivered" => D!IsStored(Doc(e))
  BY SuccessIsStored DEF IInv, Current
<1>3. what \in {"delivered", "failed"}
  OBVIOUS
<1> HIDE DEF what
<1> QED BY <1>1, <1>2, <1>3, KnowRefines

LEMMA ProfilesAnsweredRefines ==
    ASSUME IInv, NEW e \in Exporters, ProfilesAnswered(e)
    PROVE  D!DNext
<1> DEFINE what == IF Success(Last(e).status) THEN "delivered" ELSE "failed"
<1>1. /\ exports[e] > 0 /\ outcome[Doc(e)] = "unknown" /\ Know(Doc(e), what)
      /\ pc[e] = "perform" /\ Last(e).status # Waiting /\ UNCHANGED <<exports, stored>>
  BY DEF IInv, Fate, ProfilesAnswered
<1>2. what = "delivered" => D!IsStored(Doc(e))
  BY <1>1, SuccessIsStored DEF IInv, Current
<1>3. what \in {"delivered", "failed"}
  OBVIOUS
<1> HIDE DEF what
<1> QED BY <1>1, <1>2, <1>3, KnowRefines

\* The profiles exporter gives a document up.
LEMMA ProfilesFailRefines ==
    ASSUME IInv, NEW e \in Exporters, OpenProfiles(e) \/ ProfilesFail(e)
    PROVE  [D!DNext]_(D!dvars)
<1>1. /\ exports[e] > 0 /\ outcome[Doc(e)] = "unknown"
      /\ UNCHANGED <<exports, stored>>
  BY DEF IInv, Fate, OpenProfiles, ProfilesFail
<1>2. CASE UNCHANGED outcome
  BY <1>1, <1>2 DEF D!dvars
<1>3. CASE Know(Doc(e), "failed")
  BY <1>1, <1>3, KnowRefines
<1> QED BY <1>2, <1>3 DEF OpenProfiles, ProfilesFail

\* The collector stores the document of a request for the first time.
LEMMA StoreRefines ==
    ASSUME IInv, NEW e \in Exporters, NEW k \in 1 .. Len(posts[e]), ~Accepted(e, k),
           stored' = Append(stored, posts[e][k].doc), UNCHANGED device
    PROVE  D!DNext
<1> DEFINE d == posts[e][k].doc
<1>1. UNCHANGED <<exports, outcome>>
  BY DEF device
<1>2. d = <<e, d[2]>> /\ d[2] \in 1 .. exports[e] /\ exports[e] \in Nat
  BY DEF IInv, Numbered, Types
<1>3. d \in Documents
  <2>1. posts[e] \in Seq(Requests)
    BY DEF IInv, Types
  <2>2. posts[e][k] \in Requests
    BY <2>1
  <2> QED BY <2>2 DEF Requests
<1>4. ~D!IsStored(d)
  BY DEF IInv, Honest
<1> HIDE DEF d
<1>5. D!Submitted(d)
  <2>1. d[1] = e /\ d[2] <= exports[e]
    BY <1>2
  <2> QED BY <2>1 DEF D!Submitted
<1>6. stored' = Append(stored, d)
  BY DEF d
<1>7. D!Store(d)
  BY <1>1, <1>4, <1>5, <1>6 DEF D!Store
<1> QED BY <1>3, <1>7, SameDocuments DEF D!DNext

LEMMA CollectRefines ==
    ASSUME IInv, NEW e \in Signals, NEW k \in 1 .. Len(posts[e]), Collect(e, k)
    PROVE  [D!DNext]_(D!dvars)
<1>1. ~Accepted(e, k) /\ UNCHANGED device
  BY DEF Collect, Unanswered, Accepted, Waiting, Ok
<1>2. CASE stored' = Append(stored, posts[e][k].doc)
  BY <1>1, <1>2, StoreRefines DEF Exporters
<1>3. CASE UNCHANGED stored
  BY <1>1, <1>3 DEF D!dvars, device
<1> QED BY <1>2, <1>3 DEF Collect

LEMMA CollectForwardedRefines ==
    ASSUME IInv, NEW k \in 1 .. Len(posts[Profiles]), CollectForwarded(k)
    PROVE  [D!DNext]_(D!dvars)
<1>1. ~Accepted(Profiles, k) /\ UNCHANGED device /\ Profiles \in Exporters
  BY ProfilesAssumption DEF CollectForwarded, Accepted, Waiting, Ok, Exporters
<1>2. CASE stored' = Append(stored, posts[Profiles][k].doc)
  BY <1>1, <1>2, StoreRefines
<1>3. CASE UNCHANGED stored
  BY <1>1, <1>3 DEF D!dvars, device
<1> QED BY <1>2, <1>3 DEF CollectForwarded

LEMMA NextRefines == IInv /\ [Next]_vars => [D!DNext]_(D!dvars)
<1> SUFFICES ASSUME IInv, [Next]_vars PROVE [D!DNext]_(D!dvars)
  OBVIOUS
<1>1. ASSUME NEW e \in Exporters, Begin(e) \/ BeginProfiles(e) PROVE D!DNext
  BY <1>1, BeginRefines
<1>2. ASSUME NEW e \in Exporters, Shutdown(e) PROVE UNCHANGED D!dvars
  BY <1>2 DEF Shutdown, D!dvars
<1>3. ASSUME NEW e \in Exporters, Proceed(e) PROVE [D!DNext]_(D!dvars)
  <2>1. ASSUME SendRequest(e) \/ OpenSession(e) PROVE UNCHANGED D!dvars
    BY <2>1 DEF SendRequest, OpenSession, D!dvars
  <2>2. ASSUME SessionFails(e) \/ SessionAnswered(e) PROVE UNCHANGED D!dvars
    BY <2>2 DEF SessionFails, SessionAnswered, D!dvars
  <2>3. ASSUME CleanUp(e) \/ Return(e) \/ CloseProfiles(e) PROVE UNCHANGED D!dvars
    BY <2>3 DEF CleanUp, Return, CloseProfiles, D!dvars
  <2>4. ASSUME Finish(e) \/ ProfilesAnswered(e) PROVE D!DNext
    BY <2>4, FinishRefines, ProfilesAnsweredRefines
  <2>5. ASSUME OpenProfiles(e) \/ ProfilesFail(e) PROVE [D!DNext]_(D!dvars)
    BY <2>5, ProfilesFailRefines
  <2> QED BY <1>3, <2>1, <2>2, <2>3, <2>4, <2>5 DEF Proceed
<1>4. ASSUME NEW k \in 1 .. Len(posts[Profiles]), Host(k) PROVE [D!DNext]_(D!dvars)
  <2>1. ASSUME Receive(k) \/ Relay(k) \/ ForwardFails(k) PROVE UNCHANGED D!dvars
    BY <2>1 DEF Receive, Relay, ForwardFails, device, D!dvars
  <2>2. ASSUME CollectForwarded(k) PROVE [D!DNext]_(D!dvars)
    BY <2>2, CollectForwardedRefines
  <2> QED BY <1>4, <2>1, <2>2 DEF Host
<1>5. ASSUME NEW e \in Signals, NEW k \in 1 .. Len(posts[e]), Collect(e, k)
      PROVE  [D!DNext]_(D!dvars)
  BY <1>5, CollectRefines
<1>6. CASE UNCHANGED vars
  BY <1>6 DEF vars, device, D!dvars
<1> QED BY <1>1, <1>2, <1>3, <1>4, <1>5, <1>6 DEF Next

\* The exporters, the symbolizer and the collector together deliver as Delivery
\* promises: a document is stored at most once, and what an exporter takes for
\* delivered is stored, whichever hop gives up on which.
THEOREM Refinement == Spec => ImplementsDelivery
<1>1. Init => D!DInit
  BY SameDocuments DEF Init, D!DInit
<1>2. IInv /\ [Next]_vars => [D!DNext]_(D!dvars)
  BY NextRefines
<1> QED BY <1>1, <1>2, Inductive, PTL DEF Spec, ImplementsDelivery, D!DSpec

\* So the exporters, the symbolizer and the collector do, whichever hop gives up
\* on which: an answer that one of them takes for the collector's is.
THEOREM DeliveredWindowIsStored == Spec => []D!DeliveredMeansStored
BY Refinement, DeliveredIsStored DEF ImplementsDelivery

\* A second window that overtakes the first in the symbolizer finds it given up,
\* and none is stored again by a hop that gave up on the answer.
THEOREM WindowsOnceAndInOrder == Spec => []D!OnceAndInOrder
BY Refinement, StoredOnceAndInOrder DEF ImplementsDelivery
=============================================================================
