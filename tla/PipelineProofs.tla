---------------------------- MODULE PipelineProofs ----------------------------
(***************************************************************************)
(* Proofs about Pipeline, for any documents, sizes, batches, orders of     *)
(* answers, queries and failures: the lists that are zipped stay aligned,  *)
(* the totals are the calls, and both readers find what they may count on. *)
(*                                                                         *)
(* A run tells from its place what it has made and been charged, and the   *)
(* stores have only what such runs wrote (PipelineInv).  Of that a ready   *)
(* document's part is complete and stays, which is what the two readers    *)
(* rely on (ReadersInv), each in its own order of the two stores.          *)
(***************************************************************************)
EXTENDS Pipeline, FiniteSetTheorems, FunctionTheorems, TLAPS

--------------------------------------------------------------------------------
(* The answer of a provider, in the order of its indices.                      *)

\* A permutation of 1 .. n reaches each of them: the index that embed() sorts by is there.
LEMMA OrdersReachAll ==
  ASSUME NEW n \in Nat, NEW p \in Orders(n), NEW i \in 1 .. n
  PROVE  \E j \in 1 .. n : p[j] = i
<1>1. p \in Injection(1 .. n, 1 .. n)
  BY Fun_IsInj DEF Orders
<1>2. IsFiniteSet(1 .. n)
  BY FS_Interval
<1>3. p \in Surjection(1 .. n, 1 .. n)
  BY <1>1, <1>2, FS_Injection
<1>4. QED
  BY <1>3 DEF Surjection

\* Whatever the order of the answer, sorting gives each text's embedding in its text's place.
LEMMA SortedAnswer ==
  ASSUME NEW T, NEW batch \in Seq(T), NEW p \in Orders(Len(batch))
  PROVE  InOrder(Response(batch, p)) = [i \in 1 .. Len(batch) |-> Embedding(batch[i])]
<1> DEFINE rows == Response(batch, p)
<1>1. DOMAIN batch = 1 .. Len(batch) /\ Len(batch) \in Nat
  OBVIOUS
<1>2. p \in [1 .. Len(batch) -> 1 .. Len(batch)]
  BY DEF Orders
<1>3. /\ DOMAIN rows = 1 .. Len(batch)
      /\ \A j \in 1 .. Len(batch) : rows[j] = [index |-> p[j], embedding |-> Embedding(batch[p[j]])]
  BY <1>1, <1>2 DEF Response
<1>4. ASSUME NEW i \in 1 .. Len(batch)
      PROVE  (LET j == CHOOSE j \in DOMAIN rows : rows[j].index = i IN rows[j].embedding)
               = Embedding(batch[i])
  <2> DEFINE j == CHOOSE j \in DOMAIN rows : rows[j].index = i
  <2> HIDE DEF rows
  <2>1. \E k \in 1 .. Len(batch) : p[k] = i
    BY <1>1, OrdersReachAll
  <2>2. \E k \in DOMAIN rows : rows[k].index = i
    BY <1>3, <2>1
  <2>3. j \in DOMAIN rows /\ rows[j].index = i
    BY <2>2
  <2>4. QED
    BY <1>3, <2>3
<1>5. QED
  BY <1>3, <1>4 DEF InOrder

--------------------------------------------------------------------------------
(* The invariant.                                                              *)

\* The text of a chunk of a document of n chunks in the collection of a mode.  This and what
\* follows takes the mode and the size as arguments, so that priming it primes those.
WithContext(m, n, d, i) ==
  CASE m = "none"         -> Text(d, i, {})
    [] m = "per_chunk"    -> Text(d, i, {i})
    [] m = "per_document" -> Text(d, i, 1 .. n)

PCs        == {"profile", "context", "embed", "persist", "finish", "done"}
TextType   == [doc : Docs, index : Nat, about : SUBSET Nat]
VectorType == [of : TextType]
EntityType == [id : Docs \X Nat, vector : VectorType, text : TextType]
ChunkType  == [id : Docs \X Nat, text : TextType]
RunType    == [pc : PCs, texts : Seq(TextType), vectors : Seq(VectorType),
               sent : Nat, llm : Nat, embed : Nat]

TypeOK ==
  /\ mode \in [Docs -> ContextModes]
  /\ pieces \in [Docs -> Nat \ {0}]
  /\ run \in [Docs -> RunType]
  /\ status \in [Docs -> {"processing", "ready", "failed"}]
  /\ total \in [Docs -> [llm : Nat, embed : Nat]]
  /\ stored \in [Names -> SUBSET EntityType]
  /\ chunks \subseteq ChunkType

\* The lists of a run: each text is that of its chunk, each vector that of its text, and the
\* batches sent so far have given the first of them.
AlignedIn(m, n, d, r) ==
  /\ \A i \in 1 .. Len(r.texts) : r.texts[i] = WithContext(m, n, d, i)
  /\ r.pc = "profile" => r.texts = << >>
  /\ r.pc = "context" => Len(r.texts) < n
                         /\ (m # "per_chunk" => r.texts = << >>)
  /\ r.pc \in {"profile", "context"} => r.sent = 0
  /\ r.pc \in {"embed", "persist", "finish"} => Len(r.texts) = n
  /\ r.pc \in {"persist", "finish"} => Len(r.vectors) = n
  /\ Len(r.vectors) = IF r.sent < Len(r.texts) THEN r.sent ELSE Len(r.texts)
  /\ \A i \in 1 .. Len(r.vectors) : r.vectors[i] = Embedding(r.texts[i])
Aligned == \A d \in Docs : AlignedIn(mode[d], pieces[d], d, run[d])

\* What a run has been charged, from where it is.
Charge(m, pc, n) ==
  CASE pc = "profile" -> 0
    [] pc = "context" -> IF m = "none" THEN 0 ELSE 1 + n
    [] OTHER          -> CASE m = "none"         -> 0
                           [] m = "per_chunk"    -> 1 + n
                           [] m = "per_document" -> 2
Price(m) == IF m = "none" THEN 1 ELSE 2
BilledIn(m, r) ==
  r.pc # "done" => /\ r.llm = Charge(m, r.pc, Len(r.texts))
                   /\ r.embed = Price(m) * Len(r.vectors)
Billed == \A d \in Docs : BilledIn(mode[d], run[d])

\* What the stores hold is of chunks, and of each the one entity and the one row there can be.
Entity(m, n, d, i) ==
  [id |-> Id(d, i), vector |-> Embedding(WithContext(m, n, d, i)), text |-> WithContext(m, n, d, i)]
Chunk(m, n, d, i) == [id |-> Id(d, i), text |-> WithContext(m, n, d, i)]
StoredIsRight ==
  /\ \A n \in Names : \A e \in stored[n] :
       \E d \in Docs : \E i \in 1 .. pieces[d] :
         n = Filled(mode[d]) /\ e = Entity(mode[d], pieces[d], d, i)
  /\ \A row \in chunks :
       \E d \in Docs : \E i \in 1 .. pieces[d] : row = Chunk(mode[d], pieces[d], d, i)

\* Which stores have all of a document.
InCollection(d) == \A i \in 1 .. pieces[d] : Id(d, i) \in Found(stored[Filled(mode[d])])
InChunks(d)     == \A i \in 1 .. pieces[d] : Id(d, i) \in Found(chunks)
Complete ==
  \A d \in Docs :
    /\ run[d].pc \in {"persist", "finish"} \/ status[d] = "ready" => InCollection(d)
    /\ run[d].pc = "finish" \/ status[d] = "ready" => InChunks(d)
    /\ status[d] = "ready" => run[d].pc = "done"

PipelineInv == TypeOK /\ Aligned /\ Billed /\ StoredIsRight /\ Complete /\ TotalsAreTheCalls

--------------------------------------------------------------------------------
(* Names, texts, batches and sets of entities.                                 *)

\* The collections are those of the server, and a name tells its context mode.
LEMMA NamesHold ==
  ASSUME NEW m \in ContextModes
  PROVE  /\ Filled(m) \in Names /\ ScoredName(m) \in Names
         /\ \A h \in BOOLEAN : Queried(m, h) \in Names
         /\ Filled(m).context = m /\ ScoredName(m).context = m
<1>1. Filled(m) \in Names /\ ScoredName(m) \in Names
      /\ \A h \in BOOLEAN : Queried(m, h) \in Names
  BY DEF Names
<1>2. Filled(m).context = m /\ ScoredName(m).context = m
  BY DEF Filled, ScoredName, CollectionFor
<1>3. QED
  BY <1>1, <1>2

\* A text is of its type, and has a context unless it is of the control.
LEMMA TextsHold ==
  ASSUME TypeOK, NEW d \in Docs, NEW i \in 1 .. pieces[d], NEW m \in ContextModes
  PROVE  /\ WithContext(m, pieces[d], d, i) \in TextType
         /\ WithContext(m, pieces[d], d, i).about = {} <=> m = "none"
<1>1. pieces[d] \in Nat \ {0} /\ i \in Nat /\ 1 \in 1 .. pieces[d] /\ 1 .. pieces[d] \subseteq Nat
  BY DEF TypeOK
<1>2. CASE m = "none"
  BY <1>1, <1>2 DEF WithContext, Text, TextType
<1>3. CASE m = "per_chunk"
  BY <1>1, <1>3 DEF WithContext, Text, TextType
<1>4. CASE m = "per_document"
  BY <1>1, <1>4 DEF WithContext, Text, TextType
<1>5. QED
  BY <1>2, <1>3, <1>4 DEF ContextModes

\* Where the next batch ends.
Last(r) == IF r.sent + EmbedBatch < Len(r.texts) THEN r.sent + EmbedBatch ELSE Len(r.texts)

\* The next batch is the slice of the texts that follows those already sent.
LEMMA BatchHolds ==
  ASSUME TypeOK, NEW d \in Docs, run[d].sent < Len(run[d].texts)
  PROVE  /\ Last(run[d]) \in Nat /\ run[d].sent < Last(run[d])
         /\ Last(run[d]) <= Len(run[d].texts)
         /\ NextBatch(d) \in Seq(TextType)
         /\ Len(NextBatch(d)) = Last(run[d]) - run[d].sent
         /\ \A i \in 1 .. Len(NextBatch(d)) : NextBatch(d)[i] = run[d].texts[run[d].sent + i]
<1> DEFINE texts == run[d].texts
           sent  == run[d].sent
           last  == Last(run[d])
<1>1. run[d] \in RunType
  BY DEF TypeOK, RunType
<1>2. texts \in Seq(TextType) /\ sent \in Nat /\ Len(texts) \in Nat /\ EmbedBatch \in Nat
  BY <1>1, SizeAssumption DEF RunType
<1>3. last \in Nat /\ sent < last /\ last <= Len(texts)
  BY <1>2, SizeAssumption DEF Last
<1>4. NextBatch(d) = SubSeq(texts, sent + 1, last)
  BY DEF NextBatch, Last
<1> HIDE DEF texts, sent, last
<1>5. /\ SubSeq(texts, sent + 1, last) \in Seq(TextType)
      /\ Len(SubSeq(texts, sent + 1, last)) = last - sent
      /\ \A i \in 1 .. last - sent : SubSeq(texts, sent + 1, last)[i] = texts[sent + i]
  BY <1>2, <1>3
<1>6. QED
  BY <1>3, <1>4, <1>5 DEF texts, sent, last

LEMMA CountTo == \A n \in Nat : Cardinality(1 .. n) = n
<1> SUFFICES ASSUME NEW n \in Nat PROVE Cardinality(1 .. n) = n
  OBVIOUS
<1>1. 1 \in Int /\ n \in Int
  OBVIOUS
<1>2. Cardinality(1 .. n) = IF 1 > n THEN 0 ELSE n - 1 + 1
  BY <1>1, FS_Interval, Zenon
<1>3. QED
  BY <1>2

\* A batch of a control costs a token for each text, one with contexts another for each.
LEMMA TokensHold ==
  ASSUME NEW m \in ContextModes, NEW batch \in Seq(TextType),
         \A i \in 1 .. Len(batch) : batch[i].about = {} <=> m = "none"
  PROVE  Tokens(batch) = Price(m) * Len(batch)
<1>1. DOMAIN batch = 1 .. Len(batch) /\ Len(batch) \in Nat
  OBVIOUS
<1>2. CASE m = "none"
  <2>1. {i \in DOMAIN batch : batch[i].about # {}} = {}
    BY <1>1, <1>2
  <2>2. QED
    BY <1>1, <1>2, <2>1, FS_EmptySet DEF Tokens, Price
<1>3. CASE m # "none"
  <2>1. {i \in DOMAIN batch : batch[i].about # {}} = 1 .. Len(batch)
    BY <1>1, <1>3
  <2>2. Cardinality(1 .. Len(batch)) = Len(batch)
    BY <1>1, CountTo, Zenon
  <2>3. Tokens(batch) = Len(batch) + Len(batch)
    BY <2>1, <2>2 DEF Tokens
  <2>4. Price(m) = 2
    BY <1>3 DEF Price
  <2>5. QED
    BY <1>1, <2>3, <2>4
<1>4. QED
  BY <1>2, <1>3

\* Replacing keeps every id and adds the new ones.
LEMMA ReplacedIds ==
  ASSUME NEW old, NEW new
  PROVE  Found(Replaced(old, new)) = Found(old) \cup Found(new)
BY DEF Found, Replaced

\* What the zip of a run's lists gives, once all batches are sent.
LEMMA EntitiesHold ==
  ASSUME TypeOK, NEW d \in Docs, AlignedIn(mode[d], pieces[d], d, run[d]),
         Len(run[d].texts) = pieces[d], Len(run[d].vectors) = pieces[d]
  PROVE  Entities(d) = {Entity(mode[d], pieces[d], d, i) : i \in 1 .. pieces[d]}
<1> DEFINE r == run[d]
<1>1. r \in RunType
  BY DEF TypeOK, RunType
<1>2. r.texts \in Seq(TextType) /\ r.vectors \in Seq(VectorType) /\ pieces[d] \in Nat
  BY <1>1 DEF RunType, TypeOK
<1>3. DOMAIN r.texts = 1 .. pieces[d] /\ DOMAIN r.vectors = 1 .. pieces[d]
  BY <1>2
<1>4. \A i \in 1 .. pieces[d] :
        r.texts[i] = WithContext(mode[d], pieces[d], d, i) /\ r.vectors[i] = Embedding(r.texts[i])
  BY DEF AlignedIn
<1>5. QED
  BY <1>3, <1>4 DEF Entities, Entity

--------------------------------------------------------------------------------
(* Steps of a run that change nothing but the run.                             *)

StoresUnchanged == UNCHANGED <<mode, pieces, status, total, stored, chunks>>

\* What a step changes of a run leaves it one.
LEMMA RunCharged ==
  ASSUME NEW r \in RunType, NEW pc \in PCs, NEW llm \in Nat
  PROVE  [r EXCEPT !.pc = pc, !.llm = llm] \in RunType
BY DEF RunType

LEMMA RunEnriched ==
  ASSUME NEW r \in RunType, NEW pc \in PCs, NEW texts \in Seq(TextType), NEW llm \in Nat
  PROVE  [r EXCEPT !.pc = pc, !.texts = texts, !.llm = llm] \in RunType
BY DEF RunType

LEMMA RunEmbedded ==
  ASSUME NEW r \in RunType, NEW vectors \in Seq(VectorType), NEW sent \in Nat, NEW embed \in Nat
  PROVE  [r EXCEPT !.vectors = vectors, !.sent = sent, !.embed = embed] \in RunType
BY DEF RunType

\* A run that stays aligned and billed, and is before the stores, keeps the invariant.
LEMMA RunKeeps ==
  ASSUME PipelineInv, NEW d \in Docs, NEW r \in RunType,
         run' = [run EXCEPT ![d] = r], StoresUnchanged,
         AlignedIn(mode[d], pieces[d], d, r), BilledIn(mode[d], r),
         run[d].pc # "done", r.pc \notin {"persist", "finish"}
  PROVE  PipelineInv'
<1>1. run \in [Docs -> RunType]
  BY DEF PipelineInv, TypeOK, RunType
<1>2. run' \in [Docs -> RunType] /\ \A e \in Docs : run'[e] = IF e = d THEN r ELSE run[e]
  BY <1>1
<1>3. TypeOK'
  BY <1>2 DEF PipelineInv, TypeOK, RunType, StoresUnchanged
<1>4. \A e \in Docs : AlignedIn(mode[e], pieces[e], e, run'[e]) /\ BilledIn(mode[e], run'[e])
  BY <1>2 DEF PipelineInv, Aligned, Billed
<1>5. Aligned' /\ Billed'
  BY <1>4 DEF Aligned, Billed, StoresUnchanged
<1>6. StoredIsRight'
  BY DEF PipelineInv, StoredIsRight, StoresUnchanged
<1>7. Complete'
  BY <1>2 DEF PipelineInv, Complete, InCollection, InChunks, Found, StoresUnchanged
<1>8. TotalsAreTheCalls'
  BY DEF PipelineInv, TotalsAreTheCalls, StoresUnchanged
<1>9. QED
  BY <1>3, <1>5, <1>6, <1>7, <1>8 DEF PipelineInv

\* The profile is a call before any text, or none.
LEMMA ProfileKeeps ==
  ASSUME PipelineInv, NEW d \in Docs, Profile(d)
  PROVE  PipelineInv'
<1> DEFINE llm == IF mode[d] = "none" THEN run[d].llm ELSE run[d].llm + 1
           r == [run[d] EXCEPT !.pc = "context", !.llm = llm]
<1>1. run[d] \in RunType /\ mode[d] \in ContextModes /\ pieces[d] \in Nat \ {0}
  BY DEF PipelineInv, TypeOK, RunType
<1>2. run[d].pc = "profile" /\ run[d].texts = << >> /\ Len(run[d].texts) = 0
      /\ AlignedIn(mode[d], pieces[d], d, run[d]) /\ BilledIn(mode[d], run[d])
  BY DEF Profile, PipelineInv, Aligned, AlignedIn, Billed
<1>3. run' = [run EXCEPT ![d] = r] /\ StoresUnchanged
  BY DEF Profile, TablesUnchanged, StoresUnchanged
<1>4. r \in RunType
  <2>1. llm \in Nat /\ "context" \in PCs
    BY <1>1 DEF RunType, PCs
  <2> HIDE DEF llm
  <2>2. QED
    BY <1>1, <2>1, RunCharged
<1>5. AlignedIn(mode[d], pieces[d], d, r)
  BY <1>1, <1>2 DEF AlignedIn, RunType
<1>6. BilledIn(mode[d], r)
  BY <1>1, <1>2 DEF BilledIn, Charge, RunType
<1>7. r.pc = "context"
  BY <1>1 DEF RunType
<1> HIDE DEF r
<1>8. QED
  BY <1>2, <1>3, <1>4, <1>5, <1>6, <1>7, RunKeeps

\* The texts of a control, or of a document with one block, are made at once.
LEMMA EnrichAtOnceKeeps ==
  ASSUME PipelineInv, NEW d \in Docs, EnrichBare(d) \/ EnrichDocument(d)
  PROVE  PipelineInv'
<1> DEFINE texts == [i \in 1 .. pieces[d] |-> WithContext(mode[d], pieces[d], d, i)]
           llm == IF mode[d] = "none" THEN run[d].llm ELSE run[d].llm + 1
           r == [run[d] EXCEPT !.pc = "embed", !.texts = texts, !.llm = llm]
<1>1. run[d] \in RunType /\ pieces[d] \in Nat \ {0}
      /\ mode[d] \in {"none", "per_document"}
  BY DEF PipelineInv, TypeOK, RunType, EnrichBare, EnrichDocument
<1>2. run[d].pc = "context" /\ run[d].texts = << >> /\ Len(run[d].texts) = 0
      /\ run[d].sent = 0 /\ Len(run[d].vectors) = 0
      /\ AlignedIn(mode[d], pieces[d], d, run[d]) /\ BilledIn(mode[d], run[d])
  BY <1>1 DEF EnrichBare, EnrichDocument, PipelineInv, Aligned, AlignedIn, Billed
<1>3. run' = [run EXCEPT ![d] = r] /\ StoresUnchanged
  <2>1. CASE EnrichBare(d)
    <3>1. mode[d] = "none" /\ texts = [i \in 1 .. pieces[d] |-> Bare(d, i)]
      BY <2>1 DEF EnrichBare, WithContext, Bare
    <3>2. QED
      BY <2>1, <3>1 DEF EnrichBare, TablesUnchanged, StoresUnchanged
  <2>2. CASE EnrichDocument(d)
    <3>1. mode[d] = "per_document" /\ texts = [i \in 1 .. pieces[d] |-> InBlock(d, i)]
      BY <2>2 DEF EnrichDocument, WithContext, InBlock
    <3>2. QED
      BY <2>2, <3>1 DEF EnrichDocument, TablesUnchanged, StoresUnchanged
  <2>3. QED
    BY <2>1, <2>2
<1>4. texts \in Seq(TextType) /\ Len(texts) = pieces[d]
      /\ \A i \in 1 .. pieces[d] : texts[i] = WithContext(mode[d], pieces[d], d, i)
  <2>1. \A i \in 1 .. pieces[d] : WithContext(mode[d], pieces[d], d, i) \in TextType
    BY <1>1, TextsHold DEF PipelineInv, ContextModes
  <2>2. QED
    BY <1>1, <2>1
<1> HIDE DEF texts
<1>5. r \in RunType /\ r.pc = "embed"
  <2>1. llm \in Nat /\ "embed" \in PCs
    BY <1>1 DEF RunType, PCs
  <2> HIDE DEF llm
  <2>2. r \in RunType
    BY <1>1, <1>4, <2>1, RunEnriched
  <2>3. QED
    BY <1>1, <2>2 DEF RunType
<1>6. AlignedIn(mode[d], pieces[d], d, r)
  BY <1>1, <1>2, <1>4 DEF AlignedIn, RunType
<1>7. BilledIn(mode[d], r)
  BY <1>1, <1>2, <1>4 DEF BilledIn, Charge, RunType
<1> HIDE DEF r
<1>8. QED
  BY <1>2, <1>3, <1>5, <1>6, <1>7, RunKeeps

\* The text of one more chunk is a call of its own.
LEMMA EnrichChunkKeeps ==
  ASSUME PipelineInv, NEW d \in Docs, EnrichChunk(d)
  PROVE  PipelineInv'
<1> DEFINE i == Len(run[d].texts) + 1
           pc == IF i = pieces[d] THEN "embed" ELSE run[d].pc
           texts == Append(run[d].texts, Situated(d, i))
           llm == run[d].llm + 1
           r == [run[d] EXCEPT !.pc = pc, !.texts = texts, !.llm = llm]
<1>1. run[d] \in RunType /\ pieces[d] \in Nat \ {0} /\ mode[d] = "per_chunk"
      /\ run[d].texts \in Seq(TextType) /\ run[d].llm \in Nat
  BY DEF PipelineInv, TypeOK, RunType, EnrichChunk
<1>2. run[d].pc = "context" /\ Len(run[d].texts) < pieces[d]
      /\ run[d].sent = 0 /\ Len(run[d].vectors) = 0
      /\ AlignedIn(mode[d], pieces[d], d, run[d]) /\ BilledIn(mode[d], run[d])
  BY <1>1 DEF EnrichChunk, PipelineInv, Aligned, AlignedIn, Billed
<1>3. run' = [run EXCEPT ![d] = r] /\ StoresUnchanged
  BY DEF EnrichChunk, TablesUnchanged, StoresUnchanged
<1>4. i \in 1 .. pieces[d] /\ Situated(d, i) = WithContext(mode[d], pieces[d], d, i)
  BY <1>1, <1>2 DEF Situated, WithContext
<1>5. texts \in Seq(TextType) /\ Len(texts) = i
      /\ \A j \in 1 .. i : texts[j] = WithContext(mode[d], pieces[d], d, j)
  <2>1. Situated(d, i) \in TextType
    BY <1>1, <1>4, TextsHold DEF PipelineInv, ContextModes
  <2>2. \A j \in 1 .. i - 1 : run[d].texts[j] = WithContext(mode[d], pieces[d], d, j)
    BY <1>1, <1>2 DEF AlignedIn
  <2> HIDE DEF i
  <2>3. i \in Nat /\ Len(run[d].texts) = i - 1
    BY <1>1 DEF i
  <2>4. QED
    BY <1>1, <1>4, <2>1, <2>2, <2>3
<1>6. pc \in {"context", "embed"} /\ llm \in Nat /\ pc \in PCs
      /\ (pc = "embed" <=> i = pieces[d])
  BY <1>1, <1>2 DEF PCs
<1>7. llm = 1 + i
  BY <1>1, <1>2 DEF BilledIn, Charge
<1>8. i \in Nat
  BY <1>1
<1> HIDE DEF texts, pc, llm, i
<1>9. r \in RunType /\ r.pc = pc
  <2>1. r \in RunType
    BY <1>1, <1>5, <1>6, RunEnriched
  <2>2. QED
    BY <1>1, <2>1 DEF RunType
<1>10. AlignedIn(mode[d], pieces[d], d, r)
  BY <1>1, <1>2, <1>4, <1>5, <1>6, <1>8 DEF AlignedIn, RunType
<1>11. BilledIn(mode[d], r)
  BY <1>1, <1>2, <1>5, <1>6, <1>7 DEF BilledIn, Charge, RunType
<1> HIDE DEF r
<1>12. QED
  BY <1>2, <1>3, <1>6, <1>9, <1>10, <1>11, RunKeeps

\* The vectors of one more batch follow those before.
LEMMA Follows ==
  ASSUME NEW T, NEW s \in Seq(T), NEW t \in Seq(T)
  PROVE  /\ s \o t \in Seq(T) /\ Len(s \o t) = Len(s) + Len(t)
         /\ \A i \in 1 .. Len(s) + Len(t) :
              (s \o t)[i] = IF i <= Len(s) THEN s[i] ELSE t[i - Len(s)]
OBVIOUS

\* A call embeds the next batch, and the sorted answer follows the vectors so far.
LEMMA EmbedKeeps ==
  ASSUME PipelineInv, NEW d \in Docs, Embed(d)
  PROVE  PipelineInv'
<1> DEFINE batch == NextBatch(d)
           last == Last(run[d])
           answer == [i \in 1 .. Len(batch) |-> Embedding(batch[i])]
           vectors == run[d].vectors \o answer
           sent == run[d].sent + EmbedBatch
           embed == run[d].embed + Tokens(batch)
           r == [run[d] EXCEPT !.vectors = vectors, !.sent = sent, !.embed = embed]
<1>1. run[d] \in RunType /\ pieces[d] \in Nat \ {0} /\ mode[d] \in ContextModes
      /\ run[d].texts \in Seq(TextType) /\ run[d].vectors \in Seq(VectorType)
      /\ run[d].sent \in Nat /\ run[d].embed \in Nat /\ EmbedBatch \in Nat
  BY SizeAssumption DEF PipelineInv, TypeOK, RunType
<1>2. run[d].pc = "embed" /\ run[d].sent < Len(run[d].texts) /\ Len(run[d].texts) = pieces[d]
      /\ Len(run[d].vectors) = run[d].sent
      /\ AlignedIn(mode[d], pieces[d], d, run[d]) /\ BilledIn(mode[d], run[d])
  BY <1>1 DEF Embed, PipelineInv, Aligned, AlignedIn, Billed
<1>3. /\ last \in Nat /\ run[d].sent < last /\ last <= pieces[d]
      /\ batch \in Seq(TextType) /\ Len(batch) = last - run[d].sent
      /\ \A i \in 1 .. Len(batch) : batch[i] = run[d].texts[run[d].sent + i]
  BY <1>2, BatchHolds DEF PipelineInv
<1>4. last = IF sent < pieces[d] THEN sent ELSE pieces[d]
  BY <1>2 DEF Last
<1>5. \A i \in 1 .. pieces[d] :
        run[d].texts[i] = WithContext(mode[d], pieces[d], d, i)
  BY <1>2 DEF AlignedIn
<1> HIDE DEF batch, last
<1>6. run' = [run EXCEPT ![d] = r] /\ StoresUnchanged
  <2>1. PICK p \in Orders(Len(batch)) :
          run' = [run EXCEPT ![d].vectors = @ \o InOrder(Response(batch, p)),
                             ![d].sent = @ + EmbedBatch,
                             ![d].embed = @ + Tokens(batch)]
    BY DEF Embed, batch
  <2>2. InOrder(Response(batch, p)) = answer
    BY <1>3, SortedAnswer
  <2>3. StoresUnchanged
    BY DEF Embed, TablesUnchanged, StoresUnchanged
  <2>4. QED
    BY <2>1, <2>2, <2>3
<1>7. Tokens(batch) = Price(mode[d]) * Len(batch)
  <2>1. \A i \in 1 .. Len(batch) : batch[i].about = {} <=> mode[d] = "none"
    <3> SUFFICES ASSUME NEW i \in 1 .. Len(batch)
                 PROVE  batch[i].about = {} <=> mode[d] = "none"
      OBVIOUS
    <3>1. run[d].sent + i \in 1 .. pieces[d]
      BY <1>1, <1>3
    <3>2. batch[i] = WithContext(mode[d], pieces[d], d, run[d].sent + i)
      BY <1>3, <1>5, <3>1
    <3>3. QED
      BY <1>1, <3>1, <3>2, TextsHold DEF PipelineInv
  <2>2. QED
    BY <1>1, <1>3, <2>1, TokensHold
<1>8. /\ vectors \in Seq(VectorType) /\ Len(vectors) = last
      /\ \A i \in 1 .. last : vectors[i] = Embedding(run[d].texts[i])
  <2>1. /\ answer \in Seq(VectorType) /\ Len(answer) = Len(batch)
        /\ \A i \in 1 .. Len(batch) : answer[i] = Embedding(run[d].texts[run[d].sent + i])
    <3>1. Len(batch) \in Nat /\ \A i \in 1 .. Len(batch) : batch[i] \in TextType
      BY <1>3
    <3>2. \A text \in TextType : Embedding(text) \in VectorType
      BY DEF Embedding, VectorType
    <3>3. QED
      BY <1>3, <3>1, <3>2
  <2>2. \A i \in 1 .. run[d].sent : run[d].vectors[i] = Embedding(run[d].texts[i])
    BY <1>2 DEF AlignedIn
  <2> HIDE DEF answer
  <2>3. /\ vectors \in Seq(VectorType) /\ Len(vectors) = run[d].sent + Len(batch)
        /\ \A i \in 1 .. run[d].sent + Len(batch) :
             vectors[i] = IF i <= run[d].sent THEN run[d].vectors[i] ELSE answer[i - run[d].sent]
    BY <1>1, <1>2, <2>1, Follows
  <2> HIDE DEF vectors
  <2>4. run[d].sent + Len(batch) = last
    BY <1>1, <1>3
  <2>5. ASSUME NEW i \in 1 .. last
        PROVE  vectors[i] = Embedding(run[d].texts[i])
    <3>1. CASE i <= run[d].sent
      BY <1>1, <2>2, <2>3, <2>4, <3>1
    <3>2. CASE i > run[d].sent
      <4>1. i - run[d].sent \in 1 .. Len(batch) /\ run[d].sent + (i - run[d].sent) = i
        BY <1>1, <1>3, <3>2
      <4>2. vectors[i] = answer[i - run[d].sent]
        BY <1>1, <2>3, <2>4, <3>2
      <4>3. QED
        BY <2>1, <4>1, <4>2
    <3>3. QED
      BY <1>1, <1>3, <3>1, <3>2
  <2>6. QED
    BY <2>3, <2>4, <2>5
<1>9. embed = Price(mode[d]) * last /\ embed \in Nat
  <2> HIDE DEF vectors, answer, sent, r
  <2>1. run[d].embed = Price(mode[d]) * run[d].sent
    BY <1>2 DEF BilledIn
  <2>2. embed = Price(mode[d]) * run[d].sent + Price(mode[d]) * Len(batch)
    BY <1>7, <2>1
  <2> HIDE DEF embed
  <2>3. Price(mode[d]) \in {1, 2}
    BY DEF Price
  <2>4. QED
    BY <1>1, <1>3, <2>2, <2>3
<1>10. sent \in Nat
  BY <1>1
<1> HIDE DEF vectors, embed, answer, sent
<1>11. r \in RunType
  BY <1>1, <1>8, <1>9, <1>10, RunEmbedded
<1>12. /\ r.pc = "embed" /\ r.texts = run[d].texts /\ r.vectors = vectors
       /\ r.sent = sent /\ r.embed = embed /\ r.llm = run[d].llm
  BY <1>1, <1>2 DEF RunType
<1> HIDE DEF r
<1>13. AlignedIn(mode[d], pieces[d], d, r)
  BY <1>2, <1>4, <1>5, <1>8, <1>12 DEF AlignedIn
<1>14. BilledIn(mode[d], r)
  BY <1>2, <1>8, <1>9, <1>12 DEF BilledIn
<1>15. QED
  BY <1>2, <1>6, <1>11, <1>12, <1>13, <1>14, RunKeeps

--------------------------------------------------------------------------------
(* Steps that change the stores or settle a document.                          *)

\* A step past the embedder that writes only what is right, and all of it, keeps the invariant.
LEMMA StoresKeep ==
  ASSUME PipelineInv, NEW d \in Docs, NEW pc \in {"persist", "finish"},
         run' = [run EXCEPT ![d].pc = pc], run[d].pc \in {"embed", "persist"},
         Len(run[d].vectors) = pieces[d],
         UNCHANGED <<mode, pieces, status, total>>,
         stored' \in [Names -> SUBSET EntityType], chunks' \subseteq ChunkType,
         StoredIsRight',
         \A n \in Names : Found(stored[n]) \subseteq Found(stored'[n]),
         Found(chunks) \subseteq Found(chunks'),
         InCollection(d)', pc = "finish" => InChunks(d)'
  PROVE  PipelineInv'
<1> DEFINE r == [run[d] EXCEPT !.pc = pc]
<1>1. run \in [Docs -> RunType] /\ run[d] \in RunType /\ pc \in PCs
  BY DEF PipelineInv, TypeOK, RunType, PCs
<1>2. r \in RunType /\ r.pc = pc /\ r.texts = run[d].texts /\ r.vectors = run[d].vectors
      /\ r.sent = run[d].sent /\ r.llm = run[d].llm /\ r.embed = run[d].embed
  BY <1>1 DEF RunType
<1> HIDE DEF r
<1>3. run' = [run EXCEPT ![d] = r]
  BY DEF r
<1>4. run' \in [Docs -> RunType] /\ \A e \in Docs : run'[e] = IF e = d THEN r ELSE run[e]
  BY <1>1, <1>2, <1>3
<1>5. AlignedIn(mode[d], pieces[d], d, r) /\ BilledIn(mode[d], r)
  <2>1. AlignedIn(mode[d], pieces[d], d, run[d]) /\ BilledIn(mode[d], run[d])
    BY DEF PipelineInv, Aligned, Billed
  <2>2. AlignedIn(mode[d], pieces[d], d, r)
    BY <1>2, <2>1 DEF AlignedIn
  <2>3. BilledIn(mode[d], r)
    BY <1>2, <2>1 DEF BilledIn, Charge
  <2>4. QED
    BY <2>2, <2>3
<1>6. TypeOK'
  BY <1>4 DEF PipelineInv, TypeOK, RunType
<1>7. Aligned' /\ Billed'
  BY <1>4, <1>5 DEF PipelineInv, Aligned, Billed
<1>8. Complete'
  <2>1. mode \in [Docs -> ContextModes] /\ status[d] # "ready"
    BY DEF PipelineInv, TypeOK, Complete
  <2>2. ASSUME NEW e \in Docs
        PROVE  (InCollection(e) => InCollection(e)') /\ (InChunks(e) => InChunks(e)')
    BY <2>1, NamesHold DEF InCollection, InChunks
  <2>3. QED
    BY <1>2, <1>4, <2>1, <2>2 DEF PipelineInv, Complete
<1>9. TotalsAreTheCalls'
  BY DEF PipelineInv, TotalsAreTheCalls
<1>10. QED
  BY <1>6, <1>7, <1>8, <1>9 DEF PipelineInv

\* Entities and rows of a document are of their types and carry its ids.
LEMMA EntityHolds ==
  ASSUME TypeOK, NEW d \in Docs, NEW i \in 1 .. pieces[d]
  PROVE  /\ Entity(mode[d], pieces[d], d, i) \in EntityType
         /\ Entity(mode[d], pieces[d], d, i).id = Id(d, i)
         /\ Chunk(mode[d], pieces[d], d, i) \in ChunkType
         /\ Chunk(mode[d], pieces[d], d, i).id = Id(d, i)
<1>1. mode[d] \in ContextModes /\ pieces[d] \in Nat \ {0} /\ i \in Nat
  BY DEF TypeOK
<1>2. WithContext(mode[d], pieces[d], d, i) \in TextType
  BY <1>1, TextsHold
<1>3. QED
  BY <1>1, <1>2 DEF Entity, Chunk, EntityType, ChunkType, VectorType, Embedding, Id

LEMMA UpsertKeeps ==
  ASSUME PipelineInv, NEW d \in Docs, Upsert(d)
  PROVE  PipelineInv'
<1> DEFINE new == {Entity(mode[d], pieces[d], d, i) : i \in 1 .. pieces[d]}
<1>1. mode[d] \in ContextModes /\ stored \in [Names -> SUBSET EntityType]
      /\ run \in [Docs -> RunType] /\ run[d] \in RunType /\ pieces[d] \in Nat
  BY DEF PipelineInv, TypeOK, RunType
<1>2. run[d].pc = "embed" /\ run' = [run EXCEPT ![d].pc = "persist"]
      /\ UNCHANGED <<mode, pieces, status, total, chunks>>
  BY DEF Upsert, Go
<1>3. AlignedIn(mode[d], pieces[d], d, run[d])
  BY DEF PipelineInv, Aligned
<1>4. Len(run[d].texts) = pieces[d] /\ Len(run[d].vectors) = pieces[d]
  <2>1. run[d].sent \in Nat /\ Len(run[d].texts) \in Nat
    BY <1>1 DEF RunType
  <2>2. QED
    BY <1>2, <1>3, <2>1 DEF AlignedIn, Upsert
<1>5. Entities(d) = new
  BY <1>3, <1>4, EntitiesHold DEF PipelineInv
<1>6. /\ Filled(mode[d]) \in Names
      /\ \A n \in Names :
           stored'[n] = IF n = Filled(mode[d]) THEN Replaced(stored[n], new) ELSE stored[n]
  BY <1>1, <1>5, NamesHold DEF Upsert
<1>7. DOMAIN stored' = Names /\ stored' = [n \in Names |-> stored'[n]]
  BY <1>1 DEF Upsert
<1>8. new \subseteq EntityType
  BY EntityHolds DEF PipelineInv
<1>9. stored' \in [Names -> SUBSET EntityType]
  BY <1>1, <1>6, <1>7, <1>8 DEF Replaced
<1>10. StoredIsRight'
  <2>1. ASSUME NEW n \in Names, NEW e \in stored'[n]
        PROVE  \E c \in Docs : \E i \in 1 .. pieces[c] :
                 n = Filled(mode[c]) /\ e = Entity(mode[c], pieces[c], c, i)
    <3>1. CASE e \in stored[n]
      BY <3>1 DEF PipelineInv, StoredIsRight
    <3>2. CASE e \notin stored[n]
      <4>1. n = Filled(mode[d]) /\ e \in new
        BY <1>6, <3>2 DEF Replaced
      <4>2. QED
        BY <4>1
    <3>3. QED
      BY <3>1, <3>2
  <2>2. QED
    BY <1>2, <2>1 DEF PipelineInv, StoredIsRight
<1>11. Found(Replaced(stored[Filled(mode[d])], new))
         = Found(stored[Filled(mode[d])]) \cup Found(new)
  BY ReplacedIds
<1>12. \A n \in Names : Found(stored[n]) \subseteq Found(stored'[n])
  BY <1>6, <1>11
<1>13. InCollection(d)'
  <2>1. ASSUME NEW i \in 1 .. pieces[d]
        PROVE  Id(d, i) \in Found(new)
    BY EntityHolds DEF Found, PipelineInv
  <2> HIDE DEF new
  <2>2. QED
    BY <1>1, <1>2, <1>6, <1>11, <2>1 DEF InCollection
<1>14. chunks' \subseteq ChunkType /\ Found(chunks) \subseteq Found(chunks')
  BY <1>2 DEF PipelineInv, TypeOK
<1>15. QED
  BY <1>2, <1>4, <1>9, <1>10, <1>12, <1>13, <1>14, StoresKeep

LEMMA PersistKeeps ==
  ASSUME PipelineInv, NEW d \in Docs, Persist(d)
  PROVE  PipelineInv'
<1> DEFINE new == {Chunk(mode[d], pieces[d], d, i) : i \in 1 .. pieces[d]}
<1>1. run[d] \in RunType /\ pieces[d] \in Nat /\ mode[d] \in ContextModes
  BY DEF PipelineInv, TypeOK, RunType
<1>2. run[d].pc = "persist" /\ run' = [run EXCEPT ![d].pc = "finish"]
      /\ UNCHANGED <<mode, pieces, status, total, stored>>
  BY DEF Persist, Go
<1>3. AlignedIn(mode[d], pieces[d], d, run[d])
  BY DEF PipelineInv, Aligned
<1>4. Len(run[d].texts) = pieces[d] /\ Len(run[d].vectors) = pieces[d]
  BY <1>2, <1>3 DEF AlignedIn
<1>5. {[id |-> Id(d, i), text |-> run[d].texts[i]] : i \in DOMAIN run[d].texts} = new
  <2>1. DOMAIN run[d].texts = 1 .. pieces[d]
    BY <1>1, <1>4 DEF RunType
  <2>2. \A i \in 1 .. pieces[d] :
          [id |-> Id(d, i), text |-> run[d].texts[i]] = Chunk(mode[d], pieces[d], d, i)
    BY <1>3, <1>4 DEF AlignedIn, Chunk
  <2>3. QED
    BY <2>1, <2>2
<1>6. chunks' = Replaced(chunks, new)
  BY <1>5 DEF Persist
<1>7. new \subseteq ChunkType
  BY EntityHolds DEF PipelineInv
<1>8. chunks' \subseteq ChunkType
  BY <1>6, <1>7 DEF Replaced, PipelineInv, TypeOK
<1>9. StoredIsRight'
  <2>1. ASSUME NEW row \in chunks'
        PROVE  \E c \in Docs : \E i \in 1 .. pieces[c] :
                 row = Chunk(mode[c], pieces[c], c, i)
    <3>1. CASE row \in chunks
      BY <3>1 DEF PipelineInv, StoredIsRight
    <3>2. CASE row \notin chunks
      BY <1>6, <3>2 DEF Replaced
    <3>3. QED
      BY <3>1, <3>2
  <2>2. QED
    BY <1>2, <2>1 DEF PipelineInv, StoredIsRight
<1>10. Found(chunks') = Found(chunks) \cup Found(new)
  BY <1>6, ReplacedIds
<1>11. InCollection(d)'
  BY <1>2 DEF PipelineInv, Complete, InCollection
<1>12. InChunks(d)'
  <2>1. ASSUME NEW i \in 1 .. pieces[d]
        PROVE  Id(d, i) \in Found(new)
    BY EntityHolds DEF Found, PipelineInv
  <2> HIDE DEF new
  <2>2. QED
    BY <1>2, <1>10, <2>1 DEF InChunks
<1>13. stored' \in [Names -> SUBSET EntityType]
       /\ \A n \in Names : Found(stored[n]) \subseteq Found(stored'[n])
  BY <1>2 DEF PipelineInv, TypeOK
<1>14. QED
  BY <1>2, <1>4, <1>8, <1>9, <1>10, <1>11, <1>12, <1>13, StoresKeep

\* A run that ends, ready with the totals of its calls or failed, keeps the invariant.
LEMMA EndKeeps ==
  ASSUME PipelineInv, NEW d \in Docs, SetReady(d) \/ Raises(d)
  PROVE  PipelineInv'
<1> DEFINE r == [run[d] EXCEPT !.pc = "done"]
<1>1. run \in [Docs -> RunType] /\ run[d] \in RunType
      /\ mode[d] \in ContextModes /\ pieces[d] \in Nat \ {0}
      /\ status \in [Docs -> {"processing", "ready", "failed"}]
      /\ total \in [Docs -> [llm : Nat, embed : Nat]]
  BY DEF PipelineInv, TypeOK, RunType
<1>2. run' = [run EXCEPT ![d] = r] /\ UNCHANGED <<mode, pieces, stored, chunks>>
  BY DEF SetReady, Raises, Go
<1>3. r \in RunType /\ r.pc = "done" /\ r.texts = run[d].texts /\ r.vectors = run[d].vectors
      /\ r.sent = run[d].sent
  BY <1>1 DEF RunType, PCs
<1> HIDE DEF r
<1>4. run' \in [Docs -> RunType] /\ \A e \in Docs : run'[e] = IF e = d THEN r ELSE run[e]
  BY <1>1, <1>2, <1>3
<1>5. AlignedIn(mode[d], pieces[d], d, run[d]) /\ BilledIn(mode[d], run[d])
  BY DEF PipelineInv, Aligned, Billed
<1>6. AlignedIn(mode[d], pieces[d], d, r) /\ BilledIn(mode[d], r)
  BY <1>3, <1>5 DEF AlignedIn, BilledIn
<1>7. Aligned' /\ Billed'
  BY <1>2, <1>4, <1>6 DEF PipelineInv, Aligned, Billed
<1>8. StoredIsRight'
  BY <1>2 DEF PipelineInv, StoredIsRight
<1>9. \A e \in Docs : (InCollection(e) <=> InCollection(e)') /\ (InChunks(e) <=> InChunks(e)')
  BY <1>2 DEF InCollection, InChunks
<1>10. CASE SetReady(d)
  <2>1. /\ run[d].pc = "finish"
        /\ status' = [status EXCEPT ![d] = "ready"]
        /\ total' = [total EXCEPT ![d] = [llm |-> run[d].llm, embed |-> run[d].embed]]
    BY <1>10 DEF SetReady, Go
  <2>2. TypeOK'
    BY <1>1, <1>2, <1>4, <2>1 DEF PipelineInv, TypeOK, RunType
  <2>3. Complete'
    BY <1>1, <1>3, <1>4, <1>9, <2>1 DEF PipelineInv, Complete
  <2>4. Len(run[d].texts) = pieces[d] /\ Len(run[d].vectors) = pieces[d]
    BY <1>5, <2>1 DEF AlignedIn
  <2>5. /\ run[d].embed = Price(mode[d]) * pieces[d]
        /\ run[d].llm = Charge(mode[d], "finish", pieces[d])
    BY <1>5, <2>1, <2>4 DEF BilledIn
  <2>6. total'[d] = CASE mode[d] = "none"         -> [llm |-> 0, embed |-> pieces[d]]
                      [] mode[d] = "per_chunk"    -> [llm |-> 1 + pieces[d], embed |-> 2 * pieces[d]]
                      [] mode[d] = "per_document" -> [llm |-> 2, embed |-> 2 * pieces[d]]
    <3>1. total'[d] = [llm |-> run[d].llm, embed |-> run[d].embed]
      BY <1>1, <2>1
    <3>2. CASE mode[d] = "none"
      BY <1>1, <2>5, <3>1, <3>2 DEF Price, Charge
    <3>3. CASE mode[d] = "per_chunk"
      BY <1>1, <2>5, <3>1, <3>3 DEF Price, Charge
    <3>4. CASE mode[d] = "per_document"
      BY <1>1, <2>5, <3>1, <3>4 DEF Price, Charge
    <3>5. QED
      BY <1>1, <3>2, <3>3, <3>4 DEF ContextModes
  <2>7. TotalsAreTheCalls'
    <3> SUFFICES ASSUME NEW e \in Docs, status'[e] = "ready"
                 PROVE  total'[e] =
                   CASE mode[e] = "none"         -> [llm |-> 0, embed |-> pieces[e]]
                     [] mode[e] = "per_chunk"    -> [llm |-> 1 + pieces[e], embed |-> 2 * pieces[e]]
                     [] mode[e] = "per_document" -> [llm |-> 2, embed |-> 2 * pieces[e]]
      BY <1>2 DEF TotalsAreTheCalls
    <3>1. CASE e = d
      BY <2>6, <3>1
    <3>2. CASE e # d
      <4>1. status[e] = "ready" /\ total'[e] = total[e]
        BY <1>1, <2>1, <3>2
      <4>2. QED
        BY <4>1 DEF PipelineInv, TotalsAreTheCalls
    <3>3. QED
      BY <3>1, <3>2
  <2>8. QED
    BY <1>7, <1>8, <2>2, <2>3, <2>7 DEF PipelineInv
<1>11. CASE Raises(d)
  <2>1. status' = [status EXCEPT ![d] = "failed"] /\ total' = total
    BY <1>11 DEF Raises
  <2>2. TypeOK'
    BY <1>1, <1>2, <1>4, <2>1 DEF PipelineInv, TypeOK, RunType
  <2>3. Complete'
    BY <1>1, <1>3, <1>4, <1>9, <2>1 DEF PipelineInv, Complete
  <2>4. TotalsAreTheCalls'
    BY <1>1, <1>2, <2>1 DEF PipelineInv, TotalsAreTheCalls
  <2>5. QED
    BY <1>7, <1>8, <2>2, <2>3, <2>4 DEF PipelineInv
<1>12. QED
  BY <1>10, <1>11

--------------------------------------------------------------------------------
(* The pipeline's theorems.                                                    *)

LEMMA PipelineStarts == Init => PipelineInv
<1> SUFFICES ASSUME Init PROVE PipelineInv
  OBVIOUS
<1>1. << >> \in Seq(TextType) /\ << >> \in Seq(VectorType) /\ Len(<< >>) = 0
  OBVIOUS
<1>2. TypeOK
  BY <1>1, SizeAssumption DEF Init, TypeOK, RunType, PCs, NoTotals
<1>3. Aligned
  BY <1>1, <1>2 DEF Init, Aligned, AlignedIn, TypeOK
<1>4. Billed
  BY <1>1, <1>2 DEF Init, Billed, BilledIn, Charge, Price
<1>5. StoredIsRight /\ Complete /\ TotalsAreTheCalls
  BY DEF Init, StoredIsRight, Complete, TotalsAreTheCalls
<1>6. QED
  BY <1>2, <1>3, <1>4, <1>5 DEF PipelineInv

\* Readers change nothing of the pipeline.
LEMMA ReadersLeaveIt ==
  ASSUME PipelineInv, UNCHANGED pipeline
  PROVE  PipelineInv'
<1>1. UNCHANGED <<mode, pieces, run, status, total, stored, chunks>>
  BY DEF pipeline
<1>2. TypeOK'
  BY <1>1 DEF PipelineInv, TypeOK
<1>3. Aligned' /\ Billed'
  BY <1>1 DEF PipelineInv, Aligned, Billed
<1>4. StoredIsRight'
  BY <1>1 DEF PipelineInv, StoredIsRight
<1>5. Complete'
  BY <1>1 DEF PipelineInv, Complete, InCollection, InChunks
<1>6. TotalsAreTheCalls'
  BY <1>1 DEF PipelineInv, TotalsAreTheCalls
<1>7. QED
  BY <1>2, <1>3, <1>4, <1>5, <1>6 DEF PipelineInv

LEMMA PipelineKept ==
  ASSUME PipelineInv, [Next]_vars
  PROVE  PipelineInv'
<1>1. ASSUME NEW d \in Docs, Process(d)
      PROVE  PipelineInv'
  BY <1>1, ProfileKeeps, EnrichAtOnceKeeps, EnrichChunkKeeps, EmbedKeeps, UpsertKeeps,
     PersistKeeps, EndKeeps DEF Process
<1>2. CASE UNCHANGED pipeline
  BY <1>2, ReadersLeaveIt
<1>3. CASE \E q \in Queries : Search(q) \/ GetRow(q) \/ Rank(q)
  BY <1>2, <1>3 DEF Search, GetRow, Rank
<1>4. CASE ListBatch \/ ListChunks \/ Score
  BY <1>2, <1>4 DEF ListBatch, ListChunks, Score
<1>5. CASE UNCHANGED vars
  BY <1>2, <1>5 DEF vars, pipeline
<1>6. QED
  BY <1>1, <1>3, <1>4, <1>5 DEF Next

\* In every state of the pipeline the lists of a run are aligned, its charges are those of its
\* calls so far, and the stores hold what they should.
THEOREM PipelineCorrect == Spec => []PipelineInv
BY PipelineStarts, PipelineKept, PTL DEF Spec

\* Batches, answers in any order and three zipped lists never give an entity another chunk's
\* vector, another mode's text or a text that Postgres would cite otherwise.
THEOREM StoresAlwaysAgree == Spec => []StoresAgree
<1>1. ASSUME PipelineInv PROVE StoresAgree
  <2> SUFFICES ASSUME NEW n \in Names, NEW e \in stored[n]
               PROVE  /\ n = Filled(mode[e.id[1]])
                      /\ e.text = CASE n.context = "none"         -> Bare(e.id[1], e.id[2])
                                    [] n.context = "per_chunk"    -> Situated(e.id[1], e.id[2])
                                    [] n.context = "per_document" -> InBlock(e.id[1], e.id[2])
                      /\ e.vector = Embedding(e.text)
                      /\ \A row \in chunks : row.id = e.id => row.text = e.text
    BY DEF StoresAgree
  <2>1. PICK d \in Docs : \E i \in 1 .. pieces[d] :
          n = Filled(mode[d]) /\ e = Entity(mode[d], pieces[d], d, i)
    BY <1>1 DEF PipelineInv, StoredIsRight
  <2> PICK i \in 1 .. pieces[d] : n = Filled(mode[d]) /\ e = Entity(mode[d], pieces[d], d, i)
    BY <2>1
  <2>2. /\ e.id = <<d, i>> /\ e.text = WithContext(mode[d], pieces[d], d, i)
        /\ e.vector = Embedding(e.text)
    BY DEF Entity, Id
  <2>3. e.id[1] = d /\ e.id[2] = i /\ mode[d] \in ContextModes /\ n.context = mode[d]
    BY <1>1, <2>2, NamesHold DEF PipelineInv, TypeOK
  <2>4. e.text = CASE n.context = "none"         -> Bare(e.id[1], e.id[2])
                   [] n.context = "per_chunk"    -> Situated(e.id[1], e.id[2])
                   [] n.context = "per_document" -> InBlock(e.id[1], e.id[2])
    BY <2>2, <2>3 DEF WithContext, Bare, Situated, InBlock, ContextModes
  <2>5. ASSUME NEW row \in chunks, row.id = e.id
        PROVE  row.text = e.text
    <3>1. PICK c \in Docs : \E j \in 1 .. pieces[c] : row = Chunk(mode[c], pieces[c], c, j)
      BY <1>1 DEF PipelineInv, StoredIsRight
    <3> PICK j \in 1 .. pieces[c] : row = Chunk(mode[c], pieces[c], c, j)
      BY <3>1
    <3>2. row.id = <<c, j>> /\ row.text = WithContext(mode[c], pieces[c], c, j)
      BY DEF Chunk, Id
    <3>3. c = d /\ j = i
      BY <2>2, <2>5, <3>2
    <3>4. QED
      BY <2>1, <2>2, <3>2, <3>3
  <2>6. QED
    BY <2>2, <2>3, <2>4, <2>5
<1>2. QED
  BY <1>1, PipelineCorrect, PTL

\* However the texts are batched and the documents interleaved, a ready document was billed
\* each call of its mode once and the tokens of all its chunks.
THEOREM TotalsAlwaysTheCalls == Spec => []TotalsAreTheCalls
<1>1. PipelineInv => TotalsAreTheCalls
  BY DEF PipelineInv
<1>2. QED
  BY <1>1, PipelineCorrect, PTL

--------------------------------------------------------------------------------
(* The readers: what they have read is never taken away.                       *)

\* The states of a request, given the ids of the rows there are: its hits of documents that
\* were ready have rows, what it has found or shown to the reranker too, and once it is
\* reading for the answer it has found the hits that it must.
Ids       == Docs \X Nat
QueryType == [pc : {"resolve", "cite"}, hits : SUBSET Ids, left : SUBSET Ids,
              found : SUBSET Ids, seen : SUBSET Ids, ready : SUBSET Docs]
Owed(r)   == {id \in r.hits : id[1] \in r.ready \/ id \in r.seen}
QueryHolds(rows, r) ==
  \/ r = [pc |-> "new"]
  \/ /\ r \in QueryType
     /\ \A id \in r.hits : id[1] \in r.ready => id \in rows
     /\ r.found \subseteq rows /\ r.seen \subseteq rows
     /\ r.pc = "cite" => Owed(r) \ r.left \subseteq r.found
QueriesHold ==
  /\ DOMAIN query = Queries /\ query = [q \in Queries |-> query[q]]
  /\ \A q \in Queries : QueryHolds(Found(chunks), query[q])

\* The states of the scorer: its documents are ready, the labels have the chunks of those that
\* it has listed, and its search has them exactly if it was of the collection they are in.
ScorerType == [pc : {"list", "scored"}, batch : ContextModes, mode : ContextModes,
               docs : SUBSET Docs, left : SUBSET Docs, gold : SUBSET Ids, searched : SUBSET Ids]
ScorerHolds ==
  \/ scorer = [pc |-> "new"]
  \/ /\ scorer \in ScorerType
     /\ \A d \in scorer.docs : status[d] = "ready" /\ mode[d] = scorer.batch
     /\ \A d \in scorer.docs \ scorer.left : \A i \in 1 .. pieces[d] : Id(d, i) \in scorer.gold
     /\ scorer.pc = "scored" =>
          /\ scorer.left = {}
          /\ \A d \in scorer.docs : \A i \in 1 .. pieces[d] :
               Id(d, i) \in scorer.searched <=> ScoredName(scorer.mode) = Filled(scorer.batch)

ReadersInv == PipelineInv /\ QueriesHold /\ ScorerHolds

\* Every id of the stores is of a chunk.
LEMMA IdsHold ==
  ASSUME PipelineInv
  PROVE  /\ Found(chunks) \subseteq Ids
         /\ \A n \in Names : Found(stored[n]) \subseteq Ids
         /\ \A n \in Names : \A id \in Found(stored[n]) :
              status[id[1]] = "ready" => id \in Found(chunks)
<1>1. Found(chunks) \subseteq Ids
  BY DEF PipelineInv, TypeOK, ChunkType, Found, Ids
<1>2. \A n \in Names : Found(stored[n]) \subseteq Ids
  BY DEF PipelineInv, TypeOK, EntityType, Found, Ids
<1>3. ASSUME NEW n \in Names, NEW e \in stored[n], status[e.id[1]] = "ready"
      PROVE  e.id \in Found(chunks)
  <2>1. PICK d \in Docs : \E i \in 1 .. pieces[d] :
          n = Filled(mode[d]) /\ e = Entity(mode[d], pieces[d], d, i)
    BY DEF PipelineInv, StoredIsRight
  <2> PICK i \in 1 .. pieces[d] : e = Entity(mode[d], pieces[d], d, i)
    BY <2>1
  <2>2. e.id = Id(d, i) /\ e.id[1] = d
    BY DEF Entity, Id
  <2>3. InChunks(d)
    BY <1>3, <2>2 DEF PipelineInv, Complete
  <2>4. QED
    BY <2>2, <2>3 DEF InChunks
<1>4. QED
  BY <1>1, <1>2, <1>3 DEF Found

\* Rows stay, ready documents stay ready, and a document keeps its mode and its chunks.
LEMMA ReadStays ==
  ASSUME PipelineInv, NEW d \in Docs, Process(d)
  PROVE  /\ Found(chunks) \subseteq Found(chunks')
         /\ \A e \in Docs : status[e] = "ready" => status'[e] = "ready"
         /\ UNCHANGED <<mode, pieces, query, scorer>>
<1>1. status \in [Docs -> {"processing", "ready", "failed"}]
      /\ (status[d] = "ready" => run[d].pc = "done")
  BY DEF PipelineInv, TypeOK, Complete
<1>2. CASE Profile(d) \/ EnrichBare(d) \/ EnrichChunk(d) \/ EnrichDocument(d) \/ Embed(d)
  BY <1>2 DEF Profile, EnrichBare, EnrichChunk, EnrichDocument, Embed, TablesUnchanged,
              ReadersUnchanged
<1>3. CASE Upsert(d)
  BY <1>3 DEF Upsert, ReadersUnchanged
<1>4. CASE Persist(d)
  BY <1>4, ReplacedIds DEF Persist, ReadersUnchanged
<1>5. CASE SetReady(d)
  BY <1>1, <1>5 DEF SetReady, ReadersUnchanged
<1>6. CASE Raises(d)
  BY <1>1, <1>6 DEF Raises, ReadersUnchanged
<1>7. QED
  BY <1>2, <1>3, <1>4, <1>5, <1>6 DEF Process

\* More rows take nothing from a request.
LEMMA QueryHoldsWithMore ==
  ASSUME NEW rows, NEW more, rows \subseteq more, NEW r, QueryHolds(rows, r)
  PROVE  QueryHolds(more, r)
BY DEF QueryHolds

LEMMA ProcessKeepsReaders ==
  ASSUME ReadersInv, NEW d \in Docs, Process(d)
  PROVE  QueriesHold' /\ ScorerHolds'
<1>1. /\ Found(chunks) \subseteq Found(chunks')
      /\ \A e \in Docs : status[e] = "ready" => status'[e] = "ready"
      /\ UNCHANGED <<mode, pieces, query, scorer>>
  BY ReadStays DEF ReadersInv
<1>2. \A q \in Queries : QueryHolds(Found(chunks'), query[q])
  BY <1>1, QueryHoldsWithMore DEF ReadersInv, QueriesHold
<1>3. QueriesHold'
  BY <1>1, <1>2 DEF ReadersInv, QueriesHold, Found
<1>4. ScorerHolds'
  BY <1>1 DEF ReadersInv, ScorerHolds, ScorerType
<1>5. QED
  BY <1>3, <1>4

\* A request that goes on as it should, alone, keeps the readers.
LEMMA RequestKeeps ==
  ASSUME ReadersInv, NEW q \in Queries, NEW r, query' = [query EXCEPT ![q] = r],
         UNCHANGED pipeline, UNCHANGED scorer, QueryHolds(Found(chunks), r)
  PROVE  QueriesHold' /\ ScorerHolds'
<1>1. UNCHANGED <<mode, pieces, run, status, total, stored, chunks>>
  BY DEF pipeline
<1>2. /\ DOMAIN query' = Queries /\ query' = [p \in Queries |-> query'[p]]
      /\ \A p \in Queries : query'[p] = IF p = q THEN r ELSE query[p]
  BY DEF ReadersInv, QueriesHold
<1>3. QueriesHold'
  BY <1>1, <1>2 DEF ReadersInv, QueriesHold
<1>4. ScorerHolds'
  BY <1>1 DEF ReadersInv, ScorerHolds
<1>5. QED
  BY <1>3, <1>4

LEMMA QueryKeepsReaders ==
  ASSUME ReadersInv, NEW q \in Queries, Search(q) \/ GetRow(q) \/ Rank(q)
  PROVE  QueriesHold' /\ ScorerHolds'
<1>1. UNCHANGED pipeline /\ UNCHANGED scorer
  BY DEF Search, GetRow, Rank
<1>2. /\ QueryHolds(Found(chunks), query[q]) /\ PipelineInv
      /\ query[q].pc # "new" => query[q] \in QueryType
  BY DEF ReadersInv, QueriesHold, QueryHolds
<1>3. CASE Search(q)
  <2>1. PICK n \in Names, k \in Nat :
          \E entities \in Visible(n) : \E hits \in Sized(k, Found(entities)) :
            query' = [query EXCEPT ![q] =
                       [pc |-> "resolve", hits |-> hits, left |-> hits, found |-> {}, seen |-> {},
                        ready |-> {d \in Docs : status[d] = "ready"}]]
    <3>1. PICK m \in ContextModes, hybrid \in BOOLEAN, rerank \in BOOLEAN :
            \E entities \in Visible(Queried(m, hybrid)) :
            \E hits \in Sized(IF rerank THEN Candidates ELSE TopK, Found(entities)) :
              query' = [query EXCEPT ![q] =
                         [pc |-> "resolve", hits |-> hits, left |-> hits, found |-> {},
                          seen |-> {}, ready |-> {d \in Docs : status[d] = "ready"}]]
      BY <1>3 DEF Search
    <3>2. Queried(m, hybrid) \in Names /\ (IF rerank THEN Candidates ELSE TopK) \in Nat
      BY NamesHold, SizeAssumption
    <3>3. QED
      BY <3>1, <3>2
  <2>2. PICK hits \in SUBSET Found(stored[n]) :
          query' = [query EXCEPT ![q] =
                     [pc |-> "resolve", hits |-> hits, left |-> hits, found |-> {}, seen |-> {},
                      ready |-> {d \in Docs : status[d] = "ready"}]]
    <3>1. ASSUME NEW entities \in Visible(n)
          PROVE  Found(entities) \subseteq Found(stored[n])
      BY DEF Visible, Found
    <3>2. QED
      BY <2>1, <3>1 DEF Sized
  <2> DEFINE r == [pc |-> "resolve", hits |-> hits, left |-> hits, found |-> {}, seen |-> {},
                   ready |-> {d \in Docs : status[d] = "ready"}]
  <2>3. hits \subseteq Ids /\ \A id \in hits : status[id[1]] = "ready" => id \in Found(chunks)
    BY <1>2, IdsHold
  <2>4. QueryHolds(Found(chunks), r)
    BY <2>3 DEF QueryHolds, QueryType
  <2> HIDE DEF r
  <2>5. query' = [query EXCEPT ![q] = r]
    BY <2>2 DEF r
  <2>6. QED
    BY <1>1, <2>4, <2>5, RequestKeeps
<1>4. CASE GetRow(q)
  <2>1. query[q] \in QueryType
    BY <1>2, <1>4 DEF GetRow
  <2>2. PICK id \in query[q].left :
          query' = [query EXCEPT ![q].left = @ \ {id},
                                 ![q].found = @ \cup ({id} \cap Found(chunks))]
    BY <1>4 DEF GetRow
  <2> DEFINE r == [query[q] EXCEPT !.left = @ \ {id},
                                   !.found = @ \cup ({id} \cap Found(chunks))]
  <2>3. /\ r.pc = query[q].pc /\ r.hits = query[q].hits /\ r.left = query[q].left \ {id}
        /\ r.found = query[q].found \cup ({id} \cap Found(chunks))
        /\ r.seen = query[q].seen /\ r.ready = query[q].ready /\ r \in QueryType
    BY <2>1 DEF QueryType
  <2> HIDE DEF r
  <2>4. QueryHolds(Found(chunks), r)
    <3>1. /\ \A hit \in query[q].hits : hit[1] \in query[q].ready => hit \in Found(chunks)
          /\ query[q].found \subseteq Found(chunks) /\ query[q].seen \subseteq Found(chunks)
          /\ query[q].pc = "cite" => Owed(query[q]) \ query[q].left \subseteq query[q].found
      BY <1>2, <2>1 DEF QueryHolds, QueryType
    <3>2. Owed(r) = Owed(query[q]) /\ Owed(r) \subseteq Found(chunks)
      BY <2>3, <3>1 DEF Owed
    <3>3. r.pc = "cite" => Owed(r) \ r.left \subseteq r.found
      BY <2>3, <3>1, <3>2
    <3>4. QED
      BY <2>3, <3>1, <3>3 DEF QueryHolds
  <2>5. query' = [query EXCEPT ![q] = r]
    BY <2>2 DEF r
  <2>6. QED
    BY <1>1, <2>4, <2>5, RequestKeeps
<1>5. CASE Rank(q)
  <2>1. query[q] \in QueryType
    BY <1>2, <1>5 DEF Rank
  <2>2. PICK kept \in SUBSET query[q].hits :
          query' = [query EXCEPT ![q].pc = "cite", ![q].hits = kept, ![q].left = kept,
                                 ![q].seen = query[q].found, ![q].found = {}]
    BY <1>5 DEF Rank, Sized
  <2> DEFINE r == [query[q] EXCEPT !.pc = "cite", !.hits = kept, !.left = kept,
                                   !.seen = query[q].found, !.found = {}]
  <2>3. /\ r.pc = "cite" /\ r.hits = kept /\ r.left = kept /\ r.found = {}
        /\ r.seen = query[q].found /\ r.ready = query[q].ready /\ r \in QueryType
    BY <2>1 DEF QueryType
  <2> HIDE DEF r
  <2>4. QueryHolds(Found(chunks), r)
    <3>1. /\ \A hit \in query[q].hits : hit[1] \in query[q].ready => hit \in Found(chunks)
          /\ query[q].found \subseteq Found(chunks)
      BY <1>2, <2>1 DEF QueryHolds, QueryType
    <3>2. Owed(r) \ r.left = {}
      BY <2>3 DEF Owed
    <3>3. QED
      BY <2>3, <3>1, <3>2 DEF QueryHolds
  <2>5. query' = [query EXCEPT ![q] = r]
    BY <2>2 DEF r
  <2>6. QED
    BY <1>1, <2>4, <2>5, RequestKeeps
<1>6. QED
  BY <1>3, <1>4, <1>5

LEMMA ScorerKeepsReaders ==
  ASSUME ReadersInv, ListBatch \/ ListChunks \/ Score
  PROVE  QueriesHold' /\ ScorerHolds'
<1>1. UNCHANGED <<mode, pieces, run, status, total, stored, chunks, query>>
  BY DEF ListBatch, ListChunks, Score, pipeline
<1>2. QueriesHold'
  BY <1>1 DEF ReadersInv, QueriesHold
<1>3. PipelineInv /\ (scorer.pc # "new" => scorer \in ScorerType)
  BY DEF ReadersInv, ScorerHolds
<1>4. CASE ListBatch
  <2>1. PICK batch \in ContextModes, m \in ContextModes :
          LET docs == {d \in Docs : mode[d] = batch /\ status[d] = "ready"} IN
            scorer' = [pc |-> "list", batch |-> batch, mode |-> m, docs |-> docs, left |-> docs,
                       gold |-> {}, searched |-> {}]
    BY <1>4 DEF ListBatch
  <2>2. QED
    BY <1>1, <1>2, <2>1 DEF ScorerHolds, ScorerType
<1>5. CASE ListChunks
  <2>1. scorer \in ScorerType /\ scorer.pc = "list"
    BY <1>3, <1>5 DEF ListChunks
  <2>2. PICK d \in scorer.left :
          scorer' = [scorer EXCEPT !.left = @ \ {d},
                                   !.gold = @ \cup {id \in Found(chunks) : id[1] = d}]
    BY <1>5 DEF ListChunks
  <2>3. /\ scorer'.pc = "list" /\ scorer'.batch = scorer.batch /\ scorer'.docs = scorer.docs
        /\ scorer'.left = scorer.left \ {d}
        /\ scorer'.gold = scorer.gold \cup {id \in Found(chunks) : id[1] = d}
        /\ scorer' \in ScorerType
    BY <1>3, <2>1, <2>2, IdsHold DEF ScorerType
  <2>4. \A e \in scorer.docs : status[e] = "ready" /\ mode[e] = scorer.batch
    BY <2>1 DEF ReadersInv, ScorerHolds
  <2>5. ASSUME NEW e \in scorer.docs \ scorer'.left, NEW i \in 1 .. pieces[e]
        PROVE  Id(e, i) \in scorer'.gold
    <3>1. CASE e = d
      <4>1. Id(e, i) \in Found(chunks)
        BY <1>3, <2>1, <2>4 DEF PipelineInv, Complete, InChunks, ScorerType
      <4>2. QED
        BY <2>3, <3>1, <4>1 DEF Id
    <3>2. CASE e # d
      BY <2>1, <2>3, <3>2 DEF ReadersInv, ScorerHolds
    <3>3. QED
      BY <3>1, <3>2
  <2>6. QED
    BY <1>1, <1>2, <2>3, <2>4, <2>5 DEF ScorerHolds
<1>6. CASE Score
  <2>1. scorer \in ScorerType /\ scorer.pc = "list" /\ scorer.left = {}
    BY <1>3, <1>6 DEF Score
  <2>2. scorer' = [scorer EXCEPT !.pc = "scored", !.searched = Found(stored[ScoredName(scorer.mode)])]
    BY <1>6 DEF Score
  <2>3. /\ scorer'.pc = "scored" /\ scorer'.batch = scorer.batch /\ scorer'.mode = scorer.mode
        /\ scorer'.docs = scorer.docs /\ scorer'.left = {} /\ scorer'.gold = scorer.gold
        /\ scorer'.searched = Found(stored[ScoredName(scorer.mode)])
        /\ scorer' \in ScorerType
    BY <1>3, <2>1, <2>2, IdsHold, NamesHold DEF ScorerType
  <2>4. /\ \A d \in scorer.docs : d \in Docs /\ status[d] = "ready" /\ mode[d] = scorer.batch
        /\ \A d \in scorer.docs : \A i \in 1 .. pieces[d] : Id(d, i) \in scorer.gold
    BY <2>1 DEF ReadersInv, ScorerHolds, ScorerType
  <2>5. \A d \in scorer.docs : InCollection(d)
    BY <1>3, <2>4 DEF PipelineInv, Complete
  <2>6. ASSUME NEW d \in scorer.docs, NEW i \in 1 .. pieces[d]
        PROVE  Id(d, i) \in scorer'.searched
                 <=> ScoredName(scorer.mode) = Filled(scorer.batch)
    <3>1. CASE ScoredName(scorer.mode) = Filled(scorer.batch)
      BY <2>3, <2>4, <2>5, <3>1 DEF InCollection
    <3>2. ASSUME Id(d, i) \in scorer'.searched
          PROVE  ScoredName(scorer.mode) = Filled(scorer.batch)
      <4>1. PICK e \in stored[ScoredName(scorer.mode)] : e.id = Id(d, i)
        BY <2>3, <3>2 DEF Found
      <4>2. ScoredName(scorer.mode) \in Names
        BY <2>1, NamesHold DEF ScorerType
      <4>3. PICK c \in Docs : \E j \in 1 .. pieces[c] :
              ScoredName(scorer.mode) = Filled(mode[c]) /\ e = Entity(mode[c], pieces[c], c, j)
        BY <1>3, <4>1, <4>2 DEF PipelineInv, StoredIsRight
      <4>4. c = d
        BY <4>1, <4>3 DEF Entity, Id
      <4>5. QED
        BY <2>4, <4>3, <4>4
    <3>3. QED
      BY <3>1, <3>2
  <2>7. QED
    BY <1>1, <1>2, <2>3, <2>4, <2>6 DEF ScorerHolds
<1>7. QED
  BY <1>4, <1>5, <1>6

\* Requests and the scorer have read, and keep, what they may count on.
THEOREM ReadersCorrect == Spec => []ReadersInv
<1>1. Init => ReadersInv
  BY PipelineStarts DEF Init, ReadersInv, QueriesHold, QueryHolds, ScorerHolds
<1>2. ReadersInv /\ [Next]_vars => ReadersInv'
  <2> SUFFICES ASSUME ReadersInv, [Next]_vars
               PROVE  ReadersInv'
    OBVIOUS
  <2>1. PipelineInv'
    BY PipelineKept DEF ReadersInv
  <2>2. ASSUME NEW d \in Docs, Process(d)
        PROVE  QueriesHold' /\ ScorerHolds'
    BY <2>2, ProcessKeepsReaders
  <2>3. ASSUME NEW q \in Queries, Search(q) \/ GetRow(q) \/ Rank(q)
        PROVE  QueriesHold' /\ ScorerHolds'
    BY <2>3, QueryKeepsReaders
  <2>4. CASE ListBatch \/ ListChunks \/ Score
    BY <2>1, <2>4, ScorerKeepsReaders DEF ReadersInv
  <2>5. CASE UNCHANGED vars
    <3>1. QueriesHold'
      BY <2>5 DEF vars, ReadersInv, QueriesHold
    <3>2. ScorerHolds'
      BY <2>5 DEF vars, ReadersInv, ScorerHolds
    <3>3. QED
      BY <2>1, <3>1, <3>2 DEF ReadersInv
  <2>6. QED
    BY <2>1, <2>2, <2>3, <2>4, <2>5 DEF Next, ReadersInv
<1>3. QED
  BY <1>1, <1>2, PTL DEF Spec

\* POST /query runs beside the writers without a lock; what was ready when it searched, and
\* what the reranker read, it cites.
THEOREM AnswersAlwaysCited == Spec => []AnswersAreCited
<1>1. ReadersInv => AnswersAreCited
  BY DEF ReadersInv, QueriesHold, QueryHolds, Owed, AnswersAreCited, Answered
<1>2. QED
  BY <1>1, ReadersCorrect, PTL

\* score_existing counts as relevant every chunk of the documents it lists, and, for any
\* settings, its searches can return them exactly if it names the collection they are in.
THEOREM GoldAlwaysSearchable == Spec => []GoldIsSearchable
<1>1. ReadersInv => GoldIsSearchable
  BY DEF ReadersInv, ScorerHolds, GoldIsSearchable
<1>2. QED
  BY <1>1, ReadersCorrect, PTL
===============================================================================
