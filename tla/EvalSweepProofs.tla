--------------------------- MODULE EvalSweepProofs ---------------------------
(***************************************************************************)
(* Proofs about EvalSweep, for any matrix, corpus and number of sweeps,    *)
(* uploads and failures: sweeps never touch what the service stores, never *)
(* mix two combinations, are scored on their own corpus alone, and skip a  *)
(* variant only for a call that raised.                                    *)
(***************************************************************************)
EXTENDS EvalSweep, FiniteSetTheorems, TLAPS

--------------------------------------------------------------------------------
(* Names.                                                                      *)

LEMMA ProductPositive ==
  ASSUME NEW a \in Nat \ {0}, NEW b \in Nat \ {0}
  PROVE  a * b \in Nat \ {0}
OBVIOUS

LEMMA QuotientNat ==
  ASSUME NEW a \in Nat, NEW b \in Nat \ {0}
  PROVE  a \div b \in Nat
OBVIOUS

\* The loops have at least one round.
LEMMA LastPositive ==
  /\ Len(Modes) * Len(Reranks) \in Nat \ {0}
  /\ LastVariant \in Nat \ {0}
<1>1. /\ Len(Combos) \in Nat \ {0}
      /\ Len(Modes) \in Nat \ {0}
      /\ Len(Reranks) \in Nat \ {0}
  BY MatrixAssumption
<1>2. Len(Modes) * Len(Reranks) \in Nat \ {0}
  BY <1>1, ProductPositive
<1>3. QED
  BY <1>1, <1>2, ProductPositive DEF LastVariant

\* A sweep's collections have a suffix.
LEMMA SuffixPositive ==
  ASSUME NEW v \in Variants
  PROVE  Suffix(v) \in Nat \ {0}
<1>1. v - 1 \in Nat
  BY LastPositive DEF Variants
<1>2. (v - 1) \div (Len(Modes) * Len(Reranks)) \in Nat
  BY <1>1, LastPositive, QuotientNat
<1>3. QED
  BY <1>2 DEF Suffix, ComboIndex

LEMMA NamesHold ==
  /\ \A v \in Variants : Expected(v) \in Names /\ Target(v) \in Names
  /\ \A v \in Variants : Expected(v).suffix = Suffix(v) /\ Target(v).suffix = Suffix(v)
  /\ \A m \in ServiceModes : UploadName(m) \in Names /\ UploadName(m).suffix = 0
  /\ \A i \in DOMAIN Combos : BenchmarkName(i) \in Names /\ BenchmarkName(i).suffix = 0
<1>1. /\ \A v \in Variants : Expected(v) \in Names /\ Target(v) \in Names
      /\ \A m \in ServiceModes : UploadName(m) \in Names
      /\ \A i \in DOMAIN Combos : BenchmarkName(i) \in Names
  BY DEF Names
<1>2. /\ \A v \in Variants : Expected(v).suffix = Suffix(v) /\ Target(v).suffix = Suffix(v)
      /\ \A m \in ServiceModes : UploadName(m).suffix = 0
      /\ \A i \in DOMAIN Combos : BenchmarkName(i).suffix = 0
  BY DEF Expected, Target, UploadName, BenchmarkName, CollectionFor
<1>3. QED
  BY <1>1, <1>2

\* A query names the collection of the uploads if it asks for their retrieval mode and the
\* settings agree, and only then.
LEMMA QueryNamesHold ==
  \A m \in ServiceModes, h \in BOOLEAN :
    /\ QueryName(m, h) \in Names
    /\ QueryName(m, h) = UploadName(m) <=> (h = Hybrid /\ SettingsAgree)
<1> SUFFICES ASSUME NEW m \in ServiceModes, NEW h \in BOOLEAN
             PROVE  /\ QueryName(m, h) \in Names
                    /\ QueryName(m, h) = UploadName(m) <=> (h = Hybrid /\ SettingsAgree)
  OBVIOUS
<1>1. QueryName(m, h) \in Names
  BY DEF Names
<1>2. QueryName(m, h) = UploadName(m) => h = Hybrid /\ SettingsAgree
  <2>1. /\ QueryName(m, h).model = QueryModel /\ UploadName(m).model = ServiceModel
        /\ QueryName(m, h).dim = DenseDim /\ UploadName(m).dim = ProviderDim[ServiceModel]
        /\ QueryName(m, h).hybrid = h /\ UploadName(m).hybrid = Hybrid
    BY DEF UploadName, QueryName, CollectionFor
  <2>2. QED
    BY <2>1, Zenon DEF SettingsAgree
<1>3. h = Hybrid /\ SettingsAgree => QueryName(m, h) = UploadName(m)
  BY Zenon DEF SettingsAgree, UploadName, QueryName, CollectionFor
<1>4. QED
  BY <1>1, <1>2, <1>3

LEMMA RowsHold ==
  /\ \A s \in Sweeps, v \in Variants, d \in 1 .. Docs : Row(s, v, d) \in Rows
  /\ \A m \in ServiceModes, d \in Files : Row(m, 0, d) \in Rows
  /\ \A i \in DOMAIN Combos : Row("benchmark", i, 0) \in Rows
<1>1. ASSUME NEW s \in Sweeps, NEW v \in Variants, NEW d \in 1 .. Docs
      PROVE  Row(s, v, d) \in Rows
  <2>1. Row(s, v, d) \in Corpus(s, v)
    BY DEF Corpus
  <2>2. Row(s, v, d) \in UNION {Corpus(t, w) : t \in Sweeps, w \in Variants}
    BY <2>1
  <2>3. QED
    BY <2>2 DEF Rows
<1>2. ASSUME NEW m \in ServiceModes, NEW d \in Files
      PROVE  Row(m, 0, d) \in Rows
  BY DEF Rows
<1>3. ASSUME NEW i \in DOMAIN Combos
      PROVE  Row("benchmark", i, 0) \in Rows
  BY DEF Rows
<1>4. QED
  BY <1>1, <1>2, <1>3

LEMMA RowsDiffer ==
  \A by1, by2, v1, v2, d1, d2 :
    Row(by1, v1, d1) = Row(by2, v2, d2) => by1 = by2 /\ v1 = v2 /\ d1 = d2
BY DEF Row
--------------------------------------------------------------------------------
(* Types.                                                                      *)

\* A sweep ingests a file of the corpus, beginning with the first.
InCorpus(pc, doc) ==
  (pc \in Ingesting => doc \in 1 .. Docs) /\ (pc \in {"new", "drop"} => doc = 1)
Places == \A s \in Sweeps : InCorpus(sweep[s].pc, sweep[s].doc)

Typed == TypeOK /\ Places

LEMMA FreshTyped ==
  ASSUME NEW pc \in Ingesting \cup {"new", "drop", "search", "returned", "gone"},
         NEW v \in Variants
  PROVE  Fresh(pc, v) \in SweepType
BY MatrixAssumption DEF Fresh, SweepType

LEMMA InitTyped == Init => Typed
<1> SUFFICES ASSUME Init PROVE Typed
  OBVIOUS
<1>1. 1 \in Variants
  BY LastPositive DEF Variants
<1>2. sweep \in [Sweeps -> SweepType] /\ Places
  BY <1>1, FreshTyped DEF Init, Places, InCorpus, Fresh, Ingesting
<1>3. QED
  BY <1>2, MatrixAssumption DEF Init, Typed, TypeOK

\* What a step of a sweep makes of its own state.
LEMMA SweepTyped ==
  ASSUME Typed, NEW s \in Sweeps, SweepStep(s)
  PROVE  sweep' \in [Sweeps -> SweepType] /\ Places'
<1> DEFINE st == sweep[s]
<1>1. /\ sweep \in [Sweeps -> SweepType] /\ st \in SweepType
      /\ st.pc \in Ingesting \cup {"new", "drop", "search", "returned", "gone"}
      /\ st.at \in Variants /\ st.doc \in Nat /\ st.ready \subseteq Names
      /\ st.asked \in 0 .. Queries /\ st.saw \subseteq SUBSET Rows
      /\ Places
  BY DEF Typed, TypeOK, SweepType
<1>2. Target(st.at) \in Names
  BY <1>1, NamesHold
<1>3. ASSUME NEW new \in SweepType, sweep' = [sweep EXCEPT ![s] = new],
             InCorpus(new.pc, new.doc)
      PROVE  sweep' \in [Sweeps -> SweepType] /\ Places'
  BY <1>1, <1>3 DEF Places
<1>4. ASSUME NEW pc \in Ingesting \cup {"new", "drop", "search", "returned", "gone"},
             Go(s, pc), InCorpus(pc, st.doc)
      PROVE  sweep' \in [Sweeps -> SweepType] /\ Places'
  BY <1>1, <1>4 DEF Go, SweepType, Places
<1>5. ASSUME NEW pc \in {"drop", "returned", "gone"}, NEW v \in Variants,
             sweep' = [sweep EXCEPT ![s] = Fresh(pc, v)]
      PROVE  sweep' \in [Sweeps -> SweepType] /\ Places'
  <2>1. Fresh(pc, v) \in SweepType /\ InCorpus(Fresh(pc, v).pc, Fresh(pc, v).doc)
    BY FreshTyped DEF Fresh, InCorpus, Ingesting
  <2>2. QED
    BY <1>3, <1>5, <2>1
<1>6. ASSUME NEW how \in {"returned", "gone"}, End(s, how)
      PROVE  sweep' \in [Sweeps -> SweepType] /\ Places'
  <2>1. 1 \in Variants
    BY LastPositive DEF Variants
  <2>2. QED
    BY <1>5, <1>6, <2>1 DEF End
<1>7. ASSUME Advance(s)
      PROVE  sweep' \in [Sweeps -> SweepType] /\ Places'
  <2>1. CASE st.at = LastVariant
    BY <1>6, <1>7, <2>1 DEF Advance
  <2>2. CASE st.at # LastVariant
    <3>1. st.at + 1 \in Variants
      BY <1>1, <2>2, LastPositive DEF Variants
    <3>2. sweep' = [sweep EXCEPT ![s] = Fresh("drop", st.at + 1)]
      BY <1>1, <1>7, <2>2 DEF Advance
    <3>3. QED
      BY <1>5, <3>1, <3>2
  <2>3. QED
    BY <2>1, <2>2
<1>8. CASE Start(s)
  BY <1>1, <1>4, <1>8 DEF Start, Places, Ingesting, InCorpus
<1>9. CASE Drop(s)
  <2>1. Docs = 0 \/ 1 \in 1 .. Docs
    BY MatrixAssumption
  <2>2. QED
    BY <1>1, <1>4, <1>9, <2>1 DEF Drop, Places, Ingesting, InCorpus
<1>10. CASE CreateRow(s) \/ IngestRaises(s)
  BY <1>1, <1>4, <1>10 DEF CreateRow, IngestRaises, Places, Ingesting, InCorpus
<1>11. CASE Ensure(s) \/ Make(s)
  <2>1. st.doc \in 1 .. Docs
    BY <1>1, <1>11 DEF Ensure, Make, Places, Ingesting, InCorpus
  <2>2. CASE \E pc \in {"make", "failing"} : Go(s, pc)
    BY <1>4, <2>1, <2>2 DEF Ingesting, InCorpus
  <2>3. CASE sweep' = [sweep EXCEPT ![s].pc = "upsert",
                                    ![s].ready = @ \cup {Target(sweep[s].at)}]
    <3> DEFINE new == [st EXCEPT !.pc = "upsert", !.ready = @ \cup {Target(st.at)}]
    <3>1. new \in SweepType /\ InCorpus(new.pc, new.doc)
      BY <1>1, <1>2, <2>1 DEF SweepType, Ingesting, InCorpus
    <3>2. sweep' = [sweep EXCEPT ![s] = new]
      BY <1>1, <2>3
    <3>3. QED
      BY <1>3, <3>1, <3>2
  <2>4. QED
    BY <1>11, <2>2, <2>3 DEF Ensure, Make
<1>12. CASE Upsert(s)
  BY <1>1, <1>4, <1>12 DEF Upsert, Places, Ingesting, InCorpus
<1>13. ASSUME NextFile(s), st.pc \in Ingesting
       PROVE  sweep' \in [Sweeps -> SweepType] /\ Places'
  <2>1. st.doc \in 1 .. Docs
    BY <1>1, <1>13 DEF Places, InCorpus
  <2>2. CASE st.doc = Docs
    BY <1>4, <1>13, <2>2 DEF NextFile, Go, Ingesting, InCorpus
  <2>3. CASE st.doc # Docs
    <3>1. st.doc + 1 \in 1 .. Docs
      BY <2>1, <2>3, MatrixAssumption
    <3>2. sweep' = [sweep EXCEPT ![s].pc = "create", ![s].doc = @ + 1]
      BY <1>13, <2>3 DEF NextFile
    <3>3. QED
      BY <1>1, <3>1, <3>2 DEF SweepType, Places, Ingesting, InCorpus
  <2>4. QED
    BY <2>2, <2>3
<1>14. CASE Finish(s)
  BY <1>13, <1>14 DEF Finish, Ingesting
<1>15. CASE Search(s)
  <2>1. PICK seen \in Visible(Target(st.at)) :
          sweep' = [sweep EXCEPT ![s].asked = @ + 1, ![s].saw = @ \cup {seen}]
    BY <1>15 DEF Search
  <2>2. seen \subseteq Rows
    BY <1>2 DEF Visible, Typed, TypeOK
  <2>3. st.asked + 1 \in 0 .. Queries
    BY <1>1, <1>15, MatrixAssumption DEF Search
  <2> DEFINE new == [st EXCEPT !.asked = @ + 1, !.saw = @ \cup {seen}]
  <2>4. new \in SweepType /\ InCorpus(new.pc, new.doc)
    BY <1>1, <1>15, <2>2, <2>3 DEF Search, SweepType, Ingesting, InCorpus
  <2>5. sweep' = [sweep EXCEPT ![s] = new]
    BY <1>1, <2>1
  <2>6. QED
    BY <1>3, <2>4, <2>5
<1>16. CASE Insert(s) \/ Fail(s) \/ VariantRaises(s)
  BY <1>7, <1>16 DEF Insert, Fail, VariantRaises, Skip
<1>17. CASE InsertRaises(s) \/ Kill(s)
  BY <1>6, <1>17 DEF InsertRaises, Kill
<1>18. QED
  BY <1>8, <1>9, <1>10, <1>11, <1>12, <1>14, <1>15, <1>16, <1>17 DEF SweepStep

\* What a step of a sweep makes of the store and the tables.
LEMMA StoreTyped ==
  ASSUME Typed, NEW s \in Sweeps, SweepStep(s)
  PROVE  /\ status' \in [Rows -> {"absent", "processing", "ready", "failed", "duplicate"}]
         /\ collections' \subseteq Names /\ vectors' \in [Names -> SUBSET Rows]
         /\ \A n \in Names \ collections' : vectors'[n] = {}
         /\ results' \subseteq [by : Sweeps, at : Variants]
         /\ benchmark' = benchmark /\ beside' \subseteq Sweeps /\ faults' \in 0 .. MaxFaults
<1> DEFINE st == sweep[s]
           Goal == /\ status' \in [Rows -> {"absent", "processing", "ready", "failed", "duplicate"}]
                   /\ collections' \subseteq Names /\ vectors' \in [Names -> SUBSET Rows]
                   /\ \A n \in Names \ collections' : vectors'[n] = {}
                   /\ results' \subseteq [by : Sweeps, at : Variants]
                   /\ benchmark' = benchmark /\ beside' \subseteq Sweeps
                   /\ faults' \in 0 .. MaxFaults
<1>1. /\ st \in SweepType /\ st.at \in Variants /\ st.saw \subseteq SUBSET Rows
      /\ InCorpus(st.pc, st.doc)
  BY DEF Typed, TypeOK, SweepType, Places
<1>2. /\ Expected(st.at) \in Names
      /\ Target(st.at) \in Names
  BY <1>1, NamesHold
<1> USE DEF StoreUnchanged
<1>3. CASE Start(s)
  BY <1>3 DEF Start, Typed, TypeOK, Active
<1>4. CASE Drop(s)
  BY <1>2, <1>4 DEF Drop, Typed, TypeOK
<1>5. CASE CreateRow(s) \/ Finish(s) \/ Fail(s)
  BY <1>5 DEF CreateRow, Finish, Fail, Typed, TypeOK
<1>6. CASE Ensure(s) \/ Search(s) \/ Kill(s)
  BY <1>6 DEF Ensure, Search, Kill, Typed, TypeOK
<1>7. CASE Make(s)
  <2>1. CASE Target(st.at) \in collections
    BY <1>7, <2>1 DEF Make, Typed, TypeOK
  <2>2. CASE Target(st.at) \notin collections
    BY <1>2, <1>7, <2>2 DEF Make, Typed, TypeOK
  <2>3. QED
    BY <2>1, <2>2
<1>8. CASE Upsert(s)
  <2>1. Mine(s) \in Rows
    BY <1>1, <1>8, RowsHold DEF Upsert, Mine, InCorpus, Ingesting
  <2>2. CASE Target(st.at) \in collections
    BY <1>2, <1>8, <2>1, <2>2 DEF Upsert, Typed, TypeOK
  <2>3. CASE Target(st.at) \notin collections
    BY <1>8, <2>3 DEF Upsert, Typed, TypeOK
  <2>4. QED
    BY <2>2, <2>3
<1>9. CASE Insert(s)
  BY <1>1, <1>9 DEF Insert, Typed, TypeOK
<1>10. CASE IngestRaises(s) \/ VariantRaises(s) \/ InsertRaises(s)
  <2>1. faults + 1 \in 0 .. MaxFaults /\ faults' = faults + 1
    BY <1>10, MatrixAssumption DEF IngestRaises, VariantRaises, InsertRaises, Fault, Typed, TypeOK
  <2>2. QED
    BY <1>10, <2>1 DEF IngestRaises, VariantRaises, InsertRaises, Typed, TypeOK
<1>11. QED
  BY <1>3, <1>4, <1>5, <1>6, <1>7, <1>8, <1>9, <1>10 DEF SweepStep

\* An ingest of the service or the benchmark.
LEMMA IngestTyped ==
  ASSUME Typed, NEW r \in Rows, NEW n \in Names, Ingest(r, n), UNCHANGED sweep
  PROVE  /\ status' \in [Rows -> {"absent", "processing", "ready", "failed", "duplicate"}]
         /\ collections' \subseteq Names /\ vectors' \in [Names -> SUBSET Rows]
         /\ \A m \in Names \ collections' : vectors'[m] = {}
         /\ faults' \in 0 .. MaxFaults
<1>1. CASE UNCHANGED faults /\ vectors' = [vectors EXCEPT ![n] = @ \cup {r}]
           /\ collections' = collections \cup {n} /\ status' = [status EXCEPT ![r] = "ready"]
  BY <1>1 DEF Typed, TypeOK
<1>2. CASE Fault /\ status' = [status EXCEPT ![r] = "failed"] /\ StoreUnchanged
  BY <1>2, MatrixAssumption DEF Fault, StoreUnchanged, Typed, TypeOK
<1>3. QED
  BY <1>1, <1>2 DEF Ingest

LEMMA StepTyped == Typed /\ [Next]_vars => Typed'
<1> SUFFICES ASSUME Typed, [Next]_vars PROVE Typed'
  OBVIOUS
<1>1. ASSUME NEW s \in Sweeps, SweepStep(s) PROVE Typed'
  <2>1. benchmark' \in 0 .. Len(Combos)
    BY <1>1, StoreTyped DEF Typed, TypeOK
  <2>2. QED
    BY <1>1, <2>1, SweepTyped, StoreTyped DEF Typed, TypeOK
<1>2. ASSUME NEW m \in ServiceModes, NEW file \in Files, Upload(m, file) PROVE Typed'
  <2>1. Row(m, 0, file) \in Rows /\ UploadName(m) \in Names
    BY NamesHold, RowsHold
  <2>2. CASE status' = [status EXCEPT ![Row(m, 0, file)] = "duplicate"]
             /\ StoreUnchanged /\ UNCHANGED faults
    BY <1>2, <2>2 DEF Upload, StoreUnchanged, Typed, TypeOK, Places
  <2>3. CASE Ingest(Row(m, 0, file), UploadName(m))
    BY <1>2, <2>1, <2>3, IngestTyped DEF Upload, Typed, TypeOK, Places
  <2>4. QED
    BY <1>2, <2>2, <2>3 DEF Upload
<1>3. CASE BenchmarkCombo
  <2>1. benchmark + 1 \in DOMAIN Combos /\ DOMAIN Combos = 1 .. Len(Combos)
    BY <1>3, MatrixAssumption DEF BenchmarkCombo
  <2>2. Row("benchmark", benchmark + 1, 0) \in Rows /\ BenchmarkName(benchmark + 1) \in Names
    BY <2>1, NamesHold, RowsHold
  <2>3. benchmark' \in 0 .. Len(Combos)
    BY <1>3, <2>1, MatrixAssumption DEF BenchmarkCombo, Typed, TypeOK
  <2>4. QED
    BY <1>3, <2>2, <2>3, IngestTyped DEF BenchmarkCombo, Typed, TypeOK, Places
<1>4. CASE UNCHANGED vars
  BY <1>4 DEF vars, Typed, TypeOK, Places
<1>5. QED
  BY <1>1, <1>2, <1>3, <1>4 DEF Next

\* The loops of run_eval() stay within their bounds and a collection that does not exist is
\* empty, whatever sweeps, uploads and benchmarks do to each other.
THEOREM TypeCorrect == Spec => []TypeOK
<1>1. Typed => TypeOK
  BY DEF Typed
<1>2. QED
  BY <1>1, InitTyped, StepTyped, PTL DEF Spec

--------------------------------------------------------------------------------
(* What the collections hold.                                                  *)

\* A sweep writes to the store only in two ways, and to one row.
LEMMA SweepWrites ==
  ASSUME Typed, NEW s \in Sweeps, SweepStep(s)
  PROVE  /\ \/ UNCHANGED vectors
            \/ vectors' = [vectors EXCEPT ![Expected(sweep[s].at)] = {}]
            \/ /\ vectors' = [vectors EXCEPT ![Target(sweep[s].at)] = @ \cup {Mine(s)}]
               /\ sweep[s].pc = "upsert"
         /\ \/ UNCHANGED status
            \/ /\ sweep[s].pc \in Ingesting
               /\ \E new \in {"processing", "ready", "failed"} :
                    status' = [status EXCEPT ![Mine(s)] = new]
<1> USE DEF StoreUnchanged, Ingesting
<1>1. CASE Start(s) \/ Ensure(s) \/ Make(s) \/ Search(s) \/ Insert(s)
  BY <1>1 DEF Start, Ensure, Make, Search, Insert
<1>2. CASE Drop(s) \/ Upsert(s)
  BY <1>2 DEF Drop, Upsert
<1>3. CASE CreateRow(s) \/ Finish(s) \/ Fail(s)
  BY <1>3 DEF CreateRow, Finish, Fail
<1>4. CASE IngestRaises(s) \/ VariantRaises(s) \/ InsertRaises(s) \/ Kill(s)
  BY <1>4 DEF IngestRaises, VariantRaises, InsertRaises, Kill
<1>5. QED
  BY <1>1, <1>2, <1>3, <1>4 DEF SweepStep

\* An ingest of row r into collection n, or one that is a duplicate or fails.
Writes(r, n) ==
  \/ status' = [status EXCEPT ![r] = "duplicate"] /\ UNCHANGED vectors
  \/ status' = [status EXCEPT ![r] = "failed"] /\ UNCHANGED vectors
  \/ /\ status' = [status EXCEPT ![r] = "ready"]
     /\ vectors' = [vectors EXCEPT ![n] = @ \cup {r}]

\* A row of an upload or of the benchmark, and a collection for it.
Foreign(r, n) ==
  /\ r \in Rows /\ r.by \notin Sweeps
  /\ n \in Names /\ n.suffix = 0
  /\ r.by \in ServiceModes => n = UploadName(r.by)

\* Uploads and benchmark write to collections without a suffix, and to rows of their own.
LEMMA OthersWrite ==
  ASSUME Typed,
         (\E m \in ServiceModes, file \in Files : Upload(m, file)) \/ BenchmarkCombo
  PROVE  /\ UNCHANGED <<sweep, results, beside>>
         /\ \E r, n : Foreign(r, n) /\ Writes(r, n)
<1>1. ASSUME NEW m \in ServiceModes, NEW file \in Files, Upload(m, file)
      PROVE  /\ UNCHANGED <<sweep, results, beside>>
             /\ \E r, n : Foreign(r, n) /\ Writes(r, n)
  <2>1. Foreign(Row(m, 0, file), UploadName(m))
    BY NamesHold, RowsHold, NamesAssumption DEF Row, Foreign
  <2>2. Writes(Row(m, 0, file), UploadName(m))
    BY <1>1 DEF Upload, Ingest, StoreUnchanged, Writes
  <2>3. UNCHANGED <<sweep, results, beside>>
    BY <1>1 DEF Upload
  <2>4. QED
    BY <2>1, <2>2, <2>3
<1>2. ASSUME BenchmarkCombo
      PROVE  /\ UNCHANGED <<sweep, results, beside>>
             /\ \E r, n : Foreign(r, n) /\ Writes(r, n)
  <2>1. Foreign(Row("benchmark", benchmark + 1, 0), BenchmarkName(benchmark + 1))
    BY <1>2, NamesHold, RowsHold, NamesAssumption DEF Row, BenchmarkCombo, Foreign
  <2>2. Writes(Row("benchmark", benchmark + 1, 0), BenchmarkName(benchmark + 1))
    BY <1>2 DEF BenchmarkCombo, Ingest, StoreUnchanged, Writes
  <2>3. UNCHANGED <<sweep, results, beside>>
    BY <1>2 DEF BenchmarkCombo
  <2>4. QED
    BY <2>1, <2>2, <2>3
<1>3. QED
  BY <1>1, <1>2

\* Rows of sweeps are in collections with the suffix of their combination alone.
Suffixed == \A n \in Names : \A x \in vectors[n] : x.by \in Sweeps => n.suffix = Suffix(x.at)

\* Rows of uploads are in the collection of their context mode alone, and there if ready.
Homed == \A n \in Names : \A x \in vectors[n] : x.by \in ServiceModes => n = UploadName(x.by)
Kept  == \A m \in ServiceModes, d \in Files :
           status[Row(m, 0, d)] = "ready" => Row(m, 0, d) \in vectors[UploadName(m)]

Shared == Suffixed /\ Homed /\ Kept

LEMMA SharedStep == Typed /\ Shared /\ [Next]_vars => Shared'
<1> SUFFICES ASSUME Typed, Shared, [Next]_vars PROVE Shared'
  OBVIOUS
<1>1. vectors \in [Names -> SUBSET Rows] /\ DOMAIN status = Rows
  BY DEF Typed, TypeOK
<1>2. ASSUME NEW s \in Sweeps, SweepStep(s) PROVE Shared'
  <2>1. sweep[s].at \in Variants
    BY DEF Typed, TypeOK, SweepType
  <2>2. /\ Expected(sweep[s].at) \in Names /\ Expected(sweep[s].at).suffix # 0
        /\ Target(sweep[s].at) \in Names /\ Target(sweep[s].at).suffix = Suffix(sweep[s].at)
    BY <2>1, NamesHold, SuffixPositive
  <2>3. Mine(s).by = s /\ Mine(s).at = sweep[s].at /\ s \notin ServiceModes
    BY NamesAssumption DEF Mine, Row
  <2>4. Suffixed' /\ Homed'
    BY <1>1, <1>2, <2>2, <2>3, SweepWrites DEF Shared, Suffixed, Homed
  <2>5. ASSUME NEW m \in ServiceModes, NEW d \in Files, status'[Row(m, 0, d)] = "ready"
        PROVE  Row(m, 0, d) \in vectors'[UploadName(m)]
    <3>1. Row(m, 0, d) \in Rows /\ Row(m, 0, d).by = m /\ m # s
      BY RowsHold, NamesAssumption DEF Row
    <3>2. status[Row(m, 0, d)] = "ready"
      BY <1>1, <1>2, <2>3, <2>5, <3>1, SweepWrites
    <3>3. Row(m, 0, d) \in vectors[UploadName(m)]
      BY <3>2 DEF Shared, Kept
    <3>4. UploadName(m) \in Names /\ UploadName(m) # Expected(sweep[s].at)
      BY <2>2, NamesHold
    <3>5. QED
      BY <1>1, <1>2, <3>3, <3>4, SweepWrites
  <2>6. QED
    BY <2>4, <2>5 DEF Shared, Kept
<1>3. ASSUME (\E m \in ServiceModes, file \in Files : Upload(m, file)) \/ BenchmarkCombo
      PROVE  Shared'
  <2>1. PICK r, n : Foreign(r, n) /\ Writes(r, n)
    BY <1>3, OthersWrite
  <2>2. Suffixed' /\ Homed'
    BY <1>1, <2>1 DEF Shared, Suffixed, Homed, Foreign, Writes
  <2>3. ASSUME NEW m \in ServiceModes, NEW d \in Files, status'[Row(m, 0, d)] = "ready"
        PROVE  Row(m, 0, d) \in vectors'[UploadName(m)]
    <3>1. Row(m, 0, d) \in Rows /\ Row(m, 0, d).by = m /\ UploadName(m) \in Names
      BY RowsHold, NamesHold DEF Row
    <3>2. CASE r = Row(m, 0, d)
      BY <1>1, <2>1, <2>3, <3>1, <3>2 DEF Foreign, Writes
    <3>3. CASE r # Row(m, 0, d)
      <4>1. Row(m, 0, d) \in vectors[UploadName(m)]
        BY <1>1, <2>1, <2>3, <3>1, <3>3 DEF Shared, Kept, Foreign, Writes
      <4>2. QED
        BY <1>1, <2>1, <3>1, <4>1 DEF Foreign, Writes
    <3>4. QED
      BY <3>2, <3>3
  <2>4. QED
    BY <2>2, <2>3 DEF Shared, Kept
<1>4. CASE UNCHANGED vars
  BY <1>4 DEF vars, Shared, Suffixed, Homed, Kept
<1>5. QED
  BY <1>2, <1>3, <1>4 DEF Next

LEMMA SharedInvariant == Spec => [](Typed /\ Shared)
<1>1. Init => Shared
  <2>1. ASSUME Init, NEW m \in ServiceModes, NEW d \in Files
        PROVE  status[Row(m, 0, d)] # "ready"
    BY <2>1, RowsHold DEF Init
  <2>2. QED
    BY <2>1 DEF Init, Shared, Suffixed, Homed, Kept
<1>2. QED
  BY <1>1, InitTyped, StepTyped, SharedStep, PTL DEF Spec

\* What the service has ingested stays in its collection, as the suffix of a sweep's
\* collections keeps its drops away; and, for any settings, a query finds it exactly if it
\* asks for the deployment's retrieval mode and the settings agree.
THEOREM UploadsStay == Spec => []UploadsAreFound
<1>1. Shared => UploadsAreFound
  <2> SUFFICES ASSUME Shared, NEW m \in ServiceModes, NEW d \in Files,
                      status[Row(m, 0, d)] = "ready"
               PROVE  /\ Row(m, 0, d) \in vectors[UploadName(m)]
                      /\ \A h \in BOOLEAN :
                           Row(m, 0, d) \in vectors[QueryName(m, h)]
                             <=> (h = Hybrid /\ SettingsAgree)
    BY DEF UploadsAreFound
  <2>1. Row(m, 0, d) \in vectors[UploadName(m)] /\ Row(m, 0, d).by = m
    BY DEF Shared, Kept, Row
  <2>2. ASSUME NEW h \in BOOLEAN, Row(m, 0, d) \in vectors[QueryName(m, h)]
        PROVE  QueryName(m, h) = UploadName(m)
    BY <2>1, <2>2, QueryNamesHold DEF Shared, Homed
  <2>3. QED
    BY <2>1, <2>2, QueryNamesHold
<1>2. QED
  BY <1>1, SharedInvariant, PTL

\* No collection of the sweeps mixes two combinations, even when sweeps overlap.
THEOREM CombosStayApart == Spec => []CombosIsolated
<1>1. Shared => CombosIsolated
  BY DEF Shared, Suffixed, CombosIsolated, Suffix
<1>2. QED
  BY <1>1, SharedInvariant, PTL
--------------------------------------------------------------------------------
(* What is scored.                                                             *)

\* A step of a sweep changes no other sweep; it begins no sweep anew, and within the loops
\* it goes to the next variant by dropping its collection.
LEMMA SweepMoves ==
  ASSUME Typed, NEW s \in Sweeps, SweepStep(s)
  PROVE  /\ \A t \in Sweeps \ {s} : sweep'[t] = sweep[t]
         /\ sweep[s].pc \notin {"returned", "gone"} /\ sweep'[s].pc # "new"
         /\ \/ sweep'[s].pc \in {"returned", "gone"} /\ sweep'[s].saw = {}
            \/ sweep'[s].at = sweep[s].at
            \/ sweep'[s] = Fresh("drop", sweep[s].at + 1)
<1>1. sweep \in [Sweeps -> SweepType] /\ sweep[s] \in SweepType
  BY DEF Typed, TypeOK
<1>2. CASE Start(s) \/ Drop(s) \/ CreateRow(s) \/ IngestRaises(s)
  BY <1>1, <1>2 DEF Start, Drop, CreateRow, IngestRaises, Go, SweepType
<1>3. CASE Ensure(s) \/ Make(s) \/ Upsert(s)
  BY <1>1, <1>3 DEF Ensure, Make, Upsert, Go, SweepType
<1>4. CASE Finish(s) \/ Search(s)
  BY <1>1, <1>4 DEF Finish, NextFile, Search, SweepType
<1>5. CASE Advance(s) /\ sweep[s].pc \notin {"returned", "gone"}
  BY <1>1, <1>5 DEF Advance, End, Fresh
<1>6. CASE Insert(s) \/ Fail(s) \/ VariantRaises(s)
  BY <1>5, <1>6 DEF Insert, Fail, VariantRaises, Skip
<1>7. CASE InsertRaises(s) \/ Kill(s)
  BY <1>1, <1>7 DEF InsertRaises, Kill, End, Fresh, Active
<1>8. QED
  BY <1>2, <1>3, <1>4, <1>6, <1>7 DEF SweepStep

\* Only an insert adds to the results.
LEMMA ResultsGrow ==
  ASSUME NEW s \in Sweeps, SweepStep(s)
  PROVE  UNCHANGED results \/ Insert(s)
BY DEF SweepStep, Start, Drop, CreateRow, Ensure, Make, Upsert, Finish, Search, IngestRaises,
       Fail, VariantRaises, InsertRaises, Kill

\* The files of the variant before the current one are ready, and all of them in a search.
ReadySoFar ==
  \A s \in Sweeps : \A d \in 1 .. Docs :
    (\/ sweep[s].pc = "search"
     \/ sweep[s].pc \in Ingesting /\ d < sweep[s].doc) =>
      status[Row(s, sweep[s].at, d)] = "ready"

\* What a sweep has scored it is past.
Earlier ==
  \A r \in results : /\ sweep[r.by].pc # "new"
                     /\ r.by \in Active => r.at < sweep[r.by].at

Scored == ReadySoFar /\ Earlier /\ ScoredDocsReady

\* A step of a sweep keeps the files of its own variant and those of what is scored ready.
LEMMA ScoredSweep ==
  ASSUME Typed, Scored, NEW s \in Sweeps, SweepStep(s)
  PROVE  Scored'
<1> DEFINE st == sweep[s]
<1>1. /\ sweep \in [Sweeps -> SweepType] /\ DOMAIN status = Rows
      /\ st \in SweepType /\ st.at \in Variants /\ st.doc \in Nat
      /\ results \subseteq [by : Sweeps, at : Variants]
      /\ InCorpus(st.pc, st.doc)
  BY DEF Typed, TypeOK, Places, SweepType
<1>2. Mine(s) = Row(s, st.at, st.doc)
  BY DEF Mine
\* Only the row of the current file is written.
<1>3. ASSUME NEW t \in Sweeps, NEW v \in Variants, NEW d \in 1 .. Docs,
             status[Row(t, v, d)] = "ready", Row(t, v, d) # Mine(s) \/ st.pc \notin Ingesting
      PROVE  status'[Row(t, v, d)] = "ready"
  BY <1>1, <1>3, RowsHold, SweepWrites
<1>4. ASSUME NEW t \in Sweeps, NEW d \in 1 .. Docs,
             \/ sweep'[t].pc = "search"
             \/ sweep'[t].pc \in Ingesting /\ d < sweep'[t].doc
      PROVE  status'[Row(t, sweep'[t].at, d)] = "ready"
  <2>1. CASE t # s
    <3>1. sweep'[t] = sweep[t] /\ sweep[t].at \in Variants
      BY <1>1, <2>1, SweepMoves DEF SweepType
    <3>2. status[Row(t, sweep[t].at, d)] = "ready"
      BY <1>4, <3>1 DEF Scored, ReadySoFar
    <3>3. QED
      BY <1>2, <1>3, <2>1, <3>1, <3>2, RowsDiffer
  <2>2. CASE t = s
    <3>1. CASE Drop(s)
      BY <1>1, <1>4, <2>2, <3>1 DEF Drop, Go, InCorpus
    <3>2. CASE Finish(s)
      <4>1. CASE d = st.doc
        BY <1>1, <1>2, <2>2, <3>2, <4>1, RowsHold DEF Finish, NextFile, SweepType
      <4>2. CASE d # st.doc
        <5>1. d < st.doc /\ sweep'[s].at = st.at /\ st.pc \in Ingesting
          BY <1>1, <1>4, <2>2, <3>2, <4>2 DEF Finish, NextFile, SweepType, InCorpus, Ingesting
        <5>2. status[Row(s, st.at, d)] = "ready"
          BY <5>1 DEF Scored, ReadySoFar
        <5>3. QED
          BY <1>1, <1>2, <1>3, <2>2, <4>2, <5>1, <5>2, RowsDiffer
      <4>3. QED
        BY <4>1, <4>2
    <3>3. CASE CreateRow(s) \/ Ensure(s) \/ Make(s) \/ Upsert(s) \/ IngestRaises(s) \/ Search(s)
      <4>1. /\ sweep'[s].at = st.at /\ sweep'[s].doc = st.doc
            /\ sweep'[s].pc = "search" <=> st.pc = "search"
            /\ sweep'[s].pc \in Ingesting <=> st.pc \in Ingesting
        BY <1>1, <3>3 DEF CreateRow, Ensure, Make, Upsert, IngestRaises, Search, Go, Ingesting,
                          SweepType
      <4>2. status[Row(s, st.at, d)] = "ready"
        BY <1>4, <2>2, <4>1 DEF Scored, ReadySoFar
      <4>3. Row(s, st.at, d) # Mine(s) \/ st.pc \notin Ingesting
        BY <1>1, <1>2, <1>4, <2>2, <4>1, RowsDiffer DEF Ingesting
      <4>4. QED
        BY <1>1, <1>3, <2>2, <4>1, <4>2, <4>3
    <3>4. CASE Start(s) \/ Insert(s) \/ Fail(s) \/ VariantRaises(s) \/ InsertRaises(s) \/ Kill(s)
      <4>1. sweep'[s].pc \in {"drop", "returned", "gone"}
        <5>1. CASE Start(s) \/ InsertRaises(s) \/ Kill(s)
          BY <1>1, <5>1 DEF Start, InsertRaises, Kill, Go, End, Fresh, SweepType
        <5>2. ASSUME Advance(s) PROVE sweep'[s].pc \in {"drop", "returned", "gone"}
          BY <1>1, <5>2 DEF Advance, End, Fresh
        <5>3. QED
          BY <3>4, <5>1, <5>2 DEF Insert, Fail, VariantRaises, Skip
      <4>2. QED
        BY <1>4, <2>2, <4>1 DEF Ingesting
    <3>5. QED
      BY <3>1, <3>2, <3>3, <3>4 DEF SweepStep
  <2>3. QED
    BY <2>1, <2>2
<1>5. ASSUME NEW r \in results'
      PROVE  /\ sweep'[r.by].pc # "new"
             /\ r.by \in Active' => r.at < sweep'[r.by].at
  <2>1. CASE r \in results
    <3>1. r.by \in Sweeps /\ r.at \in Variants /\ sweep[r.by].at \in Variants
      BY <1>1, <2>1 DEF SweepType
    <3>2. sweep[r.by].pc # "new" /\ (r.by \in Active => r.at < sweep[r.by].at)
      BY <2>1 DEF Scored, Earlier
    <3>3. CASE r.by # s
      BY <3>1, <3>2, <3>3, SweepMoves DEF Active
    <3>4. CASE r.by = s
      <4>1. r.at < st.at /\ r.at \in Nat /\ st.at \in Nat
        BY <3>1, <3>2, <3>4, SweepMoves, LastPositive DEF Active, Variants
      <4>2. sweep'[s].pc # "new"
        BY SweepMoves
      <4>3. \/ sweep'[s].pc \in {"returned", "gone"}
            \/ sweep'[s].at = st.at
            \/ sweep'[s].at = st.at + 1
        <5>1. Fresh("drop", st.at + 1).at = st.at + 1
          BY DEF Fresh
        <5>2. QED
          BY <5>1, SweepMoves
      <4>4. QED
        BY <3>4, <4>1, <4>2, <4>3 DEF Active
    <3>5. QED
      BY <3>3, <3>4
  <2>2. CASE r \notin results
    <3>1. Insert(s) /\ r.by = s /\ r.at = st.at
      BY <2>2, ResultsGrow DEF Insert
    <3>2. CASE st.at = LastVariant
      BY <1>1, <3>1, <3>2 DEF Insert, Advance, End, Fresh, Active
    <3>3. CASE st.at # LastVariant
      BY <1>1, <3>1, <3>3, LastPositive DEF Insert, Advance, Fresh, Active, Variants
    <3>4. QED
      BY <3>2, <3>3
  <2>3. QED
    BY <2>1, <2>2
<1>6. ASSUME NEW r \in results', NEW x \in Corpus(r.by, r.at)
      PROVE  status'[x] = "ready"
  <2>1. PICK d \in 1 .. Docs : x = Row(r.by, r.at, d)
    BY DEF Corpus
  <2>2. CASE r \in results
    <3>1. r.by \in Sweeps /\ r.at \in Variants /\ status[x] = "ready"
      BY <1>1, <2>2 DEF Scored, ScoredDocsReady
    <3>2. x # Mine(s) \/ st.pc \notin Ingesting
      BY <1>1, <1>2, <2>1, <2>2, <3>1, RowsDiffer, LastPositive
      DEF Scored, Earlier, Active, Ingesting, Variants
    <3>3. QED
      BY <1>3, <2>1, <3>1, <3>2
  <2>3. CASE r \notin results
    <3>1. Insert(s) /\ r.by = s /\ r.at = st.at
      BY <2>3, ResultsGrow DEF Insert
    <3>2. status[x] = "ready" /\ UNCHANGED status
      BY <2>1, <3>1 DEF Scored, ReadySoFar, Insert
    <3>3. QED
      BY <3>2
  <2>4. QED
    BY <2>2, <2>3
<1>7. QED
  BY <1>4, <1>5, <1>6 DEF Scored, ReadySoFar, Earlier, ScoredDocsReady

LEMMA ScoredStep == Typed /\ Scored /\ [Next]_vars => Scored'
<1> SUFFICES ASSUME Typed, Scored, [Next]_vars PROVE Scored'
  OBVIOUS
<1>1. CASE \E s \in Sweeps : SweepStep(s)
  BY <1>1, ScoredSweep
<1>2. CASE (\E m \in ServiceModes, file \in Files : Upload(m, file)) \/ BenchmarkCombo
  <2>1. PICK r, n : Foreign(r, n) /\ Writes(r, n)
    BY <1>2, OthersWrite
  <2>2. UNCHANGED <<sweep, results>> /\ Active' = Active
    BY <1>2, OthersWrite DEF Active
  <2>3. ASSUME NEW s \in Sweeps, NEW v \in Variants, NEW d \in 1 .. Docs
        PROVE  status'[Row(s, v, d)] = status[Row(s, v, d)]
    BY <2>1, RowsHold DEF Foreign, Writes, Row, Typed, TypeOK
  <2>4. ReadySoFar' /\ Earlier'
    BY <2>2, <2>3 DEF Scored, ReadySoFar, Earlier, Typed, TypeOK, SweepType
  <2>5. ScoredDocsReady'
    BY <2>2, <2>3 DEF Scored, ScoredDocsReady, Corpus, Typed, TypeOK
  <2>6. QED
    BY <2>4, <2>5 DEF Scored
<1>3. CASE UNCHANGED vars
  BY <1>3 DEF vars, Scored, ReadySoFar, Earlier, Active, ScoredDocsReady
<1>4. QED
  BY <1>1, <1>2, <1>3 DEF Next

\* No variant is scored on part of its corpus, whatever fails and whoever interferes.
THEOREM ScoredInFull == Spec => []ScoredDocsReady
<1>1. Init => Scored
  BY DEF Init, Scored, ReadySoFar, Earlier, ScoredDocsReady, Fresh, Ingesting
<1>2. Scored => ScoredDocsReady
  BY DEF Scored
<1>3. QED
  BY <1>1, <1>2, InitTyped, StepTyped, ScoredStep, PTL DEF Spec

--------------------------------------------------------------------------------
(* What is searched.                                                           *)

\* Two sweeps at once are both in the history.
OnlyOne == \A s, t \in Active : s # t => s \in beside /\ t \in beside

\* The rows of the files up to the k-th; the number of files stored at a place of the loops.
Upto(s, v, k)   == {Row(s, v, d) : d \in 1 .. k}
Storing         == {"create", "ensure", "make", "upsert", "finish", "search"}
Stored(pc, doc) == IF pc = "search" THEN Docs ELSE IF pc = "finish" THEN doc ELSE doc - 1

\* What the searches of a variant may be answered from.
Answers(s, v) == IF HybridOf(v) THEN SUBSET Corpus(s, v) ELSE {Corpus(s, v)}

\* The collection of a sweep that is alone holds the files of this variant so far, and
\* nothing else.
HasOwn(s) ==
  /\ sweep[s].saw \subseteq Answers(s, sweep[s].at)
  /\ sweep[s].pc \in Storing =>
       vectors[Target(sweep[s].at)] = Upto(s, sweep[s].at, Stored(sweep[s].pc, sweep[s].doc))
Own == \A s \in Sweeps \ beside : DimKnown(sweep[s].at) => HasOwn(s)

Alone == OnlyOne /\ Own

\* Where a sweep that is alone goes next, its collection is its own again.
LEMMA OwnKept ==
  ASSUME Typed, NEW s \in Sweeps, SweepStep(s),
         DimKnown(sweep[s].at) => HasOwn(s),
         DimKnown(sweep'[s].at)
  PROVE  HasOwn(s)'
<1> DEFINE st == sweep[s]
<1>1. /\ sweep \in [Sweeps -> SweepType] /\ vectors \in [Names -> SUBSET Rows]
      /\ st \in SweepType /\ st.at \in Variants /\ st.doc \in Nat
      /\ InCorpus(st.pc, st.doc)
  BY DEF Typed, TypeOK, Places, SweepType
<1>2. Target(st.at) \in Names
  BY <1>1, NamesHold
<1>3. ASSUME sweep'[s].pc \notin Storing, sweep'[s].saw = {}
      PROVE  HasOwn(s)'
  BY <1>3 DEF HasOwn
<1>4. CASE \/ Advance(s) \/ \E how \in {"returned", "gone"} : End(s, how)
  <2>1. \E v, pc : pc \in {"drop", "returned", "gone"} /\ sweep'[s] = Fresh(pc, v)
    BY <1>1, <1>4 DEF Advance, End
  <2>2. \A v, pc : Fresh(pc, v).pc = pc /\ Fresh(pc, v).saw = {}
    BY DEF Fresh
  <2>3. QED
    BY <1>3, <2>1, <2>2 DEF Storing
<1>5. CASE Insert(s) \/ Fail(s) \/ VariantRaises(s) \/ InsertRaises(s) \/ Kill(s)
  BY <1>4, <1>5 DEF Insert, Fail, VariantRaises, InsertRaises, Kill, Skip
\* The other steps stay in the variant.
<1>6. ASSUME sweep'[s].at = st.at PROVE HasOwn(s)
  BY <1>6
<1>7. CASE Start(s) \/ IngestRaises(s)
  <2>1. sweep'[s].at = st.at /\ sweep'[s].saw = st.saw /\ sweep'[s].pc \in {"drop", "failing"}
    BY <1>1, <1>7 DEF Start, IngestRaises, Go, SweepType
  <2>2. QED
    BY <1>6, <2>1 DEF HasOwn, Storing
<1>8. CASE CreateRow(s) \/ Ensure(s) \/ Make(s)
  <2>1. /\ sweep'[s].at = st.at /\ sweep'[s].saw = st.saw /\ sweep'[s].doc = st.doc
        /\ st.pc \in {"create", "ensure", "make"}
        /\ sweep'[s].pc \in {"ensure", "make", "upsert", "failing"} /\ UNCHANGED vectors
    BY <1>1, <1>8 DEF CreateRow, Ensure, Make, Go, StoreUnchanged, SweepType
  <2>2. QED
    BY <1>6, <2>1 DEF HasOwn, Storing, Stored
<1>9. CASE Drop(s)
  <2>1. /\ sweep'[s].at = st.at /\ sweep'[s].saw = st.saw /\ sweep'[s].doc = 1
        /\ sweep'[s].pc = IF Docs = 0 THEN "search" ELSE "create"
    BY <1>1, <1>9 DEF Drop, Go, InCorpus, SweepType
  <2>2. vectors'[Target(st.at)] = {}
    BY <1>1, <1>2, <1>9, <2>1 DEF Drop, DimKnown
  <2>3. Upto(s, st.at, Stored(sweep'[s].pc, sweep'[s].doc)) = {}
    BY <2>1 DEF Upto, Stored
  <2>4. QED
    BY <1>6, <2>1, <2>2, <2>3 DEF HasOwn
<1>10. CASE Upsert(s)
  <2>1. /\ sweep'[s].at = st.at /\ sweep'[s].saw = st.saw /\ sweep'[s].doc = st.doc
        /\ st.pc = "upsert" /\ sweep'[s].pc \in {"finish", "failing"}
    BY <1>1, <1>10 DEF Upsert, Go, SweepType
  <2>2. CASE Target(st.at) \in collections
    <3>1. vectors'[Target(st.at)] = vectors[Target(st.at)] \cup {Row(s, st.at, st.doc)}
          /\ sweep'[s].pc = "finish"
      BY <1>1, <1>2, <1>10, <2>2 DEF Upsert, Go, Mine, SweepType
    <3>2. vectors[Target(st.at)] = Upto(s, st.at, st.doc - 1)
      BY <1>6, <2>1 DEF HasOwn, Storing, Stored
    <3>3. Upto(s, st.at, st.doc) = Upto(s, st.at, st.doc - 1) \cup {Row(s, st.at, st.doc)}
      <4>1. st.doc \in 1 .. Docs
        BY <1>1, <2>1 DEF InCorpus, Ingesting
      <4>2. 1 .. st.doc = (1 .. (st.doc - 1)) \cup {st.doc}
        BY <1>1, <4>1
      <4>3. QED
        BY <4>2 DEF Upto
    <3>4. QED
      BY <1>6, <2>1, <3>1, <3>2, <3>3 DEF HasOwn, Storing, Stored
  <2>3. CASE Target(st.at) \notin collections
    <3>1. sweep'[s].pc = "failing"
      BY <1>1, <1>10, <2>3 DEF Upsert, Go, SweepType
    <3>2. QED
      BY <1>6, <2>1, <3>1 DEF HasOwn, Storing
  <2>4. QED
    BY <2>2, <2>3
<1>11. CASE Finish(s)
  <2>1. /\ sweep'[s].at = st.at /\ sweep'[s].saw = st.saw /\ st.pc = "finish"
        /\ UNCHANGED vectors
        /\ \/ sweep'[s].pc = "search" /\ st.doc = Docs
           \/ sweep'[s].pc = "create" /\ sweep'[s].doc = st.doc + 1
    BY <1>1, <1>11 DEF Finish, NextFile, StoreUnchanged, SweepType
  <2>2. Stored(sweep'[s].pc, sweep'[s].doc) = st.doc
    BY <1>1, <2>1 DEF Stored
  <2>3. vectors[Target(st.at)] = Upto(s, st.at, st.doc)
    BY <1>6, <2>1 DEF HasOwn, Storing, Stored
  <2>4. QED
    BY <1>6, <2>1, <2>2, <2>3 DEF HasOwn
<1>12. CASE Search(s)
  <2>1. PICK seen \in Visible(Target(st.at)) :
          sweep' = [sweep EXCEPT ![s].asked = @ + 1, ![s].saw = @ \cup {seen}]
    BY <1>12 DEF Search
  <2>2. /\ sweep'[s].at = st.at /\ sweep'[s].saw = st.saw \cup {seen}
        /\ st.pc = "search" /\ sweep'[s].pc = "search" /\ UNCHANGED vectors
    BY <1>1, <1>12, <2>1 DEF Search, StoreUnchanged, SweepType
  <2>3. vectors[Target(st.at)] = Corpus(s, st.at)
    BY <1>6, <2>2 DEF HasOwn, Storing, Stored, Upto, Corpus
  <2>4. Target(st.at).hybrid = HybridOf(st.at)
    BY DEF Target, CollectionFor
  <2>5. seen \in Answers(s, st.at)
    BY <2>3, <2>4 DEF Visible, Answers
  <2>6. QED
    BY <1>6, <2>2, <2>3, <2>5 DEF HasOwn, Stored, Upto, Corpus
<1>13. QED
  BY <1>5, <1>7, <1>8, <1>9, <1>10, <1>11, <1>12 DEF SweepStep

LEMMA AloneSweep ==
  ASSUME Typed, Alone, NEW s \in Sweeps, SweepStep(s)
  PROVE  Alone'
<1>1. beside \subseteq beside' /\ beside \subseteq Sweeps
      /\ sweep \in [Sweeps -> SweepType]
  BY DEF SweepStep, Start, Drop, CreateRow, Ensure, Make, Upsert, Finish, Search, Insert,
         IngestRaises, Fail, VariantRaises, InsertRaises, Kill, Typed, TypeOK
<1>2. \A t \in Sweeps \ {s} : sweep'[t] = sweep[t]
  BY SweepMoves
\* A sweep that begins beside another is recorded with it.
<1>3. s \in Active \/ (Start(s) /\ (Active = {} \/ Active \cup {s} \subseteq beside'))
  BY SweepMoves
  DEF Active, SweepStep, Start, Drop, CreateRow, Ensure, Make, Upsert, Finish, Search, Insert,
      IngestRaises, Fail, VariantRaises, InsertRaises, Kill
<1>4. Active' \subseteq Active \cup {s}
  BY <1>2 DEF Active
<1>5. OnlyOne'
  BY <1>1, <1>3, <1>4 DEF Alone, OnlyOne
<1>6. ASSUME NEW t \in Sweeps \ beside', DimKnown(sweep'[t].at)
      PROVE  HasOwn(t)'
  <2>1. CASE t = s
    <3>1. DimKnown(sweep[s].at) => HasOwn(s)
      BY <1>1, <2>1 DEF Alone, Own
    <3>2. QED
      BY <1>6, <2>1, <3>1, OwnKept
  <2>2. CASE t # s
    <3>1. sweep'[t] = sweep[t] /\ HasOwn(t)
      BY <1>1, <1>2, <1>6, <2>2 DEF Alone, Own
    <3>2. CASE t \notin Active
      BY <3>1, <3>2 DEF HasOwn, Active, Storing
    <3>3. CASE t \in Active
      BY <1>1, <1>3, <2>2, <3>3 DEF Alone, OnlyOne
    <3>4. QED
      BY <3>2, <3>3
  <2>3. QED
    BY <2>1, <2>2
<1>7. QED
  BY <1>5, <1>6 DEF Alone, Own

LEMMA AloneStep == Typed /\ Alone /\ [Next]_vars => Alone'
<1> SUFFICES ASSUME Typed, Alone, [Next]_vars PROVE Alone'
  OBVIOUS
<1>1. CASE \E s \in Sweeps : SweepStep(s)
  BY <1>1, AloneSweep
<1>2. CASE (\E m \in ServiceModes, file \in Files : Upload(m, file)) \/ BenchmarkCombo
  <2>1. PICK r, n : Foreign(r, n) /\ Writes(r, n)
    BY <1>2, OthersWrite
  <2>2. UNCHANGED <<sweep, results, beside>> /\ Active' = Active
    BY <1>2, OthersWrite DEF Active
  <2>3. ASSUME NEW v \in Variants
        PROVE  vectors'[Target(v)] = vectors[Target(v)]
    BY <2>1, NamesHold, SuffixPositive DEF Foreign, Writes, Typed, TypeOK
  <2>4. ASSUME NEW s \in Sweeps, HasOwn(s)
        PROVE  HasOwn(s)'
    BY <2>2, <2>3, <2>4 DEF HasOwn, Typed, TypeOK, SweepType
  <2>5. QED
    BY <2>2, <2>4 DEF Alone, OnlyOne, Own
<1>3. CASE UNCHANGED vars
  BY <1>3 DEF vars, Alone, OnlyOne, Active, Own, HasOwn
<1>4. QED
  BY <1>1, <1>2, <1>3 DEF Next

\* The searches of a sweep that runs alone see nothing but its own corpus, and dense ones all
\* of it, whatever was in its collections before.
THEOREM ScoredOnItsOwn == Spec => []ScoresOwnCorpus
<1>1. Init => Alone
  BY DEF Init, Alone, OnlyOne, Active, Own, HasOwn, Storing, Fresh
<1>2. Alone => ScoresOwnCorpus
  BY DEF Alone, Own, HasOwn, Answers, ScoresOwnCorpus
<1>3. QED
  BY <1>1, <1>2, InitTyped, StepTyped, AloneStep, PTL DEF Spec

--------------------------------------------------------------------------------
(* What is skipped.                                                            *)

\* The variants up to the k-th that a sweep has no result for, and how many it has passed.
Missed(rows, s, k) == {v \in 1 .. k : \A r \in rows : ~(r.by = s /\ r.at = v)}
Passed(st) == IF st.pc = "returned" THEN LastVariant ELSE st.at - 1
\* A call whose failure is on its way to the except clause has been counted already.
Pending(pc) == IF pc = "failing" THEN 1 ELSE 0

LEMMA MissedCounted ==
  ASSUME NEW rows, NEW s, NEW k \in Nat
  PROVE  /\ IsFiniteSet(Missed(rows, s, k)) /\ Cardinality(Missed(rows, s, k)) \in Nat
<1>1. IsFiniteSet(1 .. k) /\ Missed(rows, s, k) \in SUBSET (1 .. k)
  BY FS_Interval DEF Missed
<1>2. IsFiniteSet(Missed(rows, s, k))
  BY <1>1, FS_Subset
<1>3. QED
  BY <1>2, FS_CardinalityType

\* With more results no more are missed; passing one more variant misses one more at most,
\* and none if it has a result.
LEMMA MissedGrows ==
  ASSUME NEW rows, NEW more, rows \subseteq more, NEW s, NEW k \in Nat
  PROVE  /\ Cardinality(Missed(more, s, k)) <= Cardinality(Missed(rows, s, k))
         /\ Cardinality(Missed(more, s, k + 1)) <= Cardinality(Missed(rows, s, k)) + 1
         /\ (\E r \in more : r.by = s /\ r.at = k + 1) =>
              Cardinality(Missed(more, s, k + 1)) <= Cardinality(Missed(rows, s, k))
<1> DEFINE old == Missed(rows, s, k)
<1>1. IsFiniteSet(old) /\ Cardinality(old) \in Nat
  BY MissedCounted
<1>2. Missed(more, s, k) \subseteq old
  BY DEF Missed
<1>3. Missed(more, s, k + 1) \subseteq old \cup {k + 1}
  BY DEF Missed
<1>4. (\E r \in more : r.by = s /\ r.at = k + 1) => Missed(more, s, k + 1) \subseteq old
  BY DEF Missed
<1> HIDE DEF old
<1>5. IsFiniteSet(old \cup {k + 1}) /\ Cardinality(old \cup {k + 1}) <= Cardinality(old) + 1
      /\ Cardinality(old \cup {k + 1}) \in Nat
  BY <1>1, FS_AddElement
<1>6. Cardinality(Missed(more, s, k)) <= Cardinality(old)
  BY <1>1, <1>2, FS_Subset
<1>7. Cardinality(Missed(more, s, k + 1)) <= Cardinality(old) + 1
  <2>1. Cardinality(Missed(more, s, k + 1)) <= Cardinality(old \cup {k + 1})
    BY <1>3, <1>5, FS_Subset
  <2>2. Cardinality(Missed(more, s, k + 1)) \in Nat
    BY MissedCounted
  <2>3. QED
    BY <1>1, <1>5, <2>1, <2>2
<1>8. (\E r \in more : r.by = s /\ r.at = k + 1) =>
        Cardinality(Missed(more, s, k + 1)) <= Cardinality(old)
  BY <1>1, <1>4, FS_Subset
<1>9. QED
  BY <1>6, <1>7, <1>8 DEF old

\* A sweep that nothing interferes with has a call that raised for each variant it skips, and
\* finds its collection as it has left it: only a call can fail it.
Caused(s) ==
  Cardinality(Missed(results, s, Passed(sweep[s]))) + Pending(sweep[s].pc) <= faults
Undisturbed(s) ==
  /\ sweep[s].ready \subseteq collections
  /\ sweep[s].pc \in {"new", "drop", "returned"} => sweep[s].ready = {}
  /\ sweep[s].pc = "make" => Target(sweep[s].at) \notin collections
  /\ sweep[s].pc = "upsert" => Target(sweep[s].at) \in collections
Blamed == \A s \in Sweeps \ beside : sweep[s].pc # "gone" => Caused(s) /\ Undisturbed(s)

\* Results and faults only grow.
LEMMA CausesStay ==
  ASSUME Typed, NEW s \in Sweeps, SweepStep(s)
  PROVE  results \subseteq results' /\ faults' \in Nat /\ faults \in Nat /\ faults <= faults'
BY MatrixAssumption
   DEF SweepStep, Start, Drop, CreateRow, Ensure, Make, Upsert, Finish, Search, Insert,
       IngestRaises, Fail, VariantRaises, InsertRaises, Kill, Fault, Typed, TypeOK

\* The sweep's own step.
LEMMA BlamedOwn ==
  ASSUME Typed, NEW s \in Sweeps, SweepStep(s), Caused(s), Undisturbed(s),
         sweep'[s].pc # "gone"
  PROVE  Caused(s)' /\ Undisturbed(s)'
<1> DEFINE st == sweep[s]
<1>1. /\ sweep \in [Sweeps -> SweepType] /\ st \in SweepType /\ st.at \in Variants
      /\ st.at - 1 \in Nat /\ st.at \in Nat /\ collections \subseteq Names
      /\ st.pc \notin {"returned", "gone"} /\ Passed(st) = st.at - 1
  BY SweepMoves, LastPositive DEF Typed, TypeOK, SweepType, Variants, Passed
<1>2. results \subseteq results' /\ faults' \in Nat /\ faults \in Nat /\ faults <= faults'
  BY CausesStay
<1> DEFINE before == Cardinality(Missed(results, s, st.at - 1))
<1>3. before \in Nat /\ before + Pending(st.pc) <= faults
  BY <1>1, MissedCounted DEF Caused
\* Staying in the variant: only a failure counts, and it is a call's.
<1>4. ASSUME sweep'[s].at = st.at, sweep'[s].pc \notin {"returned", "gone"},
             sweep'[s].pc = "failing" => st.pc # "failing" /\ faults' = faults + 1
      PROVE  Caused(s)'
  <2>1. Passed(sweep'[s]) = st.at - 1
    BY <1>1, <1>4 DEF Passed
  <2>2. Cardinality(Missed(results', s, st.at - 1)) <= before
    BY <1>1, <1>2, MissedGrows
  <2>3. Cardinality(Missed(results', s, st.at - 1)) \in Nat
    BY <1>1, MissedCounted
  <2>4. Cardinality(Missed(results', s, st.at - 1)) + Pending(sweep'[s].pc) <= faults'
    BY <1>2, <1>3, <1>4, <2>2, <2>3 DEF Pending
  <2>5. QED
    BY <2>1, <2>4 DEF Caused
\* Leaving it, with a result or because a call has raised.
<1>5. ASSUME Advance(s),
             \/ \E r \in results' : r.by = s /\ r.at = st.at
             \/ st.pc = "failing"
             \/ faults' = faults + 1
      PROVE  Caused(s)' /\ Undisturbed(s)'
  <2>1. Passed(sweep'[s]) = st.at /\ sweep'[s].ready = {}
        /\ sweep'[s].pc \in {"returned", "drop"}
    BY <1>1, <1>5 DEF Advance, End, Fresh, Passed
  <2>2. Cardinality(Missed(results', s, st.at)) \in Nat
    BY <1>1, MissedCounted
  <2>3. st.at = (st.at - 1) + 1
    BY <1>1
  <2>4. /\ Cardinality(Missed(results', s, st.at)) <= before + 1
        /\ (\E r \in results' : r.by = s /\ r.at = st.at) =>
             Cardinality(Missed(results', s, st.at)) <= before
    BY <1>1, <1>2, <2>3, MissedGrows
  <2> HIDE DEF before
  <2>5. Cardinality(Missed(results', s, st.at)) <= faults'
    BY <1>2, <1>3, <1>5, <2>2, <2>4 DEF Pending
  <2>6. Caused(s)'
    BY <1>2, <2>1, <2>2, <2>5 DEF Caused, Pending
  <2>7. Undisturbed(s)'
    BY <2>1 DEF Undisturbed
  <2>8. QED
    BY <2>6, <2>7
<1> HIDE DEF before
<1>6. CASE Start(s) \/ CreateRow(s)
  <2>1. /\ sweep'[s].at = st.at /\ sweep'[s].ready = st.ready /\ UNCHANGED collections
        /\ sweep'[s].pc \in {"drop", "ensure"}
        /\ sweep'[s].pc = "drop" => st.pc = "new"
    BY <1>1, <1>6 DEF Start, CreateRow, Go, StoreUnchanged, SweepType
  <2>2. QED
    BY <1>4, <2>1 DEF Undisturbed
<1>7. CASE Drop(s)
  <2>1. /\ sweep'[s].at = st.at /\ sweep'[s].ready = st.ready /\ st.pc = "drop"
        /\ sweep'[s].pc \in {"search", "create"}
    BY <1>1, <1>7 DEF Drop, Go, SweepType
  <2>2. QED
    BY <1>4, <2>1 DEF Undisturbed
<1>8. CASE Ensure(s) \/ Make(s)
  <2>1. /\ sweep'[s].at = st.at
        /\ \/ /\ sweep'[s].pc = "upsert" /\ Target(st.at) \in collections'
              /\ sweep'[s].ready \subseteq collections'
           \/ /\ sweep'[s].pc = "make" /\ Target(st.at) \notin collections'
              /\ sweep'[s].ready \subseteq collections'
    BY <1>1, <1>8 DEF Ensure, Make, Go, StoreUnchanged, SweepType, Undisturbed
  <2>2. QED
    BY <1>4, <2>1 DEF Undisturbed
<1>9. CASE Upsert(s) \/ Finish(s) \/ Search(s)
  <2>1. /\ sweep'[s].at = st.at /\ sweep'[s].ready = st.ready /\ UNCHANGED collections
        /\ sweep'[s].pc \in {"finish", "search", "create"}
    BY <1>1, <1>9 DEF Upsert, Finish, NextFile, Search, Go, StoreUnchanged, SweepType, Undisturbed
  <2>2. QED
    BY <1>4, <2>1 DEF Undisturbed
<1>10. CASE IngestRaises(s)
  <2>1. /\ sweep'[s].at = st.at /\ sweep'[s].ready = st.ready /\ UNCHANGED collections
        /\ sweep'[s].pc = "failing" /\ st.pc # "failing" /\ faults' = faults + 1
    BY <1>1, <1>10 DEF IngestRaises, Go, Fault, StoreUnchanged, SweepType
  <2>2. QED
    BY <1>4, <2>1 DEF Undisturbed
<1>11. CASE Insert(s)
  <2>1. \E r \in results' : r.by = s /\ r.at = st.at
    <3> DEFINE row == [by |-> s, at |-> st.at]
    <3>1. row \in results' /\ row.by = s /\ row.at = st.at
      BY <1>11 DEF Insert
    <3>2. QED
      BY <3>1
  <2>2. QED
    BY <1>5, <1>11, <2>1 DEF Insert
<1>12. CASE Fail(s)
  BY <1>5, <1>12 DEF Fail, Skip
<1>13. CASE VariantRaises(s)
  BY <1>5, <1>13 DEF VariantRaises, Skip, Fault
<1>14. CASE InsertRaises(s) \/ Kill(s)
  BY <1>1, <1>14 DEF InsertRaises, Kill, End, Fresh
<1>15. QED
  BY <1>6, <1>7, <1>8, <1>9, <1>10, <1>11, <1>12, <1>13, <1>14 DEF SweepStep

LEMMA BlamedSweep ==
  ASSUME Typed, Alone, Blamed, NEW s \in Sweeps, SweepStep(s)
  PROVE  Blamed'
<1>1. beside \subseteq beside' /\ sweep \in [Sweeps -> SweepType]
  BY DEF SweepStep, Start, Drop, CreateRow, Ensure, Make, Upsert, Finish, Search, Insert,
         IngestRaises, Fail, VariantRaises, InsertRaises, Kill, Typed, TypeOK
<1>2. s \in Active \/ (Start(s) /\ (Active = {} \/ Active \cup {s} \subseteq beside'))
  BY SweepMoves
  DEF Active, SweepStep, Start, Drop, CreateRow, Ensure, Make, Upsert, Finish, Search, Insert,
      IngestRaises, Fail, VariantRaises, InsertRaises, Kill
<1>3. ASSUME NEW t \in Sweeps \ beside', sweep'[t].pc # "gone"
      PROVE  Caused(t)' /\ Undisturbed(t)'
  <2>1. CASE t = s
    <3>1. Caused(s) /\ Undisturbed(s)
      BY <1>1, <2>1, SweepMoves DEF Blamed
    <3>2. QED
      BY <1>3, <2>1, <3>1, BlamedOwn
  <2>2. CASE t # s
    <3>1. sweep'[t] = sweep[t] /\ Caused(t) /\ Undisturbed(t) /\ sweep[t] \in SweepType
      BY <1>1, <1>3, <2>2, SweepMoves DEF Blamed
    <3>2. t \notin Active
      BY <1>1, <1>2, <1>3, <2>2 DEF Alone, OnlyOne
    <3>3. sweep[t].pc \in {"new", "returned"}
      BY <1>3, <3>1, <3>2 DEF Active
    <3>4. Undisturbed(t)'
      BY <3>1, <3>3 DEF Undisturbed
    <3>5. Passed(sweep[t]) \in Nat
      BY <3>1, LastPositive DEF Passed, SweepType, Variants
    <3>6. Cardinality(Missed(results', t, Passed(sweep[t])))
            <= Cardinality(Missed(results, t, Passed(sweep[t])))
      BY <3>5, CausesStay, MissedGrows
    <3>7. /\ Cardinality(Missed(results', t, Passed(sweep[t]))) \in Nat
          /\ Cardinality(Missed(results, t, Passed(sweep[t]))) \in Nat
      BY <3>5, MissedCounted
    <3>8. Cardinality(Missed(results', t, Passed(sweep[t]))) + Pending(sweep[t].pc) <= faults'
      BY <3>1, <3>3, <3>6, <3>7, CausesStay DEF Caused, Pending
    <3>9. QED
      BY <3>1, <3>4, <3>8 DEF Caused
  <2>3. QED
    BY <2>1, <2>2
<1>4. QED
  BY <1>3 DEF Blamed

LEMMA BlamedStep == Typed /\ Alone /\ Blamed /\ [Next]_vars => Blamed'
<1> SUFFICES ASSUME Typed, Alone, Blamed, [Next]_vars PROVE Blamed'
  OBVIOUS
<1>1. CASE \E s \in Sweeps : SweepStep(s)
  BY <1>1, BlamedSweep
<1>2. CASE (\E m \in ServiceModes, file \in Files : Upload(m, file)) \/ BenchmarkCombo
  <2>1. UNCHANGED <<sweep, results, beside>>
    BY <1>2, OthersWrite
  <2>2. faults \in Nat /\ faults' \in Nat /\ faults <= faults'
    BY <1>2, MatrixAssumption
    DEF Upload, BenchmarkCombo, Ingest, Fault, Typed, TypeOK
  <2>3. \E n \in Names : n.suffix = 0 /\ (collections' = collections \cup {n} \/ UNCHANGED collections)
    <3>1. ASSUME NEW m \in ServiceModes, NEW file \in Files, Upload(m, file)
          PROVE  collections' = collections \cup {UploadName(m)} \/ UNCHANGED collections
      BY <3>1 DEF Upload, Ingest, StoreUnchanged
    <3>2. ASSUME BenchmarkCombo
          PROVE  /\ benchmark + 1 \in DOMAIN Combos
                 /\ collections' = collections \cup {BenchmarkName(benchmark + 1)}
                    \/ UNCHANGED collections
      BY <3>2 DEF BenchmarkCombo, Ingest, StoreUnchanged
    <3>3. QED
      BY <1>2, <3>1, <3>2, NamesHold
  <2>4. ASSUME NEW s \in Sweeps, Caused(s), Undisturbed(s)
        PROVE  Caused(s)' /\ Undisturbed(s)'
    <3>1. sweep[s].at \in Variants /\ Passed(sweep[s]) \in Nat
      BY LastPositive DEF Typed, TypeOK, SweepType, Variants, Passed
    <3>2. Target(sweep[s].at).suffix # 0
      BY <3>1, NamesHold, SuffixPositive
    <3>3. Undisturbed(s)'
      BY <2>1, <2>3, <2>4, <3>2 DEF Undisturbed
    <3>4. Cardinality(Missed(results, s, Passed(sweep[s]))) \in Nat
      BY <3>1, MissedCounted
    <3>5. Cardinality(Missed(results, s, Passed(sweep[s]))) + Pending(sweep[s].pc) <= faults'
      BY <2>2, <2>4, <3>4 DEF Caused, Pending
    <3>6. QED
      BY <2>1, <3>3, <3>5 DEF Caused
  <2>5. QED
    BY <2>1, <2>4 DEF Blamed
<1>3. CASE UNCHANGED vars
  BY <1>3 DEF vars, Blamed, Caused, Undisturbed
<1>4. QED
  BY <1>1, <1>2, <1>3 DEF Next

\* One mode that fails does not abort the sweep: a sweep that returns without another beside
\* it has skipped no more variants than calls have raised, for any matrix and any faults.
THEOREM NoneSkippedForNothing == Spec => []SkippedHasCause
<1>1. Init => Alone /\ Blamed
  <2> SUFFICES ASSUME Init PROVE Alone /\ Blamed
    OBVIOUS
  <2>1. Alone
    BY DEF Init, Alone, OnlyOne, Active, Own, HasOwn, Storing, Fresh
  <2>2. \A s \in Sweeps : Missed(results, s, Passed(sweep[s])) = {}
    BY DEF Init, Missed, Passed, Fresh
  <2>3. Blamed
    BY <2>2, FS_EmptySet DEF Init, Blamed, Caused, Undisturbed, Pending, Fresh
  <2>4. QED
    BY <2>1, <2>3
<1>2. Typed /\ Blamed => SkippedHasCause
  <2> SUFFICES ASSUME Typed, Blamed, NEW s \in Sweeps \ beside, sweep[s].pc = "returned"
               PROVE  Cardinality(Missed(results, s, LastVariant)) <= faults
    BY DEF SkippedHasCause, Missed, Variants
  <2>1. Cardinality(Missed(results, s, LastVariant)) + 0 <= faults
    BY DEF Blamed, Caused, Passed, Pending
  <2>2. Cardinality(Missed(results, s, LastVariant)) \in Nat
    BY LastPositive, MissedCounted
  <2>3. QED
    BY <2>1, <2>2
<1>3. QED
  BY <1>1, <1>2, InitTyped, StepTyped, AloneStep, BlamedStep, PTL DEF Spec
=============================================================================
