------------------------------ MODULE EvalSweep ------------------------------
(***************************************************************************)
(* Who shares the collections of one Milvus server, and by which names:    *)
(* the evaluation sweeps of benchmark/eval.py, which drop, ingest into and *)
(* search a collection for each combination and retrieval mode; the        *)
(* benchmark of benchmark/runner.py; and the service, whose uploads are    *)
(* ingested into the collections that POST /query reads.                   *)
(*                                                                         *)
(* POST /eval/run is a plain function, run in a thread of its own for each *)
(* request, and the same sweep is also a command line: sweeps overlap with *)
(* each other and with everything else.  Each element of Sweeps is one     *)
(* execution.  A row of `documents` is named by who created it, for which  *)
(* variant and from which file; a collection's content is the set of rows  *)
(* whose vectors it holds.                                                 *)
(***************************************************************************)
EXTENDS Naturals, Sequences, FiniteSets

CONSTANTS
  Sweeps,        \* executions of run_eval()
  Combos,        \* the benchmark matrix: a sequence of [llm, model, dim, context]
  Modes,         \* retrieval modes that a sweep scores, in order
  Reranks,       \* <<FALSE>>, or <<FALSE, TRUE>> with a real reranker
  Docs,          \* number of files of the gold corpus
  Queries,       \* number of gold queries
  ProviderDim,   \* the dimension of the vectors that a model's provider returns
  QueryModel,    \* settings.embedding_model as it is configured
  ServiceModel,  \* the same with its provider, as normalize_model() completes it
  DenseDim,      \* settings.dense_dim
  Hybrid,        \* settings.retrieval_mode = "hybrid"
  ServiceModes,  \* context modes of the uploads
  MaxFaults      \* bound: calls that raise

NoDim == 0       \* embedding_dim is None

LastVariant == Len(Combos) * (Len(Modes) * Len(Reranks))
Variants    == 1 .. LastVariant

ASSUME MatrixAssumption ==
  /\ Combos \in Seq([llm : BOOLEAN, model : DOMAIN ProviderDim, dim : Nat, context : STRING])
  /\ Modes \in Seq({"dense", "hybrid"}) /\ Reranks \in Seq(BOOLEAN)
  /\ Len(Combos) > 0 /\ Len(Modes) > 0 /\ Len(Reranks) > 0
  /\ ServiceModel \in DOMAIN ProviderDim
  /\ Docs \in Nat /\ Queries \in Nat /\ MaxFaults \in Nat /\ Hybrid \in BOOLEAN
\* Uploads are told apart from sweeps and benchmark by their context modes.
ASSUME NamesAssumption == Sweeps \cap (ServiceModes \cup {"benchmark"}) = {}
                          /\ "benchmark" \notin ServiceModes

VARIABLES
  status,       \* documents.status, of the rows that exist
  collections,  \* collections on the server
  vectors,      \* what they hold
  sweep,        \* each sweep: where it is, its variant and file, what its searches saw
  results,      \* rows of eval_runs: the variants scored
  benchmark,    \* combinations that the benchmark has run
  beside,       \* history: sweeps that ran while another did
  faults        \* calls that have raised so far

vars == <<status, collections, vectors, sweep, results, benchmark, beside, faults>>

--------------------------------------------------------------------------------
(* Names.                                                                      *)

\* The combination, retrieval mode and reranking of a variant, in the order of the loops.
ComboOf(v)    == Combos[(v - 1) \div (Len(Modes) * Len(Reranks)) + 1]
ComboIndex(v) == (v - 1) \div (Len(Modes) * Len(Reranks)) + 1
HybridOf(v)   == Modes[(((v - 1) \div Len(Reranks)) % Len(Modes)) + 1] = "hybrid"

\* Mutations: no suffix; one suffix for all combinations.
NoSuffix(v)   == 0
SameSuffix(v) == 1
\* `_eval_{i}` of a variant; 0 is no suffix.
Suffix(v) == ComboIndex(v)

ContextMode(c) == IF c.llm THEN c.context ELSE "none"

CollectionFor(model, dim, context, hybrid, suffix) ==
  [model |-> model, dim |-> dim, context |-> context, hybrid |-> hybrid, suffix |-> suffix]

\* The name that a sweep drops, from the dimension the combination declares, and the one it
\* ingests into and searches, from the dimension of the vectors.
Expected(v) == LET c == ComboOf(v)
               IN  CollectionFor(c.model, IF c.dim = NoDim THEN DenseDim ELSE c.dim,
                                 ContextMode(c), HybridOf(v), Suffix(v))
Target(v)   == LET c == ComboOf(v)
               IN  CollectionFor(c.model, ProviderDim[c.model], ContextMode(c),
                                 HybridOf(v), Suffix(v))

BenchmarkName(i) == CollectionFor(Combos[i].model, ProviderDim[Combos[i].model],
                                  ContextMode(Combos[i]), FALSE, 0)
UploadName(m)    == CollectionFor(ServiceModel, ProviderDim[ServiceModel], m, Hybrid, 0)

\* A request may ask for either retrieval mode.
QueryName(m, hybrid) == CollectionFor(QueryModel, DenseDim, m, hybrid, 0)

Names == {Expected(v) : v \in Variants} \cup {Target(v) : v \in Variants}
         \cup {BenchmarkName(i) : i \in DOMAIN Combos}
         \cup {UploadName(m) : m \in ServiceModes}
         \cup {QueryName(m, h) : m \in ServiceModes, h \in BOOLEAN}

Row(by, v, d) == [by |-> by, at |-> v, doc |-> d]
Corpus(s, v)  == {Row(s, v, d) : d \in 1 .. Docs}
\* Uploads are of a file of the corpus or of another one; so is the benchmark's file.
Files == 0 .. Docs
Rows  == (UNION {Corpus(s, v) : s \in Sweeps, v \in Variants})
         \cup {Row(m, 0, d) : m \in ServiceModes, d \in Files}
         \cup {Row("benchmark", i, 0) : i \in DOMAIN Combos}

Existing == {r \in Rows : status[r] # "absent"}
Active   == {s \in Sweeps : sweep[s].pc \notin {"new", "returned", "gone"}}
Mine(s)  == Row(s, sweep[s].at, sweep[s].doc)

\* A sweep about to score variant v: a store object and lists of its own.
Fresh(pc, v) == [pc |-> pc, at |-> v, doc |-> 1, ready |-> {}, asked |-> 0, saw |-> {}]

Init ==
  /\ status = [r \in Rows |-> "absent"]
  /\ collections = {}
  /\ vectors = [n \in Names |-> {}]
  /\ sweep = [s \in Sweeps |-> Fresh("new", 1)]
  /\ results = {}
  /\ benchmark = 0
  /\ beside = {}
  /\ faults = 0

--------------------------------------------------------------------------------
(* A sweep.                                                                    *)

Go(s, next)    == sweep' = [sweep EXCEPT ![s].pc = next]
End(s, how)    == sweep' = [sweep EXCEPT ![s] = Fresh(how, 1)]
Fault          == faults < MaxFaults /\ faults' = faults + 1
StoreUnchanged == UNCHANGED <<collections, vectors>>

Start(s) ==
  /\ sweep[s].pc = "new"
  /\ Go(s, "drop")
  /\ beside' = IF Active = {} THEN beside ELSE beside \cup Active \cup {s}
  /\ StoreUnchanged /\ UNCHANGED <<status, results, benchmark, faults>>

\* The next variant, or the end of the loops.
Advance(s) ==
  IF sweep[s].at = LastVariant
    THEN End(s, "returned")
    ELSE sweep' = [sweep EXCEPT ![s] = Fresh("drop", @.at + 1)]

\* Mutation: only the store object forgets the collection.
DropReady(s) ==
  /\ sweep[s].pc = "drop"
  /\ Go(s, IF Docs = 0 THEN "search" ELSE "create")
  /\ StoreUnchanged /\ UNCHANGED <<status, results, benchmark, beside, faults>>

\* MilvusStore.drop().  The store object is new, so that _ready has nothing to discard.
Drop(s) ==
  /\ sweep[s].pc = "drop"
  /\ collections' = collections \ {Expected(sweep[s].at)}
  /\ vectors' = [vectors EXCEPT ![Expected(sweep[s].at)] = {}]
  /\ Go(s, IF Docs = 0 THEN "search" ELSE "create")
  /\ UNCHANGED <<status, results, benchmark, beside, faults>>

\* ingest() without dedup: the blob and the row.
CreateRow(s) ==
  /\ sweep[s].pc = "create"
  /\ status' = [status EXCEPT ![Mine(s)] = "processing"]
  /\ Go(s, "ensure")
  /\ StoreUnchanged /\ UNCHANGED <<results, benchmark, beside, faults>>

\* ensure_collection(): the fast path, or has_collection.
Ensure(s) ==
  LET n == Target(sweep[s].at) IN
  /\ sweep[s].pc = "ensure"
  /\ IF n \in sweep[s].ready \/ n \in collections
       THEN sweep' = [sweep EXCEPT ![s].pc = "upsert", ![s].ready = @ \cup {n}]
       ELSE Go(s, "make")
  /\ StoreUnchanged /\ UNCHANGED <<status, results, benchmark, beside, faults>>

\* create_collection, which fails if another sweep's store has created it meanwhile.
Make(s) ==
  LET n == Target(sweep[s].at) IN
  /\ sweep[s].pc = "make"
  /\ IF n \in collections
       THEN Go(s, "failing") /\ UNCHANGED collections
       ELSE /\ collections' = collections \cup {n}
            /\ sweep' = [sweep EXCEPT ![s].pc = "upsert", ![s].ready = @ \cup {n}]
  /\ UNCHANGED <<status, vectors, results, benchmark, beside, faults>>

\* The upsert fails if another sweep has dropped the collection.
Upsert(s) ==
  LET n == Target(sweep[s].at) IN
  /\ sweep[s].pc = "upsert"
  /\ IF n \in collections
       THEN vectors' = [vectors EXCEPT ![n] = @ \cup {Mine(s)}] /\ Go(s, "finish")
       ELSE Go(s, "failing") /\ UNCHANGED vectors
  /\ UNCHANGED <<status, collections, results, benchmark, beside, faults>>

\* What follows an ingest: the next file, or the searches.
NextFile(s) ==
  sweep' = IF sweep[s].doc = Docs
           THEN [sweep EXCEPT ![s].pc = "search"]
           ELSE [sweep EXCEPT ![s].pc = "create", ![s].doc = @ + 1]

\* Chunk rows and status 'ready': nobody else reads the chunks of a row that is not ready.
Finish(s) ==
  /\ sweep[s].pc = "finish"
  /\ status' = [status EXCEPT ![Mine(s)] = "ready"]
  /\ NextFile(s)
  /\ StoreUnchanged /\ UNCHANGED <<results, benchmark, beside, faults>>

\* What a search of a collection may be answered from: all it holds if the search asks for
\* strong consistency, as a dense one does.  A hybrid one may miss what was just upserted.
Visible(n) == IF n.hybrid THEN SUBSET vectors[n] ELSE {vectors[n]}

\* Each query searches the collection, which may be missing and then has nothing.
Search(s) ==
  /\ sweep[s].pc = "search"
  /\ sweep[s].asked < Queries
  /\ \E seen \in Visible(Target(sweep[s].at)) :
       sweep' = [sweep EXCEPT ![s].asked = @ + 1, ![s].saw = @ \cup {seen}]
  /\ StoreUnchanged /\ UNCHANGED <<status, results, benchmark, beside, faults>>

Insert(s) ==
  /\ sweep[s].pc = "search"
  /\ sweep[s].asked = Queries
  /\ results' = results \cup {[by |-> s, at |-> sweep[s].at]}
  /\ Advance(s)
  /\ StoreUnchanged /\ UNCHANGED <<status, benchmark, beside, faults>>

\* Mutation: the first variant that fails ends the loops.
SkipRest(s) == End(s, "returned")

\* The except clause of run_eval(): a variant that fails is skipped.
Skip(s) == Advance(s)

\* A call of an ingest raises inside its try block.
IngestRaises(s) ==
  /\ sweep[s].pc \in {"ensure", "make", "upsert", "finish"}
  /\ Fault
  /\ Go(s, "failing")
  /\ StoreUnchanged /\ UNCHANGED <<status, results, benchmark, beside>>

\* Mutation: the status of the ingest is not looked at.
FailUnnoticed(s) ==
  /\ sweep[s].pc = "failing"
  /\ status' = [status EXCEPT ![Mine(s)] = "failed"]
  /\ NextFile(s)
  /\ StoreUnchanged /\ UNCHANGED <<results, benchmark, beside, faults>>

\* ingest() marks the row; _ingest_corpus() raises for it.
Fail(s) ==
  /\ sweep[s].pc = "failing"
  /\ status' = [status EXCEPT ![Mine(s)] = "failed"]
  /\ Skip(s)
  /\ StoreUnchanged /\ UNCHANGED <<results, benchmark, beside, faults>>

\* Calls outside of ingest()'s try block, or in its except clause.
VariantRaises(s) ==
  /\ sweep[s].pc \in {"drop", "create", "failing", "search"}
  /\ Fault
  /\ Skip(s)
  /\ StoreUnchanged /\ UNCHANGED <<status, results, benchmark, beside>>

\* The insert into eval_runs is outside of run_eval()'s try block: the sweep ends.
InsertRaises(s) ==
  /\ sweep[s].pc = "search"
  /\ sweep[s].asked = Queries
  /\ Fault
  /\ End(s, "gone")
  /\ StoreUnchanged /\ UNCHANGED <<status, results, benchmark, beside>>

\* The process of the sweep dies.
Kill(s) ==
  /\ s \in Active
  /\ End(s, "gone")
  /\ StoreUnchanged /\ UNCHANGED <<status, results, benchmark, beside, faults>>

--------------------------------------------------------------------------------
(* The others.                                                                 *)

\* An ingest as the other collections see it: it succeeds, or a call of it raises.
Ingest(r, n) ==
  \/ /\ status' = [status EXCEPT ![r] = "ready"]
     /\ collections' = collections \cup {n}
     /\ vectors' = [vectors EXCEPT ![n] = @ \cup {r}]
     /\ UNCHANGED faults
  \/ Fault /\ status' = [status EXCEPT ![r] = "failed"] /\ StoreUnchanged

\* An upload, from its dedup to its end, as BulkIngest has it in detail: a duplicate of any
\* row of the same bytes, those of sweeps included, is not ingested; an ingest may fail.
Upload(m, file) ==
  LET r == Row(m, 0, file) IN
  /\ \A d \in Files : status[Row(m, 0, d)] = "absent"
  /\ IF \E x \in Existing : x.doc = file
       THEN status' = [status EXCEPT ![r] = "duplicate"] /\ StoreUnchanged /\ UNCHANGED faults
       ELSE Ingest(r, UploadName(m))
  /\ UNCHANGED <<sweep, results, benchmark, beside>>

\* run_combo(): the next combination of the matrix, ingested without dedup.
BenchmarkCombo ==
  LET i == benchmark + 1
      r == Row("benchmark", i, 0) IN
  /\ i \in DOMAIN Combos
  /\ benchmark' = i
  /\ Ingest(r, BenchmarkName(i))
  /\ UNCHANGED <<sweep, results, beside>>

SweepStep(s) ==
  \/ Start(s) \/ Drop(s) \/ CreateRow(s) \/ Ensure(s) \/ Make(s) \/ Upsert(s) \/ Finish(s)
  \/ Search(s) \/ Insert(s) \/ IngestRaises(s) \/ Fail(s) \/ VariantRaises(s)
  \/ InsertRaises(s) \/ Kill(s)

Next ==
  \/ \E s \in Sweeps : SweepStep(s)
  \/ \E m \in ServiceModes, file \in Files : Upload(m, file)
  \/ BenchmarkCombo

Spec == Init /\ [][Next]_vars

--------------------------------------------------------------------------------
(* Properties.                                                                 *)

Ingesting == {"create", "ensure", "make", "upsert", "finish", "failing"}
SweepType == [pc : Ingesting \cup {"new", "drop", "search", "returned", "gone"},
              at : Variants, doc : Nat, ready : SUBSET Names,
              asked : 0 .. Queries, saw : SUBSET SUBSET Rows]

\* The program counters stay in the loops, and only collections that exist hold anything.
TypeOK ==
  /\ status \in [Rows -> {"absent", "processing", "ready", "failed", "duplicate"}]
  /\ collections \subseteq Names
  /\ vectors \in [Names -> SUBSET Rows]
  /\ \A n \in Names \ collections : vectors[n] = {}
  /\ sweep \in [Sweeps -> SweepType]
  /\ results \subseteq [by : Sweeps, at : Variants]
  /\ benchmark \in 0 .. Len(Combos) /\ beside \subseteq Sweeps /\ faults \in 0 .. MaxFaults

\* The dimension that is dropped is the one the provider delivers.
DimKnown(v) == Expected(v) = Target(v)

\* Idempotent re-runs (eval.py:160): the searches that a variant is scored by were answered
\* from the corpus ingested for it, whatever earlier sweeps, earlier variants, failed attempts
\* and killed ones have left in the collection; from all of it, unless the variant is hybrid,
\* whose searches may lag.  It does not hold of sweeps that overlap, nor of a combination that
\* leaves open a dimension that is not the deployment's.
ScoresOwnCorpus ==
  \A s \in Sweeps \ beside :
    LET v == sweep[s].at IN
    DimKnown(v) =>
      sweep[s].saw \subseteq IF HybridOf(v) THEN SUBSET Corpus(s, v) ELSE {Corpus(s, v)}

\* A variant is scored only if every file of its corpus was ingested (eval.py:139), even
\* when sweeps drop each other's collections.
ScoredDocsReady ==
  \A r \in results : \A x \in Corpus(r.by, r.at) : status[x] = "ready"

\* "isolated collection" (eval.py:4), as far as it holds: with any number of sweeps at once,
\* no collection of theirs mixes two combinations, also if these share model, dimension and
\* context mode as two of the matrix do.
CombosIsolated ==
  \A n \in Names : \A x, y \in vectors[n] :
    (x.by \in Sweeps /\ y.by \in Sweeps) => ComboIndex(x.at) = ComboIndex(y.at)

\* The settings that POST /query names a collection by are what uploads are embedded with.
SettingsAgree == QueryModel = ServiceModel /\ DenseDim = ProviderDim[ServiceModel]

\* What the service has told to be ready stays in its collection, whatever sweeps drop.  A
\* query of its context mode reads that collection if it asks for the retrieval mode of the
\* deployment and the settings agree, and otherwise one that has never had it.
UploadsAreFound ==
  \A m \in ServiceModes, d \in Files :
    LET r == Row(m, 0, d) IN
    status[r] = "ready" =>
      /\ r \in vectors[UploadName(m)]
      /\ \A h \in BOOLEAN : r \in vectors[QueryName(m, h)] <=> (h = Hybrid /\ SettingsAgree)

\* "one mode failing must not abort the whole sweep" (eval.py:254): a sweep that returns has
\* scored every variant but for one at most for each call that raised.
SkippedHasCause ==
  \A s \in Sweeps \ beside :
    sweep[s].pc = "returned" =>
      Cardinality({v \in Variants : \A r \in results : ~(r.by = s /\ r.at = v)}) <= faults

\* Refuted.  "Each combo gets its own document row + Milvus collection so vectors stay
\* isolated" (runner.py:4): no collection holds vectors of two combinations.
BenchmarkIsolated ==
  \A n \in Names : \A x, y \in vectors[n] :
    (x.by = "benchmark" /\ y.by = "benchmark") => x = y
=============================================================================
