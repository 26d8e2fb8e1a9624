----------------------------- MODULE IndexBuild -----------------------------
(***************************************************************************)
(* scripts/build_trusted_index.py: build_candidate turns the documents of  *)
(* the configured repositories into a candidate index under the staging    *)
(* root.  Nothing locks the staging root and nothing is written until the  *)
(* embedding, which takes minutes to hours, has finished.                  *)
(*                                                                         *)
(* Data abstraction.  A document is one chunk; a chunk also stands for its *)
(* vector and its chunk_id.  A file of a candidate is the sequence of the  *)
(* chunks in it, so that index.faiss and metadata.pkl can disagree.        *)
(***************************************************************************)
EXTENDS SequencesExt, Subsequences

CONSTANTS
  Repos,        \* the repositories under the repo base
  Chunks,       \* the chunks discovery selects from them
  Corpus,       \* repository -> its chunks in walking order
  Visibility,   \* chunk -> PUBLIC or INTERNAL
  RepoLists,    \* the repository lists that builds are configured with
  BuildIds,     \* the build ids that builds are run under
  Builders,     \* the processes that build, one after another or at once
  MaxBuilds,    \* bound on the number of builds started
  Torn,         \* a file whose writer died half-way
  None          \* absent directory, file or manifest

Visibilities == {"PUBLIC", "INTERNAL"}
Statuses == {"CLEAN", "EMBEDDING_FAILURES", "INGESTION_FAILURES", "MISSING_REPOSITORIES"}

ASSUME CorpusAssumption == Corpus \in [Repos -> Seq(Chunks)]
ASSUME ListAssumption == RepoLists \subseteq Seq(Repos)
ASSUME VisibilityAssumption == Visibility \in [Chunks -> Visibilities]
ASSUME BuildBoundAssumption == MaxBuilds \in Nat
ASSUME NoneAssumption == None \notin BuildIds

VARIABLES
  dir,      \* build id -> candidate directory or None
  job,      \* builder -> the state of its build
  builds,   \* builds started so far, a bound of the model
  contended \* history: build id -> the repository lists of the builds that ran at once under it

vars == <<dir, job, builds, contended>>

Files == Seq(Chunks) \cup {Torn, None}

Manifests ==
  [status : Statuses,                                  \* build_status
   repos  : RepoLists,                                 \* configured_for_ingestion
   counts : [Visibilities -> Nat],                     \* visibility_counts
   hash   : [idx : Files, meta : Files]]               \* artifact_hashes

Dirs == [idx : Files, meta : Files, man : Manifests \cup {None}]

\* What is absent or torn is none of the things that can be there.
ASSUME AbsentAssumption ==
  None \notin Dirs \cup Manifests /\ {None, Torn} \cap Seq(Chunks) = {}

Jobs ==
  [pc       : {"idle", "discover", "retry", "mkdir", "saveIndex", "saveMeta",
               "hash", "manifest", "validate", "rehash", "remanifest"},
   id       : BuildIds \cup {None},
   repos    : RepoLists \cup {None},
   next     : Nat,                     \* the place in repos that discovery has come to
   missing  : BOOLEAN,                 \* a configured repository is not there
   failures : BOOLEAN,                 \* a document could not be read
   metadata : Seq(Chunks),             \* everything discovered and chunked
   vectors  : Seq(Chunks),             \* the vectors of ...
   indexed  : Seq(Chunks),             \* ... the chunks embedded so far
   failed   : SUBSET Chunks,           \* ... and not embedded
   hash     : [idx : Files, meta : Files]]

NoHash == [idx |-> None, meta |-> None]
Idle == [pc |-> "idle", id |-> None, repos |-> None, next |-> 1,
         missing |-> FALSE, failures |-> FALSE, metadata |-> <<>>, vectors |-> <<>>, indexed |-> <<>>,
         failed |-> {}, hash |-> NoHash]

Init ==
  /\ dir = [i \in BuildIds |-> None]
  /\ job = [b \in Builders |-> Idle]
  /\ builds = 0
  /\ contended = [i \in BuildIds |-> {}]

Goto(b, step) == job' = [job EXCEPT ![b].pc = step]
Finish(b)     == job' = [job EXCEPT ![b] = Idle]
-----------------------------------------------------------------------------
(* Discovery *)

(* No check that the candidate directory is new. *)
MayStart_Always(id) == TRUE

(* out_dir.exists() refuses a build id that has been used. *)
MayStart(id) == dir[id] = None

Start(b, id, list) ==
  /\ job[b].pc = "idle"
  /\ builds < MaxBuilds
  /\ MayStart(id)
  /\ builds' = builds + 1
  /\ LET others == {other \in Builders : job[other].id = id} IN
     contended' = [contended EXCEPT ![id] =
       IF others = {} THEN @ ELSE @ \cup {list} \cup {job[other].repos : other \in others}]
  /\ job' = [job EXCEPT ![b] = [Idle EXCEPT !.pc = "discover", !.id = id, !.repos = list]]
  /\ UNCHANGED dir

Keep(s, S) == Chosen(s, {i \in DOMAIN s : s[i] \in S})
Drop(s, S) == Chosen(s, {i \in DOMAIN s : s[i] \notin S})

(* discover_documents takes the repositories in the order of the list: one *)
(* that is not checked out is reported and skipped,                        *)
SkipRepository(b) ==
  /\ job[b].pc = "discover"
  /\ job[b].next <= Len(job[b].repos)
  /\ job' = [job EXCEPT ![b].missing = TRUE, ![b].next = @ + 1]
  /\ UNCHANGED <<dir, builds, contended>>

(* and of another those documents are read and chunked that open.          *)
ReadRepository(b, unreadable) ==
  LET j == job[b]
      found == Corpus[j.repos[j.next]]
  IN
  /\ j.pc = "discover"
  /\ j.next <= Len(j.repos)
  /\ unreadable \subseteq ToSet(found)
  /\ job' = [job EXCEPT ![b] =
       [j EXCEPT !.next = j.next + 1,
                 !.failures = j.failures \/ unreadable # {},
                 !.metadata = j.metadata \o Drop(found, unreadable)]]
  /\ UNCHANGED <<dir, builds, contended>>
-----------------------------------------------------------------------------
(* Embedding *)

(* A repeated chunk_id is embedded once, at its first place. *)
Deduped(s) == Distinct(s)

(* First pass: the chunks in F exhaust their attempts or come back with a  *)
(* wrong dimension.                                                        *)
EmbedPass(b, F) ==
  LET j == job[b] IN
  /\ j.pc = "discover"
  /\ j.next > Len(j.repos)
  /\ F \subseteq ToSet(j.metadata)
  /\ LET ok == Drop(Deduped(j.metadata), F) IN
     job' = [job EXCEPT ![b] =
       [j EXCEPT !.pc = IF F # {} THEN "retry" ELSE "mkdir",
                 !.vectors = ok, !.indexed = ok, !.failed = F]]
  /\ UNCHANGED <<dir, builds, contended>>

(* A second pass that forgets to add to the vectors what it recovered. *)
WithRecovered_MetadataFirst(s, t) == t \o s

(* What the second pass recovers is appended to both lists. *)
WithRecovered(s, t) == s \o t

(* The failures of the first pass stay on the list. *)
FinalFailures_Cumulative(first, second) == first

(* Only what fails again is final. *)
FinalFailures(first, second) == second

(* Second chance: only the failed subset, once; F fail again. *)
SecondChance(b, F) ==
  LET j == job[b]
      recovered == Drop(Keep(Deduped(j.metadata), j.failed), F)
  IN
  /\ j.pc = "retry"
  /\ F \subseteq j.failed
  /\ job' = [job EXCEPT ![b] =
       [j EXCEPT !.pc = "mkdir",
                 !.failed = FinalFailures(j.failed, F),
                 !.vectors = j.vectors \o recovered,
                 !.indexed = WithRecovered(j.indexed, recovered)]]
  /\ UNCHANGED <<dir, builds, contended>>
-----------------------------------------------------------------------------
(* Writing the candidate *)

(* "no vectors generated; candidate index not written", or VectorStore.save's makedirs. *)
MakeDir(b) ==
  LET j == job[b] IN
  /\ j.pc = "mkdir"
  /\ IF j.vectors = <<>>
     THEN Finish(b) /\ UNCHANGED dir
     ELSE /\ Goto(b, "saveIndex")
          /\ dir' = IF dir[j.id] # None THEN dir
                    ELSE [dir EXCEPT ![j.id] = [idx |-> None, meta |-> None, man |-> None]]
  /\ UNCHANGED <<builds, contended>>

SaveIndex(b) ==
  /\ job[b].pc = "saveIndex"
  /\ dir' = [dir EXCEPT ![job[b].id].idx = job[b].vectors]
  /\ Goto(b, "saveMeta")
  /\ UNCHANGED <<builds, contended>>

SaveMeta(b) ==
  /\ job[b].pc = "saveMeta"
  /\ dir' = [dir EXCEPT ![job[b].id].meta = job[b].indexed]
  /\ Goto(b, "hash")
  /\ UNCHANGED <<builds, contended>>

HashOf(d) == [idx |-> d.idx, meta |-> d.meta]

(* artifact_hashes(out_dir), for the first manifest and again for the last. *)
Hash(b) ==
  LET j == job[b] IN
  /\ j.pc \in {"hash", "rehash"}
  /\ job' = [job EXCEPT ![b].pc = IF j.pc = "hash" THEN "manifest" ELSE "remanifest",
                        ![b].hash = HashOf(dir[j.id])]
  /\ UNCHANGED <<dir, builds, contended>>

(* Any failure keeps a candidate from being CLEAN. *)
StatusOf(j) ==
  IF j.failed # {} THEN "EMBEDDING_FAILURES"
  ELSE IF j.failures THEN "INGESTION_FAILURES"
  ELSE IF j.missing THEN "MISSING_REPOSITORIES"
  ELSE "CLEAN"

Counts(s) == [v \in Visibilities |-> Cardinality({n \in DOMAIN s : Visibility[s[n]] = v})]

(* build_manifest counts the metadata before it is deduplicated and embedded. *)
DeclaredCounts(j) == Counts(j.metadata)

ManifestOf(j) ==
  [status |-> StatusOf(j), repos |-> j.repos, counts |-> DeclaredCounts(j), hash |-> j.hash]

(* write_manifest is atomic; the first one is followed by validation. *)
WriteManifest(b) ==
  LET j == job[b] IN
  /\ j.pc \in {"manifest", "remanifest"}
  /\ dir' = [dir EXCEPT ![j.id].man = ManifestOf(j)]
  /\ IF j.pc = "manifest" THEN Goto(b, "validate") ELSE Finish(b)
  /\ UNCHANGED <<builds, contended>>

(* A gate that trusts the hashes and does not recount. *)
Consistent_NoRecount(d) ==
  /\ d.man.status = "CLEAN"
  /\ d.man.hash = HashOf(d)
  /\ Len(d.idx) = Len(d.meta)

(* validate_index_directory's comparisons of the artifacts with the manifest. *)
Consistent(d) ==
  /\ d.man.status = "CLEAN"
  /\ d.man.hash = HashOf(d)
  /\ Len(d.idx) = Len(d.meta)
  /\ d.man.counts = Counts(d.meta)

Validates(d) ==
  /\ d # None
  /\ d.man # None
  /\ {d.idx, d.meta} \cap {None, Torn} = {}
  /\ Consistent(d)

(* "candidate integrity failed" leaves the directory as it is. *)
Validate(b) ==
  /\ job[b].pc = "validate"
  /\ IF Validates(dir[job[b].id]) THEN Goto(b, "rehash") ELSE Finish(b)
  /\ UNCHANGED <<dir, builds, contended>>
-----------------------------------------------------------------------------
(* A kill, or an error in any step: nothing is cleaned up. *)
Die(b) ==
  /\ job[b].pc # "idle"
  /\ Finish(b)
  /\ UNCHANGED <<dir, builds, contended>>

(* ... and in the middle of writing an artifact. *)
DieWriting(b) ==
  LET j == job[b] IN
  /\ \/ j.pc = "saveIndex" /\ dir' = [dir EXCEPT ![j.id].idx = Torn]
     \/ j.pc = "saveMeta"  /\ dir' = [dir EXCEPT ![j.id].meta = Torn]
  /\ Finish(b)
  /\ UNCHANGED <<builds, contended>>

Next ==
  \E b \in Builders :
    \/ \E id \in BuildIds, list \in RepoLists : Start(b, id, list)
    \/ SkipRepository(b)
    \/ \E unreadable \in SUBSET Chunks : ReadRepository(b, unreadable)
    \/ \E F \in SUBSET Chunks : EmbedPass(b, F) \/ SecondChance(b, F)
    \/ MakeDir(b) \/ SaveIndex(b) \/ SaveMeta(b)
    \/ Hash(b) \/ WriteManifest(b) \/ Validate(b)
    \/ Die(b) \/ DieWriting(b)

Spec == Init /\ [][Next]_vars
-----------------------------------------------------------------------------
(* Properties *)

(* The values the variables range over. *)
TypeOK ==
  /\ dir \in [BuildIds -> Dirs \cup {None}]
  /\ job \in [Builders -> Jobs]
  /\ builds \in 0..MaxBuilds
  /\ contended \in [BuildIds -> SUBSET RepoLists]

(* Every chunk discovered is embedded once or on the list of failures that  *)
(* decides the build's status, never both and never neither, through the   *)
(* deduplication and both passes.                                          *)
EmbeddingAccounted ==
  \A b \in Builders :
    LET j == job[b] IN
    j.pc \notin {"idle", "discover"} =>
      /\ ToSet(j.indexed) \cup j.failed = ToSet(j.metadata)
      /\ ToSet(j.indexed) \cap j.failed = {}
      /\ Len(j.indexed) = Cardinality(ToSet(j.indexed))

Wanted(list) == UNION {ToSet(Corpus[r]) : r \in ToSet(list)}

(* "A candidate with ANY unresolved embedding failure is never CLEAN": a   *)
(* candidate that validates holds every chunk of every repository it was   *)
(* configured with, and nothing else, whatever failed or died, and also if *)
(* builds with the same repository list ran at once under one build id     *)
(* (with different lists their counts can agree by accident).              *)
PromotableIsComplete ==
  \A i \in BuildIds : Validates(dir[i]) /\ (\A l, m \in contended[i] : l = m) =>
    ToSet(dir[i].meta) = Wanted(dir[i].man.repos)

(* Row n of index.faiss is the vector of row n of metadata.pkl, also when  *)
(* the second chance recovered some chunks out of their place, for every   *)
(* build id that one build at a time was run under.                        *)
RowsAligned ==
  \A i \in BuildIds :
    Validates(dir[i]) /\ contended[i] = {} => dir[i].idx = dir[i].meta

(* What once validated keeps its artifacts: no later build, under the same *)
(* or another id, writes into it again.                                    *)
ValidatedIsFrozen ==
  [][\A i \in BuildIds :
       Validates(dir[i]) /\ contended[i] = {} => HashOf(dir'[i]) = HashOf(dir[i]) /\ Validates(dir'[i])]_vars

(* A build that found every repository, read every document and embedded   *)
(* every chunk is not refused by its own validation.                       *)
CompleteBuildIsAccepted ==
  \A b \in Builders :
    job[b].pc = "validate" /\ StatusOf(job[b]) = "CLEAN" => Validates(dir[job[b].id])
=============================================================================
