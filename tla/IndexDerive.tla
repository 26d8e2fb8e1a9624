---------------------------- MODULE IndexDerive -----------------------------
(***************************************************************************)
(* index/derive.py: the two derivations that narrow a candidate before it  *)
(* is promoted.  derive_public_only takes the mixed candidate and keeps    *)
(* its PUBLIC chunks; derive_published_subset takes that and keeps the     *)
(* documents whose route is in a sitemap.  Both work in a directory whose  *)
(* name is fixed by the build id and rename it into place.                 *)
(*                                                                         *)
(* Data abstraction.  An artifact is the set of the documents whose rows   *)
(* it holds: the order of rows is that of the source.  The rmtree of a     *)
(* partial directory is one step.                                          *)
(***************************************************************************)
EXTENDS Naturals, FiniteSets

CONSTANTS
  Docs,         \* the documents of the mixed candidate
  Public,       \* those classified PUBLIC
  Routes,       \* the routes of the docs site
  Route,        \* document -> its route or None
  Sitemaps,     \* the sitemaps a derivation may be run against
  Mixed,        \* the mixed candidates there may be to start from
  Derivers,     \* the processes that derive, one after another or at once
  MaxRuns,      \* bound on the number of derivations started
  None          \* absent directory, file, manifest or route

Kinds == {"public", "published"}
Paths == {"mixed"} \cup Kinds         \* a derivation is named after its result

Source(kind) == IF kind = "public" THEN "mixed" ELSE "public"

Files     == (SUBSET Docs) \cup {None}

(* visibility_counts: how many rows are PUBLIC, and how many are not. *)
CountsOf(rows, rest) == [public |-> Cardinality(rows), other |-> Cardinality(rest)]

Manifests == [clean : BOOLEAN, publicOnly : BOOLEAN, idx : Files, meta : Files,
              counts : {CountsOf(rows, rest) : rows, rest \in SUBSET Docs},
              sitemap : Sitemaps \cup {None}]
Dirs      == [idx : Files, meta : Files, man : Manifests \cup {None}]

ASSUME NoneAssumption == None \notin Dirs /\ None \notin Manifests /\ \A rows \in SUBSET Docs : rows # None
ASSUME DocsAssumption == Public \subseteq Docs /\ Route \in [Docs -> Routes \cup {None}] /\ None \notin Routes
ASSUME SitemapAssumption == Sitemaps \subseteq (SUBSET Routes) \ {{}}
ASSUME MixedAssumption == Mixed \subseteq Dirs
ASSUME RunsAssumption == MaxRuns \in Nat

VARIABLES
  dir,      \* path -> candidate directory or None
  tmp,      \* derivation -> its partial directory or None
  job,      \* deriver -> the state of its derivation
  taken,    \* history: the candidates that were promoted
  runs      \* derivations started so far, a bound of the model

vars == <<dir, tmp, job, taken, runs>>

Steps == {"clear", "select", "saveIndex", "saveMeta", "hash", "manifest",
          "validate", "compare", "rename"}
Jobs == [pc : Steps \cup {"idle"}, kind : Kinds \cup {None}, sitemap : Sitemaps \cup {None},
         rows : SUBSET Public, idx : Files, meta : Files]

Idle == [pc |-> "idle", kind |-> None, sitemap |-> None, rows |-> {}, idx |-> None, meta |-> None]
EmptyDir == [idx |-> None, meta |-> None, man |-> None]

Init ==
  /\ \E d \in Mixed : dir = [p \in Paths |-> IF p = "mixed" THEN d ELSE None]
  /\ tmp = [k \in Kinds |-> None]
  /\ job = [d \in Derivers |-> Idle]
  /\ taken = {}
  /\ runs = 0

Goto(d, step) == job' = [job EXCEPT ![d].pc = step]
Finish(d)     == job' = [job EXCEPT ![d] = Idle]
-----------------------------------------------------------------------------
(* Validation and selection *)

(* validate_index_directory, for a manifest that records its hashes and counts. *)
Validates(d, requirePublic) ==
  /\ d # None
  /\ d.man # None /\ d.idx # None /\ d.meta # None
  /\ d.man.clean
  /\ d.man.idx = d.idx /\ d.man.meta = d.meta
  /\ Cardinality(d.idx) = Cardinality(d.meta)
  /\ requirePublic \/ d.man.publicOnly => d.meta \subseteq Public
  /\ d.man.counts = CountsOf(d.meta \cap Public, d.meta \ Public)

(* What build_candidate validated has rows, one per vector (IndexBuild's   *)
(* RowsAligned), and was not derived against a sitemap.                    *)
ASSUME BuiltAssumption ==
  \A d \in Mixed : Validates(d, FALSE) => d.idx = d.meta /\ d.meta # {} /\ d.man.sitemap = None

(* A document without a route is taken for published. *)
Unpublished_FailOpen(rows, sitemap) == {r \in rows : Route[r] \notin sitemap \cup {None}}

(* unpublished_documents: a document without a route is unpublished. *)
Unpublished(rows, sitemap) == {r \in rows : Route[r] \notin sitemap}

(* A PUBLIC-only derivation that already asks for a route. *)
Selection_Routed(j, rows) ==
  IF j.kind = "public" THEN {r \in rows \cap Public : Route[r] # None}
  ELSE rows \ Unpublished(rows, j.sitemap)

(* The rows a derivation keeps: PUBLIC ones, or those of published documents. *)
Selection(j, rows) ==
  IF j.kind = "public" THEN rows \cap Public ELSE rows \ Unpublished(rows, j.sitemap)

-----------------------------------------------------------------------------
(* The steps of a derivation *)

(* The source's validity and policy, and a result that is not there yet. *)
Begin(d, kind, sitemap) ==
  LET src == dir[Source(kind)] IN
  /\ job[d].pc = "idle"
  /\ runs < MaxRuns /\ runs' = runs + 1
  /\ Validates(src, FALSE)
  /\ src.man.publicOnly <=> kind = "published"
  /\ kind = "public" <=> sitemap = None
  /\ dir[kind] = None
  /\ job' = [job EXCEPT ![d] = [Idle EXCEPT !.pc = "clear", !.kind = kind, !.sitemap = sitemap]]
  /\ UNCHANGED <<dir, tmp, taken>>

(* The partial directory of a run that was cut short is removed. *)
ClearTmp(d) ==
  /\ job[d].pc = "clear"
  /\ tmp' = [tmp EXCEPT ![job[d].kind] = None]
  /\ Goto(d, "select")
  /\ UNCHANGED <<dir, taken, runs>>

(* Load the source and keep its rows; nothing left to keep is an error. *)
Select(d) ==
  LET j   == job[d]
      src == dir[Source(j.kind)]
  IN
  /\ j.pc = "select"
  /\ src # None
  /\ Selection(j, src.meta) # {}
  /\ job' = [job EXCEPT ![d].pc = "saveIndex", ![d].rows = Selection(j, src.meta)]
  /\ UNCHANGED <<dir, tmp, taken, runs>>

(* A derivation that builds its result in place. *)
Written_InPlace(kind, file, rows) ==
  LET d == IF dir[kind] = None THEN EmptyDir ELSE dir[kind] IN
  /\ dir' = [dir EXCEPT ![kind] = IF file = "idx" THEN [d EXCEPT !.idx = rows] ELSE [d EXCEPT !.meta = rows]]
  /\ UNCHANGED tmp

(* VectorStore.save makes the directory and writes one file after the other. *)
Written(kind, file, rows) ==
  LET d == IF tmp[kind] = None THEN EmptyDir ELSE tmp[kind] IN
  /\ tmp' = [tmp EXCEPT ![kind] = IF file = "idx" THEN [d EXCEPT !.idx = rows] ELSE [d EXCEPT !.meta = rows]]
  /\ UNCHANGED dir

SaveIndex(d) ==
  /\ job[d].pc = "saveIndex"
  /\ Written(job[d].kind, "idx", job[d].rows)
  /\ Goto(d, "saveMeta")
  /\ UNCHANGED <<taken, runs>>

SaveMeta(d) ==
  /\ job[d].pc = "saveMeta"
  /\ tmp[job[d].kind] # None
  /\ Written(job[d].kind, "meta", job[d].rows)
  /\ Goto(d, "hash")
  /\ UNCHANGED <<taken, runs>>

(* artifact_hashes(tmp_dir), while the manifest is put together. *)
Hash(d) ==
  LET t == tmp[job[d].kind] IN
  /\ job[d].pc = "hash"
  /\ job' = [job EXCEPT ![d].pc = "manifest",
                        ![d].idx = IF t = None THEN None ELSE t.idx,
                        ![d].meta = IF t = None THEN None ELSE t.meta]
  /\ UNCHANGED <<dir, tmp, taken, runs>>

(* write_manifest, which makes the directory when it is gone. *)
WriteManifest(d) ==
  LET j == job[d]
      t == IF tmp[j.kind] = None THEN EmptyDir ELSE tmp[j.kind]
  IN
  /\ j.pc = "manifest"
  /\ tmp' = [tmp EXCEPT ![j.kind] =
       [t EXCEPT !.man = [clean |-> TRUE, publicOnly |-> TRUE, idx |-> j.idx, meta |-> j.meta,
                          counts |-> CountsOf(j.rows, {}), sitemap |-> j.sitemap]]]
  /\ Goto(d, "validate")
  /\ UNCHANGED <<dir, taken, runs>>

(* A failed verification removes the partial directory. *)
Discard(d) == tmp' = [tmp EXCEPT ![job[d].kind] = None] /\ Finish(d)

(* validate_index_directory(tmp_dir, require_public_only=True). *)
Validate(d) ==
  /\ job[d].pc = "validate"
  /\ IF Validates(tmp[job[d].kind], TRUE)
     THEN Goto(d, "compare") /\ UNCHANGED tmp
     ELSE Discard(d)
  /\ UNCHANGED <<dir, taken, runs>>

(* Reload: same vectors, same metadata, nothing unpublished. *)
Compare(d) ==
  LET j == job[d]
      t == tmp[j.kind]
  IN
  /\ j.pc = "compare"
  /\ IF /\ t # None /\ t.idx = j.rows /\ t.meta = j.rows
        /\ j.kind = "published" => Unpublished(t.meta, j.sitemap) = {}
     THEN Goto(d, "rename") /\ UNCHANGED tmp
     ELSE Discard(d)
  /\ UNCHANGED <<dir, taken, runs>>

(* os.replace(tmp_dir, final_dir): onto a directory it fails. *)
Rename(d) ==
  LET k == job[d].kind IN
  /\ job[d].pc = "rename"
  /\ tmp[k] # None /\ dir[k] = None
  /\ dir' = [dir EXCEPT ![k] = tmp[k]]
  /\ tmp' = [tmp EXCEPT ![k] = None]
  /\ Finish(d)
  /\ UNCHANGED <<taken, runs>>

(* A kill, or an error in any step: a source that does not load, no row    *)
(* left, a failing write or rename.  The partial directory stays.          *)
Die(d) ==
  /\ job[d].pc # "idle"
  /\ Finish(d)
  /\ UNCHANGED <<dir, tmp, taken, runs>>

(* promote_index.py takes a PUBLIC-only candidate: it renames one that lies *)
(* under faiss_candidates of its volume, and copies any other.             *)
Promote(p) ==
  /\ Validates(dir[p], TRUE)
  /\ taken' = taken \cup {dir[p]}
  /\ \/ dir' = [dir EXCEPT ![p] = None]
     \/ UNCHANGED dir
  /\ UNCHANGED <<tmp, job, runs>>

Next ==
  \/ \E d \in Derivers :
       \/ \E kind \in Kinds, sitemap \in Sitemaps \cup {None} : Begin(d, kind, sitemap)
       \/ ClearTmp(d) \/ Select(d)
       \/ SaveIndex(d) \/ SaveMeta(d) \/ Hash(d) \/ WriteManifest(d)
       \/ Validate(d) \/ Compare(d) \/ Rename(d) \/ Die(d)
  \/ \E p \in Paths : Promote(p)

Spec == Init /\ [][Next]_vars
-----------------------------------------------------------------------------
(* Properties *)

(* The values the variables range over. *)
TypeOK ==
  /\ dir \in [Paths -> Dirs \cup {None}]
  /\ tmp \in [Kinds -> Dirs \cup {None}]
  /\ job \in [Derivers -> Jobs]
  /\ taken \subseteq Dirs
  /\ runs \in 0..MaxRuns

(* The vectors and the metadata are of the same rows, every row is PUBLIC  *)
(* and, when a sitemap was asked about, its document is on the site.       *)
Verified(d) ==
  /\ d.idx = d.meta
  /\ d.meta # {}
  /\ d.meta \subseteq Public
  /\ d.man.sitemap # None => \A r \in d.meta : Route[r] \in d.man.sitemap

(* "Verify before it can be used: full contract, PUBLIC-only, bit-exact    *)
(* vectors, and nothing unpublished left": a derived candidate that        *)
(* validates, in place or already promoted, is what its run verified.      *)
VerifiedBeforeUse ==
  \A d \in {dir[k] : k \in Kinds} \cup taken :
    Validates(d, TRUE) => Verified(d)

(* "An atomic rename": whatever is at the name of a derived candidate is   *)
(* whole, through deaths between any two writes and reruns over what they  *)
(* left.                                                                   *)
DerivedIsWhole ==
  \A k \in Kinds : dir[k] # None => Validates(dir[k], TRUE)

(* Narrowing loses nothing it should keep: a candidate derived for a       *)
(* sitemap holds every PUBLIC document of the mixed candidate that is in   *)
(* the sitemap, through both derivations.                                  *)
NothingPublishedIsLost ==
  \A d \in {dir["published"]} \cup taken :
    d # None /\ Validates(d, TRUE) /\ dir["mixed"] # None =>
      {r \in dir["mixed"].meta \cap Public :
         d.man.sitemap = None \/ Route[r] \in d.man.sitemap} \subseteq d.meta
=============================================================================
