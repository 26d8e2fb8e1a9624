------------------------- MODULE IndexDeriveProofs --------------------------
(***************************************************************************)
(* One derivation at a time, killed anywhere and rerun over what it left,  *)
(* yields whole candidates that hold exactly what they should: for any     *)
(* documents, sitemaps, routes and number of runs.  Runs of one build id   *)
(* at once share a partial directory, and derive_sitemaps shows that they  *)
(* break this.                                                             *)
(***************************************************************************)
EXTENDS IndexDerive, TLAPS

\* A candidate is derived by one person who runs the scripts in turn.
OneDeriver == \A d, e \in Derivers : d = e

\* Rows that a derivation for a sitemap (None: for every route) may keep of
\* a mixed candidate: PUBLIC, on the site, and nothing of these left out.
Kept(mixed, rows, sitemap) ==
    /\ rows \in SUBSET Public /\ rows # {}
    /\ sitemap # None => \A r \in rows : Route[r] \in sitemap
    /\ mixed # None =>
           {r \in mixed.meta \cap Public : sitemap = None \/ Route[r] \in sitemap} \subseteq rows

\* What may be in place or promoted.
Whole(mixed, d) ==
    /\ d \in Dirs /\ Validates(d, TRUE) /\ d.idx = d.meta
    /\ Kept(mixed, d.meta, d.man.sitemap)

AfterIndex == {"saveMeta", "hash", "manifest", "validate", "compare", "rename"}
AfterMeta == AfterIndex \ {"saveMeta"}
AfterManifest == {"validate", "compare", "rename"}

ManifestOf(rows, sitemap) ==
    [clean |-> TRUE, publicOnly |-> TRUE, idx |-> rows, meta |-> rows,
     counts |-> CountsOf(rows, {}), sitemap |-> sitemap]

\* How far the partial directory t of derivation j has got.
InStep(mixed, t, j) ==
    /\ j.kind \in Kinds /\ (j.kind = "public" <=> j.sitemap = None)
    /\ j.pc \notin {"clear", "select"} => Kept(mixed, j.rows, j.sitemap)
    /\ j.pc \in AfterIndex => t # None /\ t.idx = j.rows
    /\ j.pc \in AfterMeta => t.meta = j.rows
    /\ j.pc = "manifest" => j.idx = j.rows /\ j.meta = j.rows
    /\ j.pc \in AfterManifest => t.man = ManifestOf(j.rows, j.sitemap)

\* The derivations' part and the directories' part of the invariant.
JobsInStep ==
    \A d \in Derivers : job[d].pc # "idle" => InStep(dir["mixed"], tmp[job[d].kind], job[d])

DirsWhole ==
    /\ dir["mixed"] = None \/ dir["mixed"] \in Mixed
    /\ \A k \in Kinds : dir[k] # None => Whole(dir["mixed"], dir[k])
    /\ dir["public"] # None => dir["public"].man.sitemap = None
    /\ \A d \in taken : Whole(dir["mixed"], d)

IInv == TypeOK /\ JobsInStep /\ DirsWhole
-----------------------------------------------------------------------------
\* The mixed candidate may be renamed into the volume, nothing else.
LEMMA KeptStays ==
    ASSUME NEW mixed, NEW rest \in {mixed, None}, NEW rows, NEW sitemap,
           Kept(mixed, rows, sitemap)
    PROVE  Kept(rest, rows, sitemap)
BY DEF Kept

LEMMA WholeStays ==
    ASSUME NEW mixed, NEW rest \in {mixed, None}, NEW d, Whole(mixed, d)
    PROVE  Whole(rest, d)
BY KeptStays DEF Whole

LEMMA InStepStays ==
    ASSUME NEW mixed, NEW rest \in {mixed, None}, NEW t, NEW j, InStep(mixed, t, j)
    PROVE  InStep(rest, t, j)
BY KeptStays DEF InStep

\* A step of the only derivation that puts nothing into place.
LEMMA Advance ==
    ASSUME OneDeriver, IInv, NEW d \in Derivers, UNCHANGED <<dir, taken>>, TypeOK',
           job'[d].pc # "idle" => InStep(dir["mixed"], tmp'[job'[d].kind], job'[d])
    PROVE  IInv'
<1>1. JobsInStep'
    BY DEF OneDeriver, JobsInStep
<1>2. DirsWhole'
    BY DEF IInv, DirsWhole
<1> QED BY <1>1, <1>2 DEF IInv

\* What the selection keeps of a source that is still there.
LEMMA SelectionKeeps ==
    ASSUME IInv, NEW d \in Derivers, job[d].pc = "select",
           NEW src, src = dir[Source(job[d].kind)], src # None,
           NEW rows, rows = Selection(job[d], src.meta), rows # {}
    PROVE  Kept(dir["mixed"], rows, job[d].sitemap)
<1>1. /\ job[d].kind \in Kinds /\ (job[d].kind = "public" <=> job[d].sitemap = None)
    BY DEF IInv, JobsInStep, InStep
<1>2. CASE job[d].kind = "public"
    <2>1. src = dir["mixed"] /\ rows = src.meta \cap Public /\ job[d].sitemap = None
        BY <1>1, <1>2 DEF Source, Selection
    <2> QED BY <2>1 DEF Kept
<1>3. CASE job[d].kind = "published"
    <2>1. /\ src = dir["public"] /\ rows = src.meta \ Unpublished(src.meta, job[d].sitemap)
          /\ job[d].sitemap # None
        BY <1>1, <1>3 DEF Source, Selection
    <2>2. Whole(dir["mixed"], src)
        BY <2>1 DEF IInv, DirsWhole, Kinds
    <2>3. src.man.sitemap = None
        BY <2>1 DEF IInv, DirsWhole
    <2>4. rows = {r \in src.meta : Route[r] \in job[d].sitemap}
        BY <2>1 DEF Unpublished
    <2>5. rows \in SUBSET Public /\ \A r \in rows : Route[r] \in job[d].sitemap
        BY <2>2, <2>4 DEF Whole, Kept
    <2>6. ASSUME NEW r \in dir["mixed"].meta \cap Public, dir["mixed"] # None,
                 Route[r] \in job[d].sitemap
          PROVE  r \in rows
        BY <2>2, <2>3, <2>4, <2>6 DEF Whole, Kept
    <2> QED BY <2>1, <2>5, <2>6 DEF Kept
<1> QED BY <1>1, <1>2, <1>3 DEF Kinds

\* The manifest that a derivation writes is of its type.
LEMMA ManifestType ==
    ASSUME NEW rows \in SUBSET Public, NEW sitemap \in Sitemaps \cup {None}
    PROVE  ManifestOf(rows, sitemap) \in Manifests
<1>1. rows \in SUBSET Docs /\ {} \in SUBSET Docs
    BY DocsAssumption
<1>2. CountsOf(rows, {}) \in {CountsOf(r, s) : r, s \in SUBSET Docs}
    BY <1>1
<1> QED BY <1>1, <1>2 DEF ManifestOf, Manifests, Files
-----------------------------------------------------------------------------
LEMMA InitHolds == Init => IInv
<1> SUFFICES ASSUME Init PROVE IInv
    OBVIOUS
<1>1. PICK m \in Mixed : dir = [p \in Paths |-> IF p = "mixed" THEN m ELSE None]
    BY DEF Init
<1>2. dir["mixed"] \in Mixed /\ dir["public"] = None /\ \A k \in Kinds : dir[k] = None
    BY <1>1 DEF Paths, Kinds
<1>3. DirsWhole
    BY <1>2 DEF DirsWhole, Init
<1>4. JobsInStep
    BY DEF JobsInStep, Init, Idle
<1>5. TypeOK
    <2>1. Idle \in Jobs
        BY DEF Idle, Jobs, Files
    <2> QED BY <1>1, <2>1, MixedAssumption, RunsAssumption DEF Init, TypeOK
<1> QED BY <1>3, <1>4, <1>5 DEF IInv

LEMMA BeginStep ==
    ASSUME OneDeriver, IInv, NEW d \in Derivers,
           NEW kind \in Kinds, NEW sitemap \in Sitemaps \cup {None}, Begin(d, kind, sitemap)
    PROVE  IInv'
<1>1. /\ runs < MaxRuns /\ runs' = runs + 1 /\ UNCHANGED <<dir, tmp, taken>>
      /\ (kind = "public" <=> sitemap = None)
      /\ job' = [job EXCEPT ![d] = [Idle EXCEPT !.pc = "clear", !.kind = kind, !.sitemap = sitemap]]
    BY DEF Begin
<1>2. /\ job'[d].pc = "clear" /\ job'[d].kind = kind /\ job'[d].sitemap = sitemap
    BY <1>1 DEF IInv, TypeOK, Idle
<1>3. TypeOK'
    <2>1. [Idle EXCEPT !.pc = "clear", !.kind = kind, !.sitemap = sitemap] \in Jobs
        BY DEF Idle, Jobs, Files, Steps
    <2>2. runs' \in 0 .. MaxRuns
        BY <1>1, RunsAssumption DEF IInv, TypeOK
    <2> QED BY <1>1, <2>1, <2>2 DEF IInv, TypeOK
<1>4. InStep(dir["mixed"], tmp'[job'[d].kind], job'[d])
    BY <1>1, <1>2 DEF InStep, AfterIndex, AfterMeta, AfterManifest
<1> QED BY <1>1, <1>3, <1>4, Advance

\* A job that goes on keeps what its derivation knows.
LEMMA GotoFacts ==
    ASSUME TypeOK, NEW d \in Derivers, NEW step \in Steps, Goto(d, step)
    PROVE  /\ job' \in [Derivers -> Jobs] /\ job'[d].pc = step
           /\ job'[d].kind = job[d].kind /\ job'[d].sitemap = job[d].sitemap
           /\ job'[d].rows = job[d].rows /\ job'[d].idx = job[d].idx /\ job'[d].meta = job[d].meta
BY DEF TypeOK, Goto, Jobs

LEMMA ClearTmpStep ==
    ASSUME OneDeriver, IInv, NEW d \in Derivers, ClearTmp(d)
    PROVE  IInv'
<1>1. /\ job[d].pc = "clear" /\ UNCHANGED <<dir, taken, runs>>
      /\ tmp' = [tmp EXCEPT ![job[d].kind] = None]
    BY DEF ClearTmp
<1>2. /\ job' \in [Derivers -> Jobs] /\ job'[d].pc = "select"
      /\ job'[d].kind = job[d].kind /\ job'[d].sitemap = job[d].sitemap
    BY GotoFacts DEF ClearTmp, IInv, Steps
<1>3. TypeOK'
    BY <1>1, <1>2 DEF IInv, TypeOK
<1>4. InStep(dir["mixed"], tmp'[job'[d].kind], job'[d])
    BY <1>1, <1>2 DEF IInv, JobsInStep, InStep, AfterIndex, AfterMeta, AfterManifest
<1> QED BY <1>1, <1>3, <1>4, Advance

LEMMA SelectStep ==
    ASSUME OneDeriver, IInv, NEW d \in Derivers, Select(d)
    PROVE  IInv'
<1>1. PICK src : src = dir[Source(job[d].kind)]
    OBVIOUS
<1>2. PICK rows : rows = Selection(job[d], src.meta)
    OBVIOUS
<1>3. /\ job[d].pc = "select" /\ src # None /\ rows # {}
      /\ job' = [job EXCEPT ![d].pc = "saveIndex", ![d].rows = rows]
      /\ UNCHANGED <<dir, tmp, taken, runs>>
    BY <1>1, <1>2 DEF Select
<1>4. Kept(dir["mixed"], rows, job[d].sitemap)
    BY <1>1, <1>2, <1>3, SelectionKeeps
<1>5. /\ job'[d].pc = "saveIndex" /\ job'[d].kind = job[d].kind
      /\ job'[d].sitemap = job[d].sitemap /\ job'[d].rows = rows
      /\ job' \in [Derivers -> Jobs]
    <2>1. rows \in SUBSET Public /\ job \in [Derivers -> Jobs]
        BY <1>4 DEF Kept, IInv, TypeOK
    <2>2. "saveIndex" \in Steps \cup {"idle"}
        BY DEF Steps
    <2>3. [job[d] EXCEPT !.pc = "saveIndex", !.rows = rows] \in Jobs
        BY <2>1, <2>2 DEF Jobs
    <2> QED BY <1>3, <2>1, <2>3 DEF Jobs
<1>6. TypeOK'
    BY <1>3, <1>5 DEF IInv, TypeOK
<1>7. InStep(dir["mixed"], tmp'[job'[d].kind], job'[d])
    BY <1>3, <1>4, <1>5 DEF IInv, JobsInStep, InStep, AfterIndex, AfterMeta, AfterManifest
<1> QED BY <1>3, <1>6, <1>7, Advance

LEMMA SaveIndexStep ==
    ASSUME OneDeriver, IInv, NEW d \in Derivers, SaveIndex(d)
    PROVE  IInv'
<1>1. PICK kind \in Kinds : kind = job[d].kind
    BY DEF IInv, JobsInStep, InStep, SaveIndex
<1>2. PICK rows \in SUBSET Public : rows = job[d].rows
    BY DEF IInv, TypeOK, Jobs
<1>3. PICK t \in Dirs : t = IF tmp[kind] = None THEN EmptyDir ELSE tmp[kind]
    <2>1. EmptyDir \in Dirs
        BY DEF EmptyDir, Dirs, Files
    <2>2. tmp[kind] # None => tmp[kind] \in Dirs
        BY DEF IInv, TypeOK
    <2> QED BY <2>1, <2>2
<1>4. /\ job[d].pc = "saveIndex" /\ UNCHANGED <<dir, taken, runs>>
      /\ tmp' = [tmp EXCEPT ![kind] = [t EXCEPT !.idx = rows]]
    BY <1>1, <1>2, <1>3 DEF SaveIndex, Written
<1>5. /\ job' \in [Derivers -> Jobs] /\ job'[d].pc = "saveMeta"
      /\ job'[d].kind = job[d].kind /\ job'[d].sitemap = job[d].sitemap
      /\ job'[d].rows = job[d].rows
    BY GotoFacts DEF SaveIndex, IInv, Steps
<1>6. [t EXCEPT !.idx = rows] \in Dirs
    BY DocsAssumption DEF Dirs, Files
<1>7. TypeOK'
    BY <1>4, <1>5, <1>6 DEF IInv, TypeOK
<1>8. tmp'[kind] # None /\ tmp'[kind].idx = rows
    BY <1>4, <1>6, NoneAssumption DEF IInv, TypeOK, Dirs
<1>9. InStep(dir["mixed"], tmp'[job'[d].kind], job'[d])
    BY <1>1, <1>2, <1>4, <1>5, <1>8 DEF IInv, JobsInStep, InStep, AfterIndex, AfterMeta, AfterManifest
<1> QED BY <1>4, <1>7, <1>9, Advance

LEMMA SaveMetaStep ==
    ASSUME OneDeriver, IInv, NEW d \in Derivers, SaveMeta(d)
    PROVE  IInv'
<1>1. PICK kind \in Kinds : kind = job[d].kind
    BY DEF IInv, JobsInStep, InStep, SaveMeta
<1>2. PICK rows \in SUBSET Public : rows = job[d].rows
    BY DEF IInv, TypeOK, Jobs
<1>3. PICK t \in Dirs : t = tmp[kind]
    BY <1>1 DEF IInv, TypeOK, SaveMeta
<1>4. /\ job[d].pc = "saveMeta" /\ UNCHANGED <<dir, taken, runs>>
      /\ tmp' = [tmp EXCEPT ![kind] = [t EXCEPT !.meta = rows]]
    BY <1>1, <1>2, <1>3 DEF SaveMeta, Written
<1>5. /\ job' \in [Derivers -> Jobs] /\ job'[d].pc = "hash"
      /\ job'[d].kind = job[d].kind /\ job'[d].sitemap = job[d].sitemap
      /\ job'[d].rows = job[d].rows
    BY GotoFacts DEF SaveMeta, IInv, Steps
<1>6. [t EXCEPT !.meta = rows] \in Dirs
    BY DocsAssumption DEF Dirs, Files
<1>7. TypeOK'
    BY <1>4, <1>5, <1>6 DEF IInv, TypeOK
<1>8. t.idx = rows
    BY <1>1, <1>2, <1>3, <1>4 DEF IInv, JobsInStep, InStep, AfterIndex
<1>9. tmp'[kind] # None /\ tmp'[kind].idx = rows /\ tmp'[kind].meta = rows
    BY <1>4, <1>6, <1>8, NoneAssumption DEF IInv, TypeOK, Dirs
<1>10. InStep(dir["mixed"], tmp'[job'[d].kind], job'[d])
    BY <1>1, <1>2, <1>4, <1>5, <1>9 DEF IInv, JobsInStep, InStep, AfterIndex, AfterMeta, AfterManifest
<1> QED BY <1>4, <1>7, <1>10, Advance

LEMMA HashStep ==
    ASSUME OneDeriver, IInv, NEW d \in Derivers, Hash(d)
    PROVE  IInv'
<1>1. PICK t : t = tmp[job[d].kind]
    OBVIOUS
<1>2. PICK rows \in SUBSET Public : rows = job[d].rows
    BY DEF IInv, TypeOK, Jobs
<1>3. /\ job[d].pc = "hash" /\ UNCHANGED <<dir, tmp, taken, runs>>
      /\ t # None /\ t.idx = rows /\ t.meta = rows
    BY <1>1, <1>2 DEF Hash, IInv, JobsInStep, InStep, AfterIndex, AfterMeta
<1>4. job' = [job EXCEPT ![d].pc = "manifest", ![d].idx = rows, ![d].meta = rows]
    BY <1>1, <1>3 DEF Hash
<1>5. /\ job'[d].pc = "manifest" /\ job'[d].kind = job[d].kind
      /\ job'[d].sitemap = job[d].sitemap /\ job'[d].rows = rows
      /\ job'[d].idx = rows /\ job'[d].meta = rows /\ job' \in [Derivers -> Jobs]
    <2>1. rows \in Files /\ job \in [Derivers -> Jobs] /\ "manifest" \in Steps \cup {"idle"}
        BY DocsAssumption DEF Files, IInv, TypeOK, Steps
    <2>2. [job[d] EXCEPT !.pc = "manifest", !.idx = rows, !.meta = rows] \in Jobs
        BY <2>1 DEF Jobs
    <2> QED BY <1>2, <1>4, <2>1, <2>2 DEF Jobs
<1>6. TypeOK'
    BY <1>3, <1>5 DEF IInv, TypeOK
<1>7. InStep(dir["mixed"], tmp'[job'[d].kind], job'[d])
    BY <1>1, <1>2, <1>3, <1>5 DEF IInv, JobsInStep, InStep, AfterIndex, AfterMeta, AfterManifest
<1> QED BY <1>3, <1>6, <1>7, Advance

LEMMA WriteManifestStep ==
    ASSUME OneDeriver, IInv, NEW d \in Derivers, WriteManifest(d)
    PROVE  IInv'
<1>1. PICK kind \in Kinds : kind = job[d].kind
    BY DEF IInv, JobsInStep, InStep, WriteManifest
<1>2. PICK rows \in SUBSET Public : rows = job[d].rows
    BY DEF IInv, TypeOK, Jobs
<1>3. PICK sitemap \in Sitemaps \cup {None} : sitemap = job[d].sitemap
    BY DEF IInv, TypeOK, Jobs
<1>4. /\ job[d].pc = "manifest" /\ UNCHANGED <<dir, taken, runs>>
      /\ job[d].idx = rows /\ job[d].meta = rows
      /\ tmp[kind] # None /\ tmp[kind].idx = rows /\ tmp[kind].meta = rows
    BY <1>1, <1>2 DEF WriteManifest, IInv, JobsInStep, InStep, AfterIndex, AfterMeta
<1>5. PICK t \in Dirs : t = tmp[kind]
    BY <1>4 DEF IInv, TypeOK
<1>6. PICK man : man = ManifestOf(rows, sitemap)
    OBVIOUS
<1>7. tmp' = [tmp EXCEPT ![kind] = [t EXCEPT !.man = man]]
    BY <1>1, <1>2, <1>3, <1>4, <1>5, <1>6 DEF WriteManifest, ManifestOf
<1>8. man \in Manifests
    BY <1>6, ManifestType
<1>9. [t EXCEPT !.man = man] \in Dirs
    BY <1>8 DEF Dirs
<1>10. /\ job' \in [Derivers -> Jobs] /\ job'[d].pc = "validate"
       /\ job'[d].kind = kind /\ job'[d].sitemap = sitemap /\ job'[d].rows = rows
    BY <1>1, <1>2, <1>3, GotoFacts DEF WriteManifest, IInv, Steps
<1>11. TypeOK'
    BY <1>4, <1>7, <1>9, <1>10 DEF IInv, TypeOK
<1>12. /\ tmp'[kind] # None /\ tmp'[kind].idx = rows /\ tmp'[kind].meta = rows
       /\ tmp'[kind].man = man
    BY <1>4, <1>5, <1>7, <1>9, NoneAssumption DEF IInv, TypeOK, Dirs
<1>13. InStep(dir["mixed"], tmp'[job'[d].kind], job'[d])
    BY <1>1, <1>2, <1>3, <1>4, <1>6, <1>10, <1>12
       DEF IInv, JobsInStep, InStep, AfterIndex, AfterMeta, AfterManifest
<1> QED BY <1>4, <1>11, <1>13, Advance

\* A derivation that ends leaves the directories as they are, but for its
\* partial one.
LEMMA FinishStep ==
    ASSUME OneDeriver, IInv, NEW d \in Derivers, Finish(d), UNCHANGED <<dir, taken, runs>>,
           tmp' \in [Kinds -> Dirs \cup {None}]
    PROVE  IInv'
<1>1. Idle \in Jobs /\ Idle.pc = "idle"
    BY DEF Idle, Jobs, Files
<1>2. job'[d].pc = "idle" /\ TypeOK'
    BY <1>1 DEF Finish, IInv, TypeOK
<1> QED BY <1>2, Advance

LEMMA CheckStep ==
    ASSUME OneDeriver, IInv, NEW d \in Derivers, Validate(d) \/ Compare(d)
    PROVE  IInv'
<1>1. UNCHANGED <<dir, taken, runs>> /\ job[d].pc \in {"validate", "compare"}
    BY DEF Validate, Compare
<1>2. CASE Discard(d)
    <2>1. tmp' \in [Kinds -> Dirs \cup {None}]
        BY <1>2 DEF Discard, IInv, TypeOK
    <2> QED BY <1>1, <1>2, <2>1, FinishStep DEF Discard
<1>3. CASE ~Discard(d)
    <2>1. PICK step \in {"compare", "rename"} : Goto(d, step) /\ UNCHANGED tmp
        BY <1>3 DEF Validate, Compare
    <2>2. /\ job' \in [Derivers -> Jobs] /\ job'[d].pc = step
          /\ job'[d].kind = job[d].kind /\ job'[d].sitemap = job[d].sitemap
          /\ job'[d].rows = job[d].rows
        BY <2>1, GotoFacts DEF IInv, Steps
    <2>3. TypeOK'
        BY <1>1, <2>1, <2>2 DEF IInv, TypeOK
    <2>4. InStep(dir["mixed"], tmp'[job'[d].kind], job'[d])
        BY <1>1, <2>1, <2>2 DEF IInv, JobsInStep, InStep, AfterIndex, AfterMeta, AfterManifest
    <2> QED BY <1>1, <2>3, <2>4, Advance
<1> QED BY <1>2, <1>3

LEMMA DieStep ==
    ASSUME OneDeriver, IInv, NEW d \in Derivers, Die(d)
    PROVE  IInv'
<1>1. Finish(d) /\ UNCHANGED <<dir, tmp, taken, runs>> /\ tmp' \in [Kinds -> Dirs \cup {None}]
    BY DEF Die, IInv, TypeOK
<1> QED BY <1>1, FinishStep

LEMMA RenameStep ==
    ASSUME OneDeriver, IInv, NEW d \in Derivers, Rename(d)
    PROVE  IInv'
<1>1. PICK kind \in Kinds : kind = job[d].kind
    BY DEF IInv, JobsInStep, InStep, Rename
<1>2. PICK rows \in SUBSET Public : rows = job[d].rows
    BY DEF IInv, TypeOK, Jobs
<1>3. PICK sitemap \in Sitemaps \cup {None} : sitemap = job[d].sitemap
    BY DEF IInv, TypeOK, Jobs
<1>4. PICK t \in Dirs : t = tmp[kind]
    BY <1>1 DEF IInv, TypeOK, Rename
<1>5. /\ job[d].pc = "rename" /\ UNCHANGED <<taken, runs>> /\ Finish(d)
      /\ dir' = [dir EXCEPT ![kind] = t] /\ tmp' = [tmp EXCEPT ![kind] = None]
    BY <1>1, <1>4 DEF Rename
<1>6. /\ t.idx = rows /\ t.meta = rows /\ t.man = ManifestOf(rows, sitemap)
      /\ Kept(dir["mixed"], rows, sitemap) /\ (kind = "public" => sitemap = None)
    BY <1>1, <1>2, <1>3, <1>4, <1>5
       DEF IInv, JobsInStep, InStep, AfterIndex, AfterMeta, AfterManifest
<1>7. Whole(dir["mixed"], t)
    <2>1. t # None /\ rows # None /\ ManifestOf(rows, sitemap) # None
        <3>1. rows \in SUBSET Docs
            BY DocsAssumption
        <3>2. ManifestOf(rows, sitemap) \in Manifests
            BY ManifestType
        <3> QED BY <3>1, <3>2, NoneAssumption
    <2>2. /\ t.man.clean /\ t.man.idx = rows /\ t.man.meta = rows /\ t.man.sitemap = sitemap
          /\ t.man.counts = CountsOf(rows, {})
        BY <1>6 DEF ManifestOf
    <2>3. rows \cap Public = rows /\ rows \ Public = {}
        OBVIOUS
    <2> QED BY <1>6, <2>1, <2>2, <2>3 DEF Whole, Validates
<1>8. DirsWhole'
    <2>1. /\ dir'["mixed"] = dir["mixed"] /\ dir'[kind] = t
          /\ \A k \in Kinds \ {kind} : dir'[k] = dir[k]
        BY <1>5 DEF IInv, TypeOK, Paths, Kinds
    <2>2. \A k \in Kinds : dir'[k] # None => Whole(dir["mixed"], dir'[k])
        BY <1>7, <2>1 DEF IInv, DirsWhole
    <2>3. dir'["public"] # None => dir'["public"].man.sitemap = None
        <3>1. "public" \in Kinds /\ (kind = "public" => t.man.sitemap = None)
            BY <1>6 DEF Kinds, ManifestOf
        <3> QED BY <2>1, <3>1 DEF IInv, DirsWhole
    <2> QED BY <1>5, <2>1, <2>2, <2>3 DEF IInv, DirsWhole
<1>9. Idle \in Jobs /\ Idle.pc = "idle"
    BY DEF Idle, Jobs, Files
<1>10. TypeOK'
    BY <1>5, <1>9 DEF Finish, IInv, TypeOK, Paths
<1>11. JobsInStep'
    BY <1>5, <1>9 DEF Finish, IInv, TypeOK, OneDeriver, JobsInStep
<1> QED BY <1>8, <1>10, <1>11 DEF IInv

LEMMA PromoteStep ==
    ASSUME IInv, NEW p \in Paths, Promote(p)
    PROVE  IInv'
<1>1. PICK c : c = dir[p]
    OBVIOUS
<1>2. /\ Validates(c, TRUE) /\ UNCHANGED <<tmp, job, runs>> /\ taken' = taken \cup {c}
      /\ \A q \in Paths : dir'[q] \in {dir[q], None}
      /\ dir' \in [Paths -> Dirs \cup {None}]
    BY <1>1 DEF Promote, IInv, TypeOK
<1>3. c \in Dirs
    BY <1>1, <1>2 DEF IInv, TypeOK, Validates
<1>4. PICK rest \in {dir["mixed"], None} : rest = dir'["mixed"]
    BY <1>2 DEF Paths
<1>5. Whole(dir["mixed"], c)
    <2>1. CASE p = "mixed"
        <3>1. c \in Mixed
            BY <1>1, <1>2, <2>1 DEF IInv, DirsWhole, Validates
        <3>2. Validates(c, FALSE) /\ c.meta \subseteq Public
            BY <1>2 DEF Validates
        <3>3. c.idx = c.meta /\ c.meta # {} /\ c.man.sitemap = None
            BY <3>1, <3>2, BuiltAssumption
        <3>4. Kept(dir["mixed"], c.meta, c.man.sitemap)
            BY <1>1, <2>1, <3>2, <3>3 DEF Kept
        <3> QED BY <1>2, <1>3, <3>3, <3>4 DEF Whole
    <2>2. CASE p \in Kinds
        BY <1>1, <1>2, <2>2 DEF IInv, DirsWhole, Validates
    <2> QED BY <2>1, <2>2 DEF Paths
<1>6. DirsWhole'
    <2>1. \A k \in Kinds : dir'[k] # None => dir'[k] = dir[k]
        BY <1>2 DEF Paths
    <2>2. ASSUME NEW k \in Kinds, dir'[k] # None PROVE Whole(rest, dir'[k])
        BY <2>1, <2>2, WholeStays DEF IInv, DirsWhole
    <2>3. ASSUME NEW d \in taken' PROVE Whole(rest, d)
        BY <1>2, <1>5, <2>3, WholeStays DEF IInv, DirsWhole
    <2>4. dir'["mixed"] = None \/ dir'["mixed"] \in Mixed
        BY <1>4 DEF IInv, DirsWhole
    <2>5. dir'["public"] # None => dir'["public"].man.sitemap = None
        BY <2>1 DEF IInv, DirsWhole, Kinds
    <2> QED BY <1>4, <2>2, <2>3, <2>4, <2>5 DEF DirsWhole
<1>7. JobsInStep'
    <2>1. ASSUME NEW d \in Derivers, job[d].pc # "idle"
          PROVE  InStep(rest, tmp[job[d].kind], job[d])
        BY <2>1, InStepStays DEF IInv, JobsInStep
    <2> QED BY <1>2, <1>4, <2>1 DEF JobsInStep
<1>8. TypeOK'
    BY <1>2, <1>3 DEF IInv, TypeOK
<1> QED BY <1>6, <1>7, <1>8 DEF IInv
-----------------------------------------------------------------------------
LEMMA NextKeeps == OneDeriver /\ IInv /\ [Next]_vars => IInv'
<1> SUFFICES ASSUME OneDeriver, IInv, [Next]_vars PROVE IInv'
    OBVIOUS
<1>1. CASE UNCHANGED vars
    BY <1>1 DEF vars, IInv, TypeOK, JobsInStep, DirsWhole
<1>2. CASE Next
    BY <1>2, BeginStep, ClearTmpStep, SelectStep, SaveIndexStep, SaveMetaStep, HashStep,
       WriteManifestStep, CheckStep, RenameStep, DieStep, PromoteStep DEF Next
<1> QED BY <1>1, <1>2

LEMMA Invariance == OneDeriver => (Spec => []IInv)
<1> SUFFICES ASSUME OneDeriver PROVE Spec => []IInv
    OBVIOUS
<1>1. IInv /\ [Next]_vars => IInv'
    BY NextKeeps
<1> QED BY <1>1, InitHolds, PTL DEF Spec

\* Directories, partial directories and jobs keep to their types, in
\* index/derive.py run by one person at a time.
THEOREM DeriveTypeCorrect == OneDeriver => (Spec => []TypeOK)
<1>1. IInv => TypeOK
    BY DEF IInv
<1> QED BY <1>1, Invariance, PTL

\* A derived candidate that validates, in place or promoted, has the vectors
\* of its metadata and holds only PUBLIC documents, and only published ones
\* when a sitemap was asked about: derive_public_only, derive_published_subset.
THEOREM VerifiedIsUsed == OneDeriver => (Spec => []VerifiedBeforeUse)
<1>1. IInv => VerifiedBeforeUse
    <2> SUFFICES ASSUME IInv, NEW d \in {dir[k] : k \in Kinds} \cup taken, Validates(d, TRUE)
                 PROVE  Verified(d)
        BY DEF VerifiedBeforeUse
    <2>1. Whole(dir["mixed"], d)
        BY DEF IInv, DirsWhole, Validates
    <2> QED BY <2>1 DEF Whole, Kept, Verified
<1> QED BY <1>1, Invariance, PTL

\* What is at the name of a derived candidate is whole, wherever a
\* derivation was killed and whatever the next one found: os.replace at the
\* end of index/derive.py's functions.
THEOREM NothingHalfDerived == OneDeriver => (Spec => []DerivedIsWhole)
<1>1. IInv => DerivedIsWhole
    BY DEF IInv, DirsWhole, Whole, DerivedIsWhole
<1> QED BY <1>1, Invariance, PTL

\* A candidate derived for a sitemap holds every PUBLIC document of the
\* mixed candidate that is on the site, through both derivations.
THEOREM PublishedIsKept == OneDeriver => (Spec => []NothingPublishedIsLost)
<1>1. IInv => NothingPublishedIsLost
    <2> SUFFICES ASSUME IInv, NEW d \in {dir["published"]} \cup taken, d # None,
                        dir["mixed"] # None
                 PROVE  {r \in dir["mixed"].meta \cap Public :
                           d.man.sitemap = None \/ Route[r] \in d.man.sitemap} \subseteq d.meta
        BY DEF NothingPublishedIsLost
    <2>1. Whole(dir["mixed"], d)
        BY DEF IInv, DirsWhole, Kinds
    <2> QED BY <2>1 DEF Whole, Kept
<1> QED BY <1>1, Invariance, PTL
=============================================================================
