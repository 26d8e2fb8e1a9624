-------------------------- MODULE IndexBuildProofs ---------------------------
(***************************************************************************)
(* What a candidate's files have in common when builds are run one at a    *)
(* time under its build id, for any repositories, chunks, numbers of       *)
(* builders and builds, whatever fails or dies.                            *)
(*                                                                         *)
(* The properties speak of a validated candidate.  Stage says how far the  *)
(* directory is at each step of the only build that can be writing it.     *)
(***************************************************************************)
EXTENDS IndexBuild, SubsequenceTheorems

JobFields == {"pc", "id", "repos", "next", "missing", "failures", "metadata",
              "vectors", "indexed", "failed", "hash"}
DirFields == {"idx", "meta", "man"}
IsDir(d) == d = [x \in DirFields |-> d[x]]

JobOK(b) ==
    /\ DOMAIN job[b] = JobFields
    /\ job[b].vectors = job[b].indexed
    /\ job[b].pc = "idle" => job[b].id = None
    /\ job[b].pc # "idle" => job[b].id \in BuildIds

Early == {"discover", "retry", "mkdir"}
Writing == {"saveIndex", "saveMeta", "hash", "manifest"}
Recorded == {"validate", "rehash", "remanifest"}

\* The directory of a build that is the only one under its id.
Stage(j, d) ==
    /\ j.pc \in Early => d = None
    /\ j.pc \in Writing \cup Recorded => IsDir(d)
    /\ j.pc \in Writing => d.man = None
    /\ j.pc = "saveMeta" => d.idx = j.vectors
    /\ j.pc \in {"hash", "manifest"} \cup Recorded => d.idx = j.vectors /\ d.meta = j.vectors
    /\ j.pc \in {"manifest"} \cup Recorded => j.hash = HashOf(d)
    /\ j.pc \in Recorded => d.man = ManifestOf(j)

\* ... and when nothing is known of who builds.
Aligned(d) == d # None /\ d.man # None => d.idx = d.meta

Exclusive(i) ==
    /\ \A b, c \in Builders : job[b].id = i /\ job[c].id = i => b = c
    /\ \A b \in Builders : job[b].id = i => Stage(job[b], dir[i])
    /\ Aligned(dir[i])

IInv ==
    /\ DOMAIN dir = BuildIds /\ DOMAIN contended = BuildIds
    /\ DOMAIN job = Builders
    /\ \A b \in Builders : JobOK(b)
    /\ \A i \in BuildIds : contended[i] = {} => Exclusive(i)
-----------------------------------------------------------------------------
\* A step of one build, by what it does to its job and to its directory.
Step(b) ==
    /\ DOMAIN job' = Builders /\ \A c \in Builders \ {b} : job'[c] = job[c]
    /\ DOMAIN dir' = BuildIds /\ \A i \in BuildIds \ {job[b].id} : dir'[i] = dir[i]
    /\ contended' = contended

Good(j, d) == Stage(j, d) /\ Aligned(d)

LEMMA StepKeeps ==
    ASSUME IInv, NEW b \in Builders, Step(b), JobOK(b)', job[b].pc # "idle",
           job'[b].id \in {job[b].id, None},
           Good(job[b], dir[job[b].id]) =>
               /\ Aligned(dir'[job[b].id])
               /\ job'[b].id # None => Good(job'[b], dir'[job[b].id])
    PROVE  IInv'
<1> DEFINE k == job[b].id
<1>1. k \in BuildIds /\ None \notin BuildIds
    BY NoneAssumption DEF IInv, JobOK
<1>2. /\ \A c \in Builders \ {b} : job'[c] = job[c]
      /\ \A i \in BuildIds \ {k} : dir'[i] = dir[i]
      /\ contended' = contended /\ DOMAIN job' = Builders /\ DOMAIN dir' = BuildIds
    BY DEF Step
<1>3. \A c \in Builders : JobOK(c)'
    <2> SUFFICES ASSUME NEW c \in Builders PROVE JobOK(c)'
        OBVIOUS
    <2>1. CASE c = b
        BY <2>1
    <2>2. CASE c # b
        BY <1>2, <2>2 DEF IInv, JobOK
    <2> QED BY <2>1, <2>2
<1>4. ASSUME NEW i \in BuildIds, contended'[i] = {}
      PROVE  Exclusive(i)'
    <2>1. Exclusive(i)
        BY <1>2, <1>4 DEF IInv
    <2>2. \A c \in Builders : job'[c].id = i => job[c].id = i
        BY <1>1, <1>2
    <2>3. \A c, d \in Builders : job'[c].id = i /\ job'[d].id = i => c = d
        BY <2>1, <2>2 DEF Exclusive
    <2>4. CASE i # k
        <3>1. dir'[i] = dir[i]
            BY <1>2, <2>4
        <3>2. \A c \in Builders : job'[c].id = i => job'[c] = job[c]
            BY <1>1, <1>2, <2>4
        <3>3. \A c \in Builders : job'[c].id = i => Stage(job'[c], dir'[i])
            BY <2>1, <2>2, <3>1, <3>2 DEF Exclusive
        <3> QED BY <2>1, <2>3, <3>1, <3>3 DEF Exclusive
    <2>5. CASE i = k
        <3>1. Good(job[b], dir[k])
            BY <2>1, <2>5 DEF Exclusive, Good
        <3>2. Aligned(dir'[k]) /\ (job'[b].id # None => Good(job'[b], dir'[k]))
            BY <3>1
        <3>3. \A c \in Builders : job'[c].id = i => c = b
            BY <2>1, <2>2, <2>5 DEF Exclusive
        <3>4. \A c \in Builders : job'[c].id = i => Stage(job'[c], dir'[i])
            BY <1>1, <2>5, <3>2, <3>3 DEF Good
        <3> QED BY <2>3, <2>5, <3>2, <3>4 DEF Exclusive
    <2> QED BY <2>4, <2>5
<1> QED BY <1>2, <1>3, <1>4 DEF IInv

\* What a step leaves of a build that goes on.
LEMMA Going ==
    ASSUME IInv, NEW b \in Builders, NEW j, job' = [job EXCEPT ![b] = j],
           DOMAIN j = JobFields, j.vectors = j.indexed, j.pc # "idle", j.id = job[b].id,
           job[b].pc # "idle"
    PROVE  JobOK(b)' /\ job'[b] = j
<1>1. job'[b] = j
    BY DEF IInv
<1>2. j.id \in BuildIds
    BY DEF IInv, JobOK
<1> QED BY <1>1, <1>2 DEF JobOK

\* ... and of one that ends.
LEMMA Ending ==
    ASSUME IInv, NEW b \in Builders, Finish(b)
    PROVE  JobOK(b)' /\ job'[b].id = None
<1>1. job'[b] = Idle
    BY DEF IInv, Finish
<1> QED BY <1>1 DEF JobOK, Idle, JobFields

LEMMA EmbeddingKeeps ==
    ASSUME IInv, NEW b \in Builders, NEW j, job' = [job EXCEPT ![b] = j],
           job[b].pc \in {"discover", "retry"}, j.pc \in {"discover", "retry", "mkdir"},
           DOMAIN j = JobFields, j.vectors = j.indexed, j.id = job[b].id,
           UNCHANGED <<dir, builds, contended>>
    PROVE  IInv'
<1>1. JobOK(b)' /\ job'[b] = j
    BY Going
<1>2. Step(b)
    BY DEF Step, IInv
<1>3. Good(job[b], dir[job[b].id]) => Good(job'[b], dir'[job[b].id])
    BY <1>1 DEF Good, Stage, Early, Writing, Recorded
<1> QED BY <1>1, <1>2, <1>3, StepKeeps DEF Good

LEMMA DiscoverKeeps ==
    ASSUME IInv, NEW b \in Builders, NEW unreadable,
           SkipRepository(b) \/ ReadRepository(b, unreadable)
    PROVE  IInv'
<1>1. DOMAIN job[b] = JobFields /\ job[b].vectors = job[b].indexed
    BY DEF IInv, JobOK
<1>2. job[b].pc = "discover" /\ UNCHANGED <<dir, builds, contended>>
    BY DEF SkipRepository, ReadRepository
<1>3. PICK next, missing, failures, metadata :
          job' = [job EXCEPT ![b] = [job[b] EXCEPT !.next = next, !.missing = missing,
                                        !.failures = failures, !.metadata = metadata]]
    <2>1. CASE SkipRepository(b)
        <3>1. job' = [job EXCEPT ![b] = [job[b] EXCEPT !.next = job[b].next + 1, !.missing = TRUE,
                          !.failures = job[b].failures, !.metadata = job[b].metadata]]
            BY <1>1, <2>1 DEF SkipRepository, JobFields, IInv
        <3> QED BY <3>1
    <2>2. CASE ReadRepository(b, unreadable)
        <3> DEFINE failures == job[b].failures \/ unreadable # {}
                   metadata == job[b].metadata \o Drop(Corpus[job[b].repos[job[b].next]], unreadable)
        <3>1. job' = [job EXCEPT ![b] = [job[b] EXCEPT !.next = job[b].next + 1,
                          !.failures = failures, !.metadata = metadata]]
            BY <2>2 DEF ReadRepository
        <3> HIDE DEF failures, metadata
        <3>2. job' = [job EXCEPT ![b] = [job[b] EXCEPT !.next = job[b].next + 1,
                          !.missing = job[b].missing, !.failures = failures, !.metadata = metadata]]
            BY <1>1, <3>1 DEF JobFields, IInv
        <3> QED BY <3>2
    <2> QED BY <2>1, <2>2
<1> DEFINE j == [job[b] EXCEPT !.next = next, !.missing = missing,
                               !.failures = failures, !.metadata = metadata]
<1>4. DOMAIN j = JobFields /\ j.vectors = j.indexed /\ j.id = job[b].id /\ j.pc = "discover"
    BY <1>1, <1>2 DEF JobFields
<1>5. job' = [job EXCEPT ![b] = j]
    BY <1>3
<1> HIDE DEF j
<1> QED BY <1>2, <1>4, <1>5, EmbeddingKeeps

LEMMA EmbedPassKeeps ==
    ASSUME IInv, NEW b \in Builders, NEW F, EmbedPass(b, F)
    PROVE  IInv'
<1>1. DOMAIN job[b] = JobFields
    BY DEF IInv, JobOK
<1> DEFINE ok == Drop(Deduped(job[b].metadata), F)
           j  == [job[b] EXCEPT !.pc = IF F # {} THEN "retry" ELSE "mkdir",
                                !.vectors = ok, !.indexed = ok, !.failed = F]
<1>2. job' = [job EXCEPT ![b] = j]
    BY DEF EmbedPass
<1>3. /\ DOMAIN j = JobFields /\ j.vectors = j.indexed /\ j.id = job[b].id
      /\ j.pc \in {"retry", "mkdir"}
    BY <1>1 DEF JobFields
<1>4. job[b].pc = "discover" /\ UNCHANGED <<dir, builds, contended>>
    BY DEF EmbedPass
<1> HIDE DEF j
<1> QED BY <1>2, <1>3, <1>4, EmbeddingKeeps

\* The recovered chunks go to the same place in both lists.
LEMMA SecondChanceKeeps ==
    ASSUME IInv, NEW b \in Builders, NEW F, SecondChance(b, F)
    PROVE  IInv'
<1>1. DOMAIN job[b] = JobFields /\ job[b].vectors = job[b].indexed
    BY DEF IInv, JobOK
<1>2. PICK failed, recovered :
          job' = [job EXCEPT ![b] = [job[b] EXCEPT !.pc = "mkdir", !.failed = failed,
                                        !.vectors = job[b].vectors \o recovered,
                                        !.indexed = WithRecovered(job[b].indexed, recovered)]]
    BY DEF SecondChance
<1> DEFINE j == [job[b] EXCEPT !.pc = "mkdir", !.failed = failed,
                               !.vectors = job[b].vectors \o recovered,
                               !.indexed = WithRecovered(job[b].indexed, recovered)]
<1>3. DOMAIN j = JobFields /\ j.vectors = j.indexed /\ j.id = job[b].id /\ j.pc = "mkdir"
    BY <1>1 DEF JobFields, WithRecovered
<1>4. job[b].pc = "retry" /\ UNCHANGED <<dir, builds, contended>>
    BY DEF SecondChance
<1>5. job' = [job EXCEPT ![b] = j]
    BY <1>2
<1> HIDE DEF j
<1> QED BY <1>3, <1>4, <1>5, EmbeddingKeeps

\* A step to the next program counter, and to the hashes taken there.
LEMMA Moving ==
    ASSUME IInv, NEW b \in Builders, job[b].pc # "idle", NEW pc, pc # "idle",
           \/ job' = [job EXCEPT ![b].pc = pc]
           \/ \E h : job' = [job EXCEPT ![b].pc = pc, ![b].hash = h]
    PROVE  /\ JobOK(b)' /\ DOMAIN job' = Builders /\ \A c \in Builders \ {b} : job'[c] = job[c]
           /\ job'[b].pc = pc /\ job'[b].id = job[b].id /\ job'[b].vectors = job[b].vectors
           /\ job' = [job EXCEPT ![b].pc = pc] => job'[b].hash = job[b].hash
           /\ job'[b].hash = job[b].hash => ManifestOf(job'[b]) = ManifestOf(job[b])
<1>1. /\ DOMAIN job' = Builders /\ \A c \in Builders \ {b} : job'[c] = job[c]
      /\ DOMAIN job'[b] = JobFields
      /\ job'[b].pc = pc /\ job'[b].id = job[b].id /\ job'[b].vectors = job[b].vectors
      /\ job'[b].indexed = job[b].indexed /\ job'[b].repos = job[b].repos
      /\ job'[b].failed = job[b].failed /\ job'[b].failures = job[b].failures
      /\ job'[b].missing = job[b].missing /\ job'[b].metadata = job[b].metadata
      /\ job'[b].next = job[b].next
      /\ job' = [job EXCEPT ![b].pc = pc] => job'[b].hash = job[b].hash
    BY DEF IInv, JobOK, JobFields
<1>2. JobOK(b)'
    BY <1>1 DEF IInv, JobOK
<1>3. job'[b].hash = job[b].hash => ManifestOf(job'[b]) = ManifestOf(job[b])
    BY <1>1 DEF ManifestOf, StatusOf, DeclaredCounts
<1> QED BY <1>1, <1>2, <1>3

\* A step that ends the build and leaves at most a directory without a manifest.
LEMMA EndingKeeps ==
    ASSUME IInv, NEW b \in Builders, job[b].pc # "idle", Finish(b), contended' = contended,
           DOMAIN dir' = BuildIds, \A i \in BuildIds \ {job[b].id} : dir'[i] = dir[i],
           Good(job[b], dir[job[b].id]) => Aligned(dir'[job[b].id])
    PROVE  IInv'
<1>1. JobOK(b)' /\ job'[b].id = None
    BY Ending
<1>2. Step(b)
    BY DEF Step, Finish, IInv
<1> QED BY <1>1, <1>2, StepKeeps

LEMMA MakeDirKeeps ==
    ASSUME IInv, NEW b \in Builders, MakeDir(b)
    PROVE  IInv'
<1>1. job[b].pc = "mkdir" /\ contended' = contended /\ job[b].id \in BuildIds
    BY DEF MakeDir, IInv, JobOK
<1>2. CASE Finish(b) /\ UNCHANGED dir
    BY <1>1, <1>2, EndingKeeps DEF IInv, Good
<1>3. CASE /\ Goto(b, "saveIndex")
           /\ dir' = IF dir[job[b].id] # None THEN dir
                     ELSE [dir EXCEPT ![job[b].id] = [idx |-> None, meta |-> None, man |-> None]]
    <2>1. /\ JobOK(b)' /\ DOMAIN job' = Builders /\ \A c \in Builders \ {b} : job'[c] = job[c]
          /\ job'[b].pc = "saveIndex" /\ job'[b].id = job[b].id
        BY <1>1, <1>3, Moving DEF Goto
    <2>2. Step(b)
        BY <1>1, <1>3, <2>1 DEF Step, IInv
    <2>3. ASSUME Good(job[b], dir[job[b].id]) PROVE Good(job'[b], dir'[job[b].id])
        <3>1. dir[job[b].id] = None
            BY <1>1, <2>3 DEF Good, Stage, Early
        <3>2. dir'[job[b].id] = [idx |-> None, meta |-> None, man |-> None]
            BY <1>1, <1>3, <3>1 DEF IInv
        <3>3. IsDir(dir'[job[b].id]) /\ dir'[job[b].id].man = None
            BY <3>2 DEF IsDir, DirFields
        <3> QED BY <2>1, <3>3 DEF Good, Stage, Aligned, Early, Writing, Recorded
    <2> QED BY <1>1, <2>1, <2>2, <2>3, StepKeeps DEF Good
<1> QED BY <1>2, <1>3 DEF MakeDir

LEMMA SaveKeeps ==
    ASSUME IInv, NEW b \in Builders, SaveIndex(b) \/ SaveMeta(b)
    PROVE  IInv'
<1> DEFINE k == job[b].id
<1>1. /\ contended' = contended /\ k \in BuildIds /\ job[b].pc \in {"saveIndex", "saveMeta"}
      /\ job[b].vectors = job[b].indexed
    BY DEF SaveIndex, SaveMeta, IInv, JobOK
<1>2. CASE SaveIndex(b)
    <2>1. /\ JobOK(b)' /\ DOMAIN job' = Builders /\ \A c \in Builders \ {b} : job'[c] = job[c]
          /\ job'[b].pc = "saveMeta" /\ job'[b].id = k /\ job'[b].vectors = job[b].vectors
        BY <1>1, <1>2, Moving DEF SaveIndex, Goto
    <2>2. DOMAIN dir' = BuildIds /\ dir'[k] = [dir[k] EXCEPT !.idx = job[b].vectors]
        BY <1>1, <1>2 DEF SaveIndex, IInv
    <2>3. Step(b)
        BY <1>1, <1>2, <2>1, <2>2 DEF SaveIndex, Step, IInv
    <2>4. ASSUME Good(job[b], dir[k]) PROVE Good(job'[b], dir'[k])
        <3>1. IsDir(dir[k]) /\ dir[k].man = None
            BY <1>1, <2>4 DEF Good, Stage, Writing
        <3>2. IsDir(dir'[k]) /\ dir'[k].man = None /\ dir'[k].idx = job[b].vectors
            BY <2>2, <3>1 DEF IsDir, DirFields
        <3> QED BY <2>1, <3>2 DEF Good, Stage, Aligned, Early, Writing, Recorded
    <2> QED BY <1>1, <2>1, <2>3, <2>4, StepKeeps DEF Good
<1>3. CASE SaveMeta(b)
    <2>1. /\ JobOK(b)' /\ DOMAIN job' = Builders /\ \A c \in Builders \ {b} : job'[c] = job[c]
          /\ job'[b].pc = "hash" /\ job'[b].id = k /\ job'[b].vectors = job[b].vectors
        BY <1>1, <1>3, Moving DEF SaveMeta, Goto
    <2>2. DOMAIN dir' = BuildIds /\ dir'[k] = [dir[k] EXCEPT !.meta = job[b].vectors]
        BY <1>1, <1>3 DEF SaveMeta, IInv
    <2>3. Step(b)
        BY <1>1, <1>3, <2>1, <2>2 DEF SaveMeta, Step, IInv
    <2>4. ASSUME Good(job[b], dir[k]) PROVE Good(job'[b], dir'[k])
        <3>1. IsDir(dir[k]) /\ dir[k].man = None /\ dir[k].idx = job[b].vectors
            BY <1>3, <2>4 DEF SaveMeta, Good, Stage, Writing
        <3>2. /\ IsDir(dir'[k]) /\ dir'[k].man = None
              /\ dir'[k].idx = job[b].vectors /\ dir'[k].meta = job[b].vectors
            BY <2>2, <3>1 DEF IsDir, DirFields
        <3> QED BY <2>1, <3>2 DEF Good, Stage, Aligned, Early, Writing, Recorded
    <2> QED BY <1>1, <2>1, <2>3, <2>4, StepKeeps DEF Good
<1> QED BY <1>2, <1>3

LEMMA HashKeeps ==
    ASSUME IInv, NEW b \in Builders, Hash(b)
    PROVE  IInv'
<1> DEFINE k == job[b].id
           pc == IF job[b].pc = "hash" THEN "manifest" ELSE "remanifest"
<1>1. /\ UNCHANGED <<dir, contended>> /\ k \in BuildIds /\ job[b].pc \in {"hash", "rehash"}
      /\ job' = [job EXCEPT ![b].pc = pc, ![b].hash = HashOf(dir[k])]
    BY DEF Hash, IInv, JobOK
<1>2. /\ JobOK(b)' /\ DOMAIN job' = Builders /\ \A c \in Builders \ {b} : job'[c] = job[c]
      /\ job'[b].pc = pc /\ job'[b].id = k /\ job'[b].vectors = job[b].vectors
      /\ job'[b].hash = job[b].hash => ManifestOf(job'[b]) = ManifestOf(job[b])
    BY <1>1, Moving
<1>3. job'[b].hash = HashOf(dir[k])
    BY <1>1 DEF IInv, JobOK, JobFields
<1>4. Step(b)
    BY <1>1, <1>2 DEF Step, IInv
<1>5. ASSUME Good(job[b], dir[k]) PROVE Good(job'[b], dir'[k])
    <2>1. CASE job[b].pc = "hash"
        BY <1>1, <1>2, <1>3, <1>5, <2>1 DEF Good, Stage, Early, Writing, Recorded
    <2>2. CASE job[b].pc = "rehash"
        BY <1>1, <1>2, <1>3, <1>5, <2>2 DEF Good, Stage, Early, Writing, Recorded
    <2> QED BY <1>1, <2>1, <2>2
<1> QED BY <1>1, <1>2, <1>4, <1>5, StepKeeps DEF Good

LEMMA WriteManifestKeeps ==
    ASSUME IInv, NEW b \in Builders, WriteManifest(b)
    PROVE  IInv'
<1> DEFINE k == job[b].id
<1>1. /\ contended' = contended /\ k \in BuildIds /\ job[b].pc \in {"manifest", "remanifest"}
      /\ dir' = [dir EXCEPT ![k].man = ManifestOf(job[b])]
    BY DEF WriteManifest, IInv, JobOK
<1>2. /\ DOMAIN dir' = BuildIds /\ \A i \in BuildIds \ {k} : dir'[i] = dir[i]
      /\ dir'[k] = [dir[k] EXCEPT !.man = ManifestOf(job[b])]
    BY <1>1 DEF IInv
<1>3. ASSUME Good(job[b], dir[k])
      PROVE  /\ IsDir(dir'[k]) /\ dir'[k].man = ManifestOf(job[b])
             /\ dir'[k].idx = job[b].vectors /\ dir'[k].meta = job[b].vectors
             /\ HashOf(dir'[k]) = job[b].hash
    <2>1. /\ IsDir(dir[k]) /\ job[b].hash = HashOf(dir[k])
          /\ dir[k].idx = job[b].vectors /\ dir[k].meta = job[b].vectors
        BY <1>1, <1>3 DEF Good, Stage, Writing, Recorded
    <2> QED BY <1>2, <2>1 DEF IsDir, DirFields, HashOf
<1>4. CASE job[b].pc = "remanifest"
    <2>1. Finish(b)
        BY <1>4 DEF WriteManifest
    <2>2. Good(job[b], dir[k]) => Aligned(dir'[k])
        BY <1>3 DEF Aligned
    <2> QED BY <1>1, <1>2, <2>1, <2>2, EndingKeeps
<1>5. CASE job[b].pc = "manifest"
    <2>1. /\ JobOK(b)' /\ DOMAIN job' = Builders /\ \A c \in Builders \ {b} : job'[c] = job[c]
          /\ job'[b].pc = "validate" /\ job'[b].id = k /\ job'[b].vectors = job[b].vectors
          /\ job'[b].hash = job[b].hash /\ ManifestOf(job'[b]) = ManifestOf(job[b])
        BY <1>5, Moving DEF WriteManifest, Goto
    <2>2. Step(b)
        BY <1>1, <1>2, <2>1 DEF Step
    <2>3. Good(job[b], dir[k]) => Good(job'[b], dir'[k])
        BY <1>3, <2>1 DEF Good, Stage, Aligned, Early, Writing, Recorded
    <2> QED BY <1>1, <1>5, <2>1, <2>2, <2>3, StepKeeps DEF Good
<1> QED BY <1>1, <1>4, <1>5

LEMMA ValidateKeeps ==
    ASSUME IInv, NEW b \in Builders, Validate(b)
    PROVE  IInv'
<1> DEFINE k == job[b].id
<1>1. UNCHANGED <<dir, contended>> /\ k \in BuildIds /\ job[b].pc = "validate"
    BY DEF Validate, IInv, JobOK
<1>2. CASE Finish(b)
    BY <1>1, <1>2, EndingKeeps DEF IInv, Good
<1>3. CASE Goto(b, "rehash")
    <2>1. /\ JobOK(b)' /\ DOMAIN job' = Builders /\ \A c \in Builders \ {b} : job'[c] = job[c]
          /\ job'[b].pc = "rehash" /\ job'[b].id = k /\ job'[b].vectors = job[b].vectors
          /\ job'[b].hash = job[b].hash /\ ManifestOf(job'[b]) = ManifestOf(job[b])
        BY <1>1, <1>3, Moving DEF Goto
    <2>2. Step(b)
        BY <1>1, <2>1 DEF Step, IInv
    <2>3. Good(job[b], dir[k]) => Good(job'[b], dir'[k])
        BY <1>1, <2>1 DEF Good, Stage, Early, Writing, Recorded
    <2> QED BY <1>1, <2>1, <2>2, <2>3, StepKeeps DEF Good
<1> QED BY <1>2, <1>3 DEF Validate

LEMMA DieKeeps ==
    ASSUME IInv, NEW b \in Builders, Die(b) \/ DieWriting(b)
    PROVE  IInv'
<1> DEFINE k == job[b].id
<1>1. job[b].pc # "idle" /\ Finish(b) /\ contended' = contended /\ k \in BuildIds
    BY DEF Die, DieWriting, IInv, JobOK
<1>2. CASE Die(b)
    BY <1>1, <1>2, EndingKeeps DEF Die, IInv, Good
<1>3. CASE DieWriting(b)
    <2>1. /\ DOMAIN dir' = BuildIds /\ \A i \in BuildIds \ {k} : dir'[i] = dir[i]
          /\ job[b].pc \in {"saveIndex", "saveMeta"}
          /\ \/ dir'[k] = [dir[k] EXCEPT !.idx = Torn]
             \/ dir'[k] = [dir[k] EXCEPT !.meta = Torn]
        BY <1>1, <1>3 DEF DieWriting, IInv
    <2>2. ASSUME Good(job[b], dir[k]) PROVE Aligned(dir'[k])
        <3>1. IsDir(dir[k]) /\ dir[k].man = None
            BY <2>1, <2>2 DEF Good, Stage, Writing
        <3>2. dir'[k].man = None
            BY <2>1, <3>1 DEF IsDir, DirFields
        <3> QED BY <3>2 DEF Aligned
    <2> QED BY <1>1, <2>1, <2>2, EndingKeeps
<1> QED BY <1>2, <1>3

LEMMA StartKeeps ==
    ASSUME IInv, NEW b \in Builders, NEW id \in BuildIds, NEW list, Start(b, id, list)
    PROVE  IInv'
<1> DEFINE others == {other \in Builders : job[other].id = id}
<1>1. /\ job[b].pc = "idle" /\ dir[id] = None /\ dir' = dir
      /\ contended' = [contended EXCEPT ![id] =
             IF others = {} THEN @ ELSE @ \cup {list} \cup {job[other].repos : other \in others}]
      /\ job' = [job EXCEPT ![b] = [Idle EXCEPT !.pc = "discover", !.id = id, !.repos = list]]
    BY DEF Start, MayStart
<1>2. /\ DOMAIN job' = Builders /\ \A c \in Builders \ {b} : job'[c] = job[c]
      /\ DOMAIN job'[b] = JobFields /\ job'[b].vectors = job'[b].indexed
      /\ job'[b].pc = "discover" /\ job'[b].id = id
    BY <1>1 DEF IInv, Idle, JobFields
<1>3. \A c \in Builders : JobOK(c)'
    <2> SUFFICES ASSUME NEW c \in Builders PROVE JobOK(c)'
        OBVIOUS
    <2>1. CASE c = b
        BY <1>2, <2>1 DEF JobOK
    <2>2. CASE c # b
        BY <1>2, <2>2 DEF IInv, JobOK
    <2> QED BY <2>1, <2>2
<1>4. ASSUME NEW i \in BuildIds, contended'[i] = {}
      PROVE  Exclusive(i)'
    <2>1. CASE i # id
        <3>1. Exclusive(i)
            BY <1>1, <1>4, <2>1 DEF IInv
        <3>2. \A c \in Builders : job'[c].id = i => job'[c] = job[c]
            BY <1>2, <2>1
        <3> QED BY <1>1, <3>1, <3>2 DEF Exclusive
    <2>2. CASE i = id
        <3>1. others = {}
            BY <1>1, <1>4, <2>2 DEF IInv
        <3>2. \A c \in Builders : job'[c].id = i => c = b
            BY <1>2, <2>2, <3>1
        <3>3. Stage(job'[b], dir'[i])
            BY <1>1, <1>2, <2>2 DEF Stage, Early, Writing, Recorded
        <3>4. Aligned(dir'[i])
            BY <1>1, <2>2 DEF Aligned
        <3> QED BY <3>2, <3>3, <3>4 DEF Exclusive
    <2> QED BY <2>1, <2>2
<1>5. DOMAIN dir' = BuildIds /\ DOMAIN contended' = BuildIds
    BY <1>1 DEF IInv
<1> QED BY <1>2, <1>3, <1>4, <1>5 DEF IInv
-----------------------------------------------------------------------------
LEMMA InitHolds == Init => IInv
<1> SUFFICES ASSUME Init PROVE IInv
    OBVIOUS
<1>1. \A b \in Builders : JobOK(b)
    BY DEF Init, JobOK, Idle, JobFields
<1>2. \A i \in BuildIds : Exclusive(i)
    BY NoneAssumption DEF Init, Exclusive, Aligned, Idle
<1> QED BY <1>1, <1>2 DEF Init, IInv

LEMMA NextKeeps ==
    ASSUME IInv, [Next]_vars
    PROVE  IInv'
<1>1. CASE UNCHANGED vars
    BY <1>1 DEF vars, IInv, JobOK, Exclusive, Stage, Aligned
<1>2. CASE Next
    BY <1>2, StartKeeps, DiscoverKeeps, EmbedPassKeeps, SecondChanceKeeps, MakeDirKeeps,
       SaveKeeps, HashKeeps, WriteManifestKeeps, ValidateKeeps, DieKeeps DEF Next
<1> QED BY <1>1, <1>2

LEMMA Inductive == Spec => []IInv
<1>1. IInv /\ [Next]_vars => IInv'
    BY NextKeeps
<1> QED BY <1>1, InitHolds, PTL DEF Spec

\* Row n of the vectors belongs to row n of the metadata in every validated
\* candidate whose builds ran one at a time: scripts/build_trusted_index.py.
THEOREM CandidatesAreAligned == Spec => []RowsAligned
<1>1. IInv => RowsAligned
    BY DEF IInv, Exclusive, Aligned, RowsAligned, Validates
<1> QED BY <1>1, Inductive, PTL

\* What a step does to a candidate that has validated: nothing; the second
\* manifest says what the first one did.
LEMMA Untouched ==
    ASSUME IInv, Next, NEW i \in BuildIds, Validates(dir[i]), contended[i] = {}
    PROVE  dir'[i] = dir[i]
<1>1. dir[i] # None /\ dir[i].man # None /\ Exclusive(i)
    BY DEF Validates, IInv
<1>2. ASSUME NEW b \in Builders, job[b].id = i
      PROVE  job[b].pc \notin Early \cup Writing
    BY <1>1, <1>2 DEF Exclusive, Stage
<1>3. ASSUME NEW b \in Builders, MakeDir(b) \/ SaveIndex(b) \/ SaveMeta(b) \/ DieWriting(b)
      PROVE  dir'[i] = dir[i]
    <2>1. job[b].pc \in Early \cup Writing
        BY <1>3 DEF MakeDir, SaveIndex, SaveMeta, DieWriting, Early, Writing
    <2>2. job[b].id # i
        BY <1>2, <2>1
    <2> QED BY <1>3, <2>2 DEF MakeDir, SaveIndex, SaveMeta, DieWriting, IInv
<1>4. ASSUME NEW b \in Builders, WriteManifest(b)
      PROVE  dir'[i] = dir[i]
    <2>1. dir' = [dir EXCEPT ![job[b].id].man = ManifestOf(job[b])]
        BY <1>4 DEF WriteManifest
    <2>2. CASE job[b].id # i
        BY <2>1, <2>2 DEF IInv
    <2>3. CASE job[b].id = i
        <3>1. job[b].pc \in Recorded
            BY <1>2, <1>4, <2>3 DEF WriteManifest, Writing, Recorded
        <3>2. IsDir(dir[i]) /\ dir[i].man = ManifestOf(job[b])
            BY <1>1, <2>3, <3>1 DEF Exclusive, Stage
        <3>3. dir'[i] = [dir[i] EXCEPT !.man = ManifestOf(job[b])]
            BY <2>1, <2>3 DEF IInv
        <3> QED BY <3>2, <3>3 DEF IsDir, DirFields
    <2> QED BY <2>2, <2>3
<1>5. CASE UNCHANGED dir
    BY <1>5
<1> QED BY <1>3, <1>4, <1>5 DEF Next, Start, SkipRepository, ReadRepository, EmbedPass, SecondChance, Hash, Validate, Die

\* A candidate that has validated, and whose builds ran one at a time, is not
\* written to again: scripts/build_trusted_index.py out_dir.exists().
THEOREM ValidatedStaysFrozen == Spec => ValidatedIsFrozen
<1>1. ASSUME IInv, [Next]_vars
      PROVE  \A i \in BuildIds : Validates(dir[i]) /\ contended[i] = {} =>
                 HashOf(dir'[i]) = HashOf(dir[i]) /\ Validates(dir'[i])
    <2> SUFFICES ASSUME NEW i \in BuildIds, Validates(dir[i]), contended[i] = {}
                 PROVE  dir'[i] = dir[i]
        OBVIOUS
    <2>1. CASE UNCHANGED vars
        BY <2>1 DEF vars
    <2>2. CASE Next
        BY <1>1, <2>2, Untouched
    <2> QED BY <1>1, <2>1, <2>2
<1> QED BY <1>1, Inductive, PTL DEF Spec, ValidatedIsFrozen
-----------------------------------------------------------------------------
(* Complete candidates                                                     *)
(*                                                                         *)
(* A build accounts for every chunk it discovered, and discovers no more   *)
(* than its repositories hold.  If all builds under an id have one list    *)
(* (Together), the metadata on disk is a part of what that list names,     *)
(* without repetitions, and a CLEAN manifest counts all of it.  With the   *)
(* same counts, the part is the whole.                                     *)

After == Writing \cup Recorded

NoRepeats(s) == \A m, n \in DOMAIN s : s[m] = s[n] => m = n

\* The chunks of the repositories of a list before the n-th.
Seen(list, n) == {c \in Chunks : \E k \in 1 .. n - 1 : c \in ToSet(Corpus[list[k]])}

\* No chunk is lost between the two lists, or on both, or embedded twice.
Accounted(j) ==
    /\ j.indexed \in Seq(Chunks) /\ NoRepeats(j.indexed)
    /\ ToSet(j.indexed) \cup j.failed = ToSet(j.metadata)
    /\ ToSet(j.indexed) \cap j.failed = {}

JobFacts(j) ==
    j.pc # "idle" =>
        /\ j.repos \in RepoLists /\ j.next \in 1 .. Len(j.repos) + 1
        /\ j.missing \in BOOLEAN /\ j.failures \in BOOLEAN
        /\ j.metadata \in Seq(Chunks) /\ ToSet(j.metadata) \subseteq Seen(j.repos, j.next)
        /\ ~j.missing /\ ~j.failures => Seen(j.repos, j.next) \subseteq ToSet(j.metadata)
        /\ j.pc # "discover" => j.next = Len(j.repos) + 1 /\ Accounted(j)

\* metadata.pkl holds some of the chunks of a list, none twice, and a CLEAN
\* manifest counts all of them.
PartOf(s, list) == s \in Seq(Chunks) /\ NoRepeats(s) /\ ToSet(s) \subseteq Wanted(list)

CountsAll(m, list) ==
    m.status = "CLEAN" =>
        \E all \in Seq(Chunks) : ToSet(all) = Wanted(list) /\ m.counts = Counts(all)

DirFacts(d, list) ==
    /\ IsDir(d)
    /\ d.meta \in {None, Torn} \/ PartOf(d.meta, list)
    /\ d.man # None => d.man.repos = list /\ CountsAll(d.man, list)

Written(i) == dir[i] # None \/ \E b \in Builders : job[b].id = i /\ job[b].pc \in After

Together(i, list) ==
    /\ \A b \in Builders : job[b].id = i => job[b].repos = list
    /\ Written(i) => DirFacts(dir[i], list)

OneList(i) == \A l, m \in contended[i] : l = m

CInv ==
    /\ IInv
    /\ \A b \in Builders : JobFacts(job[b])
    /\ \A i \in BuildIds : OneList(i) => \E list : Together(i, list)
-----------------------------------------------------------------------------
(* What the loops over lists of chunks keep of them *)

LEMMA Elements ==
    ASSUME NEW s \in Seq(Chunks)
    PROVE  /\ ToSet(s) = {s[i] : i \in DOMAIN s}
           /\ ToSet(s) \subseteq Chunks
BY DEF ToSet

\* What is chosen by its elements.
LEMMA Filtered ==
    ASSUME NEW s \in Seq(Chunks), NEW S, NEW t,
           \/ t = Keep(s, S)
           \/ t = Drop(s, S)
    PROVE  /\ t \in Seq(Chunks)
           /\ t = Keep(s, S) => ToSet(t) = ToSet(s) \cap S
           /\ t = Drop(s, S) => ToSet(t) = ToSet(s) \ S
           /\ NoRepeats(s) => NoRepeats(t)
<1>1. ASSUME NEW I \in SUBSET (DOMAIN s), t = Chosen(s, I)
      PROVE  /\ t \in Seq(Chunks) /\ ToSet(t) = {s[i] : i \in I}
             /\ NoRepeats(s) => NoRepeats(t)
    <2>1. t \in Seq(Chunks)
        BY <1>1, ChosenFacts
    <2>2. {t[n] : n \in DOMAIN t} = {s[i] : i \in I}
        <3>1. {Chosen(s, I)[n] : n \in DOMAIN Chosen(s, I)} = {s[i] : i \in I}
            BY ChosenElements
        <3> QED BY <1>1, <3>1, Zenon
    <2>3. NoRepeats(s) => NoRepeats(t)
        <3>1. SUFFICES ASSUME NoRepeats(s) PROVE NoRepeats(t)
            OBVIOUS
        <3>2. \A i, j \in I : s[i] = s[j] => i = j
            BY <3>1 DEF NoRepeats
        <3>3. \A m, n \in DOMAIN t : t[m] = t[n] => m = n
            BY <1>1, <3>2, ChosenOnce
        <3> QED BY <3>3 DEF NoRepeats
    <2> QED BY <2>1, <2>2, <2>3 DEF ToSet
<1> DEFINE K == {i \in DOMAIN s : s[i] \in S}
           D == {i \in DOMAIN s : s[i] \notin S}
<1>2. K \in SUBSET (DOMAIN s) /\ D \in SUBSET (DOMAIN s)
    OBVIOUS
<1>3. {s[i] : i \in K} = ToSet(s) \cap S /\ {s[i] : i \in D} = ToSet(s) \ S
    BY DEF ToSet
<1>4. Keep(s, S) = Chosen(s, K) /\ Drop(s, S) = Chosen(s, D)
    BY DEF Keep, Drop
<1> HIDE DEF K, D
<1> QED BY <1>1, <1>2, <1>3, <1>4

LEMMA Kept ==
    ASSUME NEW s \in Seq(Chunks), NEW S
    PROVE  /\ Keep(s, S) \in Seq(Chunks) /\ ToSet(Keep(s, S)) = ToSet(s) \cap S
           /\ NoRepeats(s) => NoRepeats(Keep(s, S))
BY Filtered

LEMMA Dropped ==
    ASSUME NEW s \in Seq(Chunks), NEW S
    PROVE  /\ Drop(s, S) \in Seq(Chunks) /\ ToSet(Drop(s, S)) = ToSet(s) \ S
           /\ NoRepeats(s) => NoRepeats(Drop(s, S))
BY Filtered

LEMMA Concatenated ==
    ASSUME NEW s \in Seq(Chunks), NEW t \in Seq(Chunks)
    PROVE  /\ s \o t \in Seq(Chunks)
           /\ ToSet(s \o t) = ToSet(s) \cup ToSet(t)
           /\ NoRepeats(s) /\ NoRepeats(t) /\ ToSet(s) \cap ToSet(t) = {} => NoRepeats(s \o t)
<1> DEFINE u == s \o t
<1>1. /\ u \in Seq(Chunks) /\ DOMAIN u = 1 .. Len(s) + Len(t)
      /\ Len(s) \in Nat /\ Len(t) \in Nat /\ DOMAIN s = 1 .. Len(s) /\ DOMAIN t = 1 .. Len(t)
      /\ \A i \in DOMAIN u : u[i] = IF i <= Len(s) THEN s[i] ELSE t[i - Len(s)]
    OBVIOUS
<1> HIDE DEF u
<1>2. ASSUME NEW i \in DOMAIN u
      PROVE  \/ i \in DOMAIN s /\ u[i] = s[i]
             \/ i - Len(s) \in DOMAIN t /\ u[i] = t[i - Len(s)]
    BY <1>1
<1>3. ASSUME NEW i \in DOMAIN s PROVE i \in DOMAIN u /\ u[i] = s[i]
    BY <1>1
<1>4. ASSUME NEW i \in DOMAIN t PROVE Len(s) + i \in DOMAIN u /\ u[Len(s) + i] = t[i]
    BY <1>1
<1>5. ToSet(u) = ToSet(s) \cup ToSet(t)
    BY <1>2, <1>3, <1>4 DEF ToSet
<1>6. ASSUME NoRepeats(s), NoRepeats(t), ToSet(s) \cap ToSet(t) = {},
             NEW m \in DOMAIN u, NEW n \in DOMAIN u, u[m] = u[n]
      PROVE  m = n
    <2>1. m \in Nat /\ n \in Nat /\ Len(s) \in Nat
        BY <1>1
    <2>2. \A i \in DOMAIN s : \A j \in DOMAIN t : s[i] # t[j]
        BY <1>6 DEF ToSet
    <2>3. CASE m \in DOMAIN s /\ u[m] = s[m] /\ n \in DOMAIN s /\ u[n] = s[n]
        BY <1>6, <2>3 DEF NoRepeats
    <2>4. CASE /\ m - Len(s) \in DOMAIN t /\ u[m] = t[m - Len(s)]
               /\ n - Len(s) \in DOMAIN t /\ u[n] = t[n - Len(s)]
        <3>1. m - Len(s) = n - Len(s)
            BY <1>6, <2>4 DEF NoRepeats
        <3> QED BY <2>1, <3>1
    <2> QED BY <1>2, <1>6, <2>2, <2>3, <2>4
<1> QED BY <1>1, <1>5, <1>6 DEF NoRepeats, u

LEMMA DedupedFacts ==
    ASSUME NEW s \in Seq(Chunks)
    PROVE  Deduped(s) \in Seq(Chunks) /\ ToSet(Deduped(s)) = ToSet(s) /\ NoRepeats(Deduped(s))
BY DistinctFacts DEF Deduped, ToSet, NoRepeats

\* Discovery goes through the list from its first repository to its last.
LEMMA SeenGrows ==
    ASSUME NEW list \in RepoLists
    PROVE  /\ Seen(list, 1) = {}
           /\ \A n \in 1 .. Len(list) :
                  Corpus[list[n]] \in Seq(Chunks)
                  /\ Seen(list, n + 1) = Seen(list, n) \cup ToSet(Corpus[list[n]])
           /\ Seen(list, Len(list) + 1) = Wanted(list)
<1>1. list \in Seq(Repos) /\ Len(list) \in Nat /\ DOMAIN list = 1 .. Len(list)
    BY ListAssumption
<1>2. \A n \in 1 .. Len(list) :
          Corpus[list[n]] \in Seq(Chunks) /\ ToSet(Corpus[list[n]]) \subseteq Chunks
    <2> TAKE n \in 1 .. Len(list)
    <2>1. Corpus[list[n]] \in Seq(Chunks)
        BY <1>1, CorpusAssumption
    <2> QED BY <2>1, Elements
<1>3. Seen(list, 1) = {}
    BY DEF Seen
<1>4. ASSUME NEW n \in 1 .. Len(list)
      PROVE  Seen(list, n + 1) = Seen(list, n) \cup ToSet(Corpus[list[n]])
    <2>1. \A k : k \in 1 .. (n + 1) - 1 <=> k \in 1 .. n - 1 \/ k = n
        BY <1>1
    <2> QED BY <1>2, <2>1 DEF Seen
<1>5. Seen(list, Len(list) + 1) = Wanted(list)
    <2>1. (Len(list) + 1) - 1 = Len(list)
        BY <1>1
    <2>2. ToSet(list) = {list[k] : k \in 1 .. Len(list)}
        BY <1>1 DEF ToSet
    <2> QED BY <1>2, <2>1, <2>2 DEF Seen, Wanted
<1> QED BY <1>2, <1>3, <1>4, <1>5
-----------------------------------------------------------------------------
(* One lemma for each step, beside IInv *)

LEMMA CompleteKeeps ==
    ASSUME CInv, IInv', NEW b \in Builders, Step(b), job[b].pc # "idle", JobFacts(job'[b]),
           NEW k, k = job[b].id, NEW list, list = job[b].repos,
           job'[b].id = None \/ (job'[b].id = k /\ job'[b].repos = list),
           (Written(k) => DirFacts(dir[k], list)) => (Written(k)' => DirFacts(dir'[k], list))
    PROVE  CInv'
<1>1. k \in BuildIds /\ None \notin BuildIds
    BY NoneAssumption DEF CInv, IInv, JobOK
<1>2. /\ \A c \in Builders \ {b} : job'[c] = job[c]
      /\ \A i \in BuildIds \ {k} : dir'[i] = dir[i]
      /\ contended' = contended
    BY DEF Step
<1>3. \A c \in Builders : JobFacts(job'[c])
    BY <1>2 DEF CInv
<1>4. ASSUME NEW i \in BuildIds, OneList(i)' PROVE \E l : Together(i, l)'
    <2>1. PICK l : Together(i, l)
        BY <1>2, <1>4 DEF CInv, OneList
    <2>2. CASE i # k
        <3>1. \A c \in Builders : job'[c].id = i => job'[c] = job[c]
            BY <1>1, <1>2, <2>2
        <3>2. dir'[i] = dir[i]
            BY <1>2, <2>2
        <3>3. Written(i)' => Written(i)
            BY <3>1, <3>2 DEF Written
        <3> QED BY <2>1, <3>1, <3>2, <3>3 DEF Together
    <2>3. CASE i = k
        <3>1. l = list /\ (Written(k) => DirFacts(dir[k], list))
            BY <2>1, <2>3 DEF Together
        <3>2. Written(k)' => DirFacts(dir'[k], list)
            BY <3>1
        <3>3. \A c \in Builders : job'[c].id = k => job'[c].repos = list
            BY <1>1, <1>2, <2>1, <2>3, <3>1 DEF Together
        <3> QED BY <2>3, <3>1, <3>2, <3>3 DEF Together
    <2> QED BY <2>2, <2>3
<1> QED BY <1>3, <1>4 DEF CInv

\* A step that writes nothing.
LEMMA NotWriting ==
    ASSUME CInv, IInv', NEW b \in Builders, UNCHANGED <<dir, contended>>, job[b].pc # "idle",
           DOMAIN job' = Builders, \A c \in Builders \ {b} : job'[c] = job[c],
           JobFacts(job'[b]), job'[b].pc \in After => job[b].pc \in After,
           job'[b].id = None \/ (job'[b].id = job[b].id /\ job'[b].repos = job[b].repos)
    PROVE  CInv'
<1>1. PICK k : k = job[b].id
    OBVIOUS
<1>2. PICK list : list = job[b].repos
    OBVIOUS
<1>3. Step(b)
    BY DEF Step, CInv, IInv
<1>4. k \in BuildIds /\ None \notin BuildIds
    BY <1>1, NoneAssumption DEF CInv, IInv, JobOK
<1>5. Written(k)' => Written(k)
    BY <1>1, <1>4 DEF Written
<1>6. (Written(k) => DirFacts(dir[k], list)) => (Written(k)' => DirFacts(dir'[k], list))
    BY <1>5
<1>7. job'[b].id = None \/ (job'[b].id = k /\ job'[b].repos = list)
    BY <1>1, <1>2
<1> QED BY <1>1, <1>2, <1>3, <1>6, <1>7, CompleteKeeps

\* A build that ends leaves nothing to say of it.
LEMMA Ended ==
    ASSUME CInv, NEW b \in Builders, Finish(b)
    PROVE  /\ job'[b].id = None /\ job'[b].pc = "idle" /\ JobFacts(job'[b])
           /\ DOMAIN job' = Builders /\ \A c \in Builders \ {b} : job'[c] = job[c]
<1>1. job'[b] = Idle /\ DOMAIN job' = Builders /\ \A c \in Builders \ {b} : job'[c] = job[c]
    BY DEF Finish, CInv, IInv
<1>2. Idle.pc = "idle" /\ Idle.id = None
    BY DEF Idle
<1> QED BY <1>1, <1>2 DEF JobFacts

\* A later step of the build, which keeps what was discovered and embedded.
LEMMA Later ==
    ASSUME CInv, NEW b \in Builders, job[b].pc \notin {"idle", "discover"},
           NEW pc, pc \notin {"idle", "discover"},
           \/ job' = [job EXCEPT ![b].pc = pc]
           \/ \E h : job' = [job EXCEPT ![b].pc = pc, ![b].hash = h]
    PROVE  /\ job'[b].pc = pc /\ JobFacts(job'[b])
           /\ job'[b].id = job[b].id /\ job'[b].repos = job[b].repos
           /\ DOMAIN job' = Builders /\ \A c \in Builders \ {b} : job'[c] = job[c]
<1>1. /\ DOMAIN job' = Builders /\ \A c \in Builders \ {b} : job'[c] = job[c]
      /\ job'[b].pc = pc /\ job'[b].id = job[b].id
      /\ job'[b].indexed = job[b].indexed /\ job'[b].repos = job[b].repos
      /\ job'[b].failed = job[b].failed /\ job'[b].failures = job[b].failures
      /\ job'[b].missing = job[b].missing /\ job'[b].metadata = job[b].metadata
      /\ job'[b].next = job[b].next
    BY DEF CInv, IInv, JobOK, JobFields
<1>2. JobFacts(job[b])
    BY DEF CInv
<1>3. JobFacts(job'[b])
    BY <1>1, <1>2, Zenon DEF JobFacts, Accounted
<1> QED BY <1>1, <1>3

LEMMA SkipComplete ==
    ASSUME CInv, IInv', NEW b \in Builders, SkipRepository(b)
    PROVE  CInv'
<1> DEFINE j == job'[b]
<1>1. /\ job[b].pc = "discover" /\ job[b].next <= Len(job[b].repos)
      /\ UNCHANGED <<dir, contended>>
      /\ job' = [job EXCEPT ![b].missing = TRUE, ![b].next = job[b].next + 1]
      /\ DOMAIN job = Builders /\ DOMAIN job[b] = JobFields
    BY DEF SkipRepository, CInv, IInv, JobOK
<1>2. /\ DOMAIN job' = Builders /\ \A c \in Builders \ {b} : job'[c] = job[c]
      /\ j.pc = "discover" /\ j.id = job[b].id /\ j.repos = job[b].repos
      /\ j.next = job[b].next + 1 /\ j.metadata = job[b].metadata
      /\ j.failures = job[b].failures
    BY <1>1 DEF JobFields
<1>3. j.missing = TRUE
    BY <1>1 DEF JobFields
<1>4. /\ job[b].repos \in RepoLists /\ job[b].next \in 1 .. Len(job[b].repos) + 1
      /\ job[b].failures \in BOOLEAN /\ job[b].metadata \in Seq(Chunks)
      /\ ToSet(job[b].metadata) \subseteq Seen(job[b].repos, job[b].next)
    BY <1>1 DEF CInv, JobFacts
<1>5. Len(job[b].repos) \in Nat
    BY <1>4, ListAssumption
<1>6. job[b].next \in 1 .. Len(job[b].repos) /\ j.next \in 1 .. Len(j.repos) + 1
    BY <1>1, <1>2, <1>4, <1>5
<1>7. ToSet(j.metadata) \subseteq Seen(j.repos, j.next)
    BY <1>2, <1>4, <1>6, SeenGrows
<1> HIDE DEF j
<1>8. JobFacts(j)
    BY <1>2, <1>3, <1>4, <1>6, <1>7, Zenon DEF JobFacts
<1>9. j.pc \notin After
    BY <1>2 DEF After, Writing, Recorded
<1>10. job[b].pc # "idle"
    BY <1>1
<1> QED BY <1>1, <1>2, <1>8, <1>9, <1>10, NotWriting DEF j

LEMMA ReadComplete ==
    ASSUME CInv, IInv', NEW b \in Builders, NEW unreadable, ReadRepository(b, unreadable)
    PROVE  CInv'
<1> DEFINE j == job'[b]
           found == Corpus[job[b].repos[job[b].next]]
           read == Drop(found, unreadable)
<1>1. /\ job[b].pc = "discover" /\ job[b].next <= Len(job[b].repos)
      /\ UNCHANGED <<dir, contended>>
      /\ job' = [job EXCEPT ![b] = [job[b] EXCEPT !.next = job[b].next + 1,
                                        !.failures = job[b].failures \/ unreadable # {},
                                        !.metadata = job[b].metadata \o read]]
      /\ DOMAIN job = Builders /\ DOMAIN job[b] = JobFields
    BY DEF ReadRepository, CInv, IInv, JobOK
<1>2. PICK failures : failures = (job[b].failures \/ unreadable # {})
    OBVIOUS
<1> HIDE DEF read
<1>3. /\ DOMAIN job' = Builders /\ \A c \in Builders \ {b} : job'[c] = job[c]
      /\ j.pc = "discover" /\ j.id = job[b].id /\ j.repos = job[b].repos
      /\ j.next = job[b].next + 1 /\ j.metadata = job[b].metadata \o read
      /\ j.missing = job[b].missing /\ j.failures = failures
    BY <1>1, <1>2 DEF JobFields
<1>4. /\ job[b].repos \in RepoLists /\ job[b].next \in 1 .. Len(job[b].repos) + 1
      /\ job[b].missing \in BOOLEAN /\ job[b].failures \in BOOLEAN /\ job[b].metadata \in Seq(Chunks)
      /\ ToSet(job[b].metadata) \subseteq Seen(job[b].repos, job[b].next)
      /\ ~job[b].missing /\ ~job[b].failures =>
             Seen(job[b].repos, job[b].next) \subseteq ToSet(job[b].metadata)
    BY <1>1 DEF CInv, JobFacts
<1>5. Len(job[b].repos) \in Nat
    BY <1>4, ListAssumption
<1>6. job[b].next \in 1 .. Len(job[b].repos) /\ j.next \in 1 .. Len(j.repos) + 1
    BY <1>1, <1>3, <1>4, <1>5
<1>7. /\ found \in Seq(Chunks)
      /\ Seen(j.repos, j.next) = Seen(job[b].repos, job[b].next) \cup ToSet(found)
    BY <1>3, <1>4, <1>6, SeenGrows
<1>8. read \in Seq(Chunks) /\ ToSet(read) = ToSet(found) \ unreadable
    BY <1>7, Dropped DEF read
<1>9. j.metadata \in Seq(Chunks) /\ ToSet(j.metadata) = ToSet(job[b].metadata) \cup ToSet(read)
    BY <1>3, <1>4, <1>8, Concatenated
<1>10. ToSet(j.metadata) \subseteq Seen(j.repos, j.next)
    BY <1>4, <1>7, <1>8, <1>9
<1>11. failures \in BOOLEAN /\ (~failures => unreadable = {} /\ ~job[b].failures)
    BY <1>2, Zenon
<1>12. ASSUME ~j.missing, ~j.failures PROVE Seen(j.repos, j.next) \subseteq ToSet(j.metadata)
    <2>1. ~job[b].missing /\ ~job[b].failures /\ unreadable = {}
        BY <1>3, <1>11, <1>12, Zenon
    <2>2. Seen(job[b].repos, job[b].next) \subseteq ToSet(job[b].metadata) /\ unreadable = {}
        BY <1>4, <2>1, Zenon
    <2> QED BY <1>7, <1>8, <1>9, <2>2
<1> HIDE DEF j
<1>13. j.missing \in BOOLEAN /\ j.failures \in BOOLEAN
    BY <1>3, <1>4, <1>11, Zenon
<1>14. j.pc = "discover" /\ j.repos \in RepoLists
    BY <1>3, <1>4
<1>15. JobFacts(j)
    BY <1>6, <1>9, <1>10, <1>12, <1>13, <1>14, Zenon DEF JobFacts
<1>16. j.pc \notin After
    BY <1>3 DEF After, Writing, Recorded
<1>17. job[b].pc # "idle"
    BY <1>1
<1> QED BY <1>1, <1>3, <1>15, <1>16, <1>17, NotWriting DEF j

\* The two passes of the embedding: what they do to the job.
LEMMA EmbeddingComplete ==
    ASSUME CInv, IInv', NEW b \in Builders, job[b].pc # "idle", UNCHANGED <<dir, contended>>,
           job[b].next = Len(job[b].repos) + 1,
           NEW pc, pc \in {"retry", "mkdir"}, NEW failed, NEW vectors, NEW indexed,
           job' = [job EXCEPT ![b] = [job[b] EXCEPT !.pc = pc, !.failed = failed,
                                          !.vectors = vectors, !.indexed = indexed]],
           indexed \in Seq(Chunks), NoRepeats(indexed),
           ToSet(indexed) \cup failed = ToSet(job[b].metadata), ToSet(indexed) \cap failed = {}
    PROVE  CInv'
<1> DEFINE j == job'[b]
<1>1. /\ DOMAIN job' = Builders /\ \A c \in Builders \ {b} : job'[c] = job[c]
      /\ j.pc = pc /\ j.id = job[b].id /\ j.repos = job[b].repos /\ j.next = job[b].next
      /\ j.metadata = job[b].metadata /\ j.missing = job[b].missing
      /\ j.failures = job[b].failures /\ j.failed = failed /\ j.indexed = indexed
    BY DEF CInv, IInv, JobOK, JobFields
<1> HIDE DEF j
<1>2. JobFacts(job[b])
    BY DEF CInv
<1>3. Accounted(j)
    BY <1>1 DEF Accounted
<1>4. JobFacts(j)
    BY <1>1, <1>2, <1>3, Zenon DEF JobFacts
<1>5. j.pc \notin After
    BY <1>1 DEF After, Writing, Recorded
<1> QED BY <1>1, <1>4, <1>5, NotWriting DEF j

LEMMA EmbedPassComplete ==
    ASSUME CInv, IInv', NEW b \in Builders, NEW F, EmbedPass(b, F)
    PROVE  CInv'
<1> DEFINE all == Deduped(job[b].metadata)
           ok == Drop(all, F)
           pc == IF F # {} THEN "retry" ELSE "mkdir"
<1>1. /\ job[b].pc = "discover" /\ job[b].next > Len(job[b].repos)
      /\ F \subseteq ToSet(job[b].metadata) /\ UNCHANGED <<dir, contended>>
      /\ job' = [job EXCEPT ![b] = [job[b] EXCEPT !.pc = pc, !.vectors = ok, !.indexed = ok, !.failed = F]]
    BY DEF EmbedPass
<1>2. /\ job[b].repos \in RepoLists /\ job[b].next \in 1 .. Len(job[b].repos) + 1
      /\ job[b].metadata \in Seq(Chunks)
    BY <1>1 DEF CInv, JobFacts
<1>3. job[b].next = Len(job[b].repos) + 1
    <2>1. Len(job[b].repos) \in Nat
        BY <1>2, ListAssumption
    <2> QED BY <1>1, <1>2, <2>1
<1>4. all \in Seq(Chunks) /\ ToSet(all) = ToSet(job[b].metadata) /\ NoRepeats(all)
    BY <1>2, DedupedFacts
<1> HIDE DEF all
<1>5. ok \in Seq(Chunks) /\ ToSet(ok) = ToSet(all) \ F /\ NoRepeats(ok)
    BY <1>4, Dropped
<1> HIDE DEF ok, pc
<1>6. pc \in {"retry", "mkdir"}
    BY DEF pc
<1>7. /\ ToSet(ok) \cup F = ToSet(job[b].metadata) /\ ToSet(ok) \cap F = {}
      /\ job[b].pc # "idle"
    BY <1>1, <1>4, <1>5
<1>8. job' = [job EXCEPT ![b] = [job[b] EXCEPT !.pc = pc, !.failed = F, !.vectors = ok, !.indexed = ok]]
    BY <1>1 DEF CInv, IInv, JobOK, JobFields
<1> QED BY <1>1, <1>3, <1>5, <1>6, <1>7, <1>8, EmbeddingComplete

LEMMA SecondChanceComplete ==
    ASSUME CInv, IInv', NEW b \in Builders, NEW F, SecondChance(b, F)
    PROVE  CInv'
<1> DEFINE all == Deduped(job[b].metadata)
           again == Keep(all, job[b].failed)
           recovered == Drop(again, F)
           vectors == job[b].vectors \o recovered
           indexed == job[b].indexed \o recovered
<1>1. /\ job[b].pc = "retry" /\ F \subseteq job[b].failed /\ UNCHANGED <<dir, contended>>
      /\ job' = [job EXCEPT ![b] = [job[b] EXCEPT !.pc = "mkdir", !.failed = F,
                                        !.vectors = vectors, !.indexed = indexed]]
    BY DEF SecondChance, FinalFailures, WithRecovered
<1>2. /\ job[b].next = Len(job[b].repos) + 1 /\ job[b].metadata \in Seq(Chunks)
      /\ job[b].indexed \in Seq(Chunks) /\ NoRepeats(job[b].indexed)
      /\ ToSet(job[b].indexed) \cup job[b].failed = ToSet(job[b].metadata)
      /\ ToSet(job[b].indexed) \cap job[b].failed = {}
    BY <1>1 DEF CInv, JobFacts, Accounted
<1>3. all \in Seq(Chunks) /\ ToSet(all) = ToSet(job[b].metadata) /\ NoRepeats(all)
    BY <1>2, DedupedFacts
<1> HIDE DEF all
<1>4. again \in Seq(Chunks) /\ ToSet(again) = ToSet(all) \cap job[b].failed /\ NoRepeats(again)
    BY <1>3, Kept
<1> HIDE DEF again
<1>5. recovered \in Seq(Chunks) /\ ToSet(recovered) = ToSet(again) \ F /\ NoRepeats(recovered)
    BY <1>4, Dropped
<1> HIDE DEF recovered, vectors
<1>6. ToSet(job[b].indexed) \cap ToSet(recovered) = {}
    BY <1>2, <1>4, <1>5
<1>7. /\ indexed \in Seq(Chunks) /\ NoRepeats(indexed)
      /\ ToSet(indexed) = ToSet(job[b].indexed) \cup ToSet(recovered)
    BY <1>2, <1>5, <1>6, Concatenated
<1> HIDE DEF indexed
<1>8. /\ ToSet(indexed) \cup F = ToSet(job[b].metadata) /\ ToSet(indexed) \cap F = {}
      /\ job[b].pc # "idle"
    BY <1>1, <1>2, <1>3, <1>4, <1>5, <1>7
<1> QED BY <1>1, <1>2, <1>7, <1>8, EmbeddingComplete

\* What a job about to write has embedded, and what its manifest will say.
LEMMA JobIsPart ==
    ASSUME NEW j, JobFacts(j), j.pc \notin {"idle", "discover"}
    PROVE  /\ j.repos \in RepoLists
           /\ PartOf(j.indexed, j.repos)
           /\ ManifestOf(j).repos = j.repos /\ CountsAll(ManifestOf(j), j.repos)
<1>1. /\ j.repos \in RepoLists /\ j.next = Len(j.repos) + 1 /\ Accounted(j)
      /\ j.missing \in BOOLEAN /\ j.failures \in BOOLEAN
      /\ j.metadata \in Seq(Chunks) /\ ToSet(j.metadata) \subseteq Seen(j.repos, j.next)
      /\ ~j.missing /\ ~j.failures => Seen(j.repos, j.next) \subseteq ToSet(j.metadata)
    BY Zenon DEF JobFacts
<1>2. Seen(j.repos, j.next) = Wanted(j.repos)
    BY <1>1, SeenGrows
<1>3. PartOf(j.indexed, j.repos)
    BY <1>1, <1>2 DEF PartOf, Accounted
<1>4. /\ ManifestOf(j).repos = j.repos /\ ManifestOf(j).status = StatusOf(j)
      /\ ManifestOf(j).counts = Counts(j.metadata)
    BY DEF ManifestOf, DeclaredCounts
<1>5. StatusOf(j) = "CLEAN" => ~j.missing /\ ~j.failures
    BY <1>1 DEF StatusOf
<1>6. StatusOf(j) = "CLEAN" => ToSet(j.metadata) = Wanted(j.repos)
    <2> SUFFICES ASSUME StatusOf(j) = "CLEAN" PROVE ToSet(j.metadata) = Wanted(j.repos)
        OBVIOUS
    <2>1. Seen(j.repos, j.next) \subseteq ToSet(j.metadata)
        BY <1>1, <1>5, Zenon
    <2> QED BY <1>1, <1>2, <2>1
<1> QED BY <1>1, <1>3, <1>4, <1>6 DEF CountsAll

\* A step that writes to the directory of the build and goes on or ends.
LEMMA WritingComplete ==
    ASSUME CInv, IInv', NEW b \in Builders, NEW k, k = job[b].id,
           job[b].pc \in After \cup {"mkdir"}, contended' = contended,
           DOMAIN job' = Builders, \A c \in Builders \ {b} : job'[c] = job[c],
           JobFacts(job'[b]),
           job'[b].id = None \/ (job'[b].id = k /\ job'[b].repos = job[b].repos),
           DOMAIN dir' = BuildIds, \A i \in BuildIds \ {k} : dir'[i] = dir[i],
           NEW list, list = job[b].repos,
           \/ job[b].pc \in After /\ (DirFacts(dir[k], list) => DirFacts(dir'[k], list))
           \/ (dir[k] # None => DirFacts(dir[k], list)) => DirFacts(dir'[k], list)
    PROVE  CInv'
<1>1. Step(b)
    BY DEF Step
<1>2. job[b].pc # "idle"
    BY DEF After, Writing, Recorded
<1>3. job[b].pc \in After => Written(k)
    BY DEF Written
<1>4. dir[k] # None => Written(k)
    BY DEF Written
<1>5. (Written(k) => DirFacts(dir[k], list)) => (Written(k)' => DirFacts(dir'[k], list))
    BY <1>3, <1>4
<1> QED BY <1>1, <1>2, <1>5, CompleteKeeps

LEMMA MakeDirComplete ==
    ASSUME CInv, IInv', NEW b \in Builders, MakeDir(b)
    PROVE  CInv'
<1>1. PICK k : k = job[b].id
    OBVIOUS
<1>2. PICK list : list = job[b].repos
    OBVIOUS
<1>3. /\ job[b].pc = "mkdir" /\ contended' = contended /\ DOMAIN dir = BuildIds /\ k \in BuildIds
      /\ job[b].pc \in After \cup {"mkdir"}
    BY <1>1 DEF MakeDir, CInv, IInv, JobOK
<1>4. CASE Finish(b) /\ UNCHANGED dir
    <2>1. /\ job'[b].id = None /\ job'[b].pc = "idle" /\ JobFacts(job'[b])
          /\ DOMAIN job' = Builders /\ \A c \in Builders \ {b} : job'[c] = job[c]
        BY <1>4, Ended
    <2>2. job'[b].pc \notin After /\ job[b].pc # "idle"
        BY <1>3, <2>1 DEF After, Writing, Recorded
    <2> QED BY <1>3, <1>4, <2>1, <2>2, NotWriting
<1>5. CASE /\ Goto(b, "saveIndex")
           /\ dir' = IF dir[k] # None THEN dir
                     ELSE [dir EXCEPT ![k] = [idx |-> None, meta |-> None, man |-> None]]
    <2>1. /\ JobFacts(job'[b]) /\ job'[b].id = k /\ job'[b].repos = list
          /\ DOMAIN job' = Builders /\ \A c \in Builders \ {b} : job'[c] = job[c]
        <3>1. PICK pc \in {"saveIndex"} : Goto(b, pc)
            BY <1>5
        <3>2. job[b].pc \notin {"idle", "discover"} /\ pc \notin {"idle", "discover"}
            BY <1>3
        <3> QED BY <1>1, <1>2, <3>1, <3>2, Later DEF Goto
    <2>2. DOMAIN dir' = BuildIds /\ \A i \in BuildIds \ {k} : dir'[i] = dir[i]
        BY <1>3, <1>5
    <2>3. (dir[k] # None => DirFacts(dir[k], list)) => DirFacts(dir'[k], list)
        <3>1. CASE dir[k] # None
            BY <1>5, <3>1
        <3>2. CASE dir[k] = None
            <4>1. dir'[k] = [idx |-> None, meta |-> None, man |-> None]
                BY <1>3, <1>5, <3>2
            <4>2. IsDir(dir'[k]) /\ dir'[k].meta = None /\ dir'[k].man = None
                BY <4>1 DEF IsDir, DirFields
            <4> QED BY <4>2 DEF DirFacts
        <3> QED BY <3>1, <3>2
    <2> QED BY <1>1, <1>2, <1>3, <2>1, <2>2, <2>3, WritingComplete
<1> QED BY <1>1, <1>4, <1>5 DEF MakeDir

LEMMA SaveComplete ==
    ASSUME CInv, IInv', NEW b \in Builders, SaveIndex(b) \/ SaveMeta(b)
    PROVE  CInv'
<1>1. PICK k : k = job[b].id
    OBVIOUS
<1>2. PICK list : list = job[b].repos
    OBVIOUS
<1>3. /\ job[b].pc \in {"saveIndex", "saveMeta"} /\ contended' = contended
      /\ DOMAIN dir = BuildIds /\ k \in BuildIds /\ job[b].pc \in After /\ JobFacts(job[b])
    BY <1>1 DEF SaveIndex, SaveMeta, CInv, IInv, JobOK, After, Writing
<1>4. PICK pc \in {"saveMeta", "hash"} : Goto(b, pc)
    BY DEF SaveIndex, SaveMeta
<1>5. /\ JobFacts(job'[b]) /\ job'[b].id = k /\ job'[b].repos = list
      /\ DOMAIN job' = Builders /\ \A c \in Builders \ {b} : job'[c] = job[c]
    <2>1. job[b].pc \notin {"idle", "discover"} /\ pc \notin {"idle", "discover"}
        BY <1>3
    <2> QED BY <1>1, <1>2, <1>4, <2>1, Later DEF Goto
<1>6. PICK rows : rows = job[b].indexed
    OBVIOUS
<1>7. PartOf(rows, list)
    BY <1>2, <1>3, <1>6, JobIsPart
<1>8. \/ \E x : dir' = [dir EXCEPT ![k].idx = x]
      \/ dir' = [dir EXCEPT ![k].meta = rows]
    BY <1>1, <1>6 DEF SaveIndex, SaveMeta
<1>9. DOMAIN dir' = BuildIds /\ \A i \in BuildIds \ {k} : dir'[i] = dir[i]
    BY <1>3, <1>8
<1>10. ASSUME DirFacts(dir[k], list) PROVE DirFacts(dir'[k], list)
    <2>1. /\ IsDir(dir[k])
          /\ \/ \E x : dir'[k] = [dir[k] EXCEPT !.idx = x]
             \/ dir'[k] = [dir[k] EXCEPT !.meta = rows]
        BY <1>3, <1>8, <1>10 DEF DirFacts
    <2>2. /\ IsDir(dir'[k]) /\ dir'[k].man = dir[k].man
          /\ dir'[k].meta \in {dir[k].meta, rows}
        BY <2>1 DEF IsDir, DirFields
    <2> QED BY <1>7, <1>10, <2>2 DEF DirFacts
<1> QED BY <1>1, <1>2, <1>3, <1>5, <1>9, <1>10, WritingComplete

LEMMA HashComplete ==
    ASSUME CInv, IInv', NEW b \in Builders, Hash(b)
    PROVE  CInv'
<1> DEFINE pc == IF job[b].pc = "hash" THEN "manifest" ELSE "remanifest"
<1>1. /\ UNCHANGED <<dir, contended>> /\ job[b].pc \in {"hash", "rehash"}
      /\ \E h : job' = [job EXCEPT ![b].pc = pc, ![b].hash = h]
    BY DEF Hash
<1>2. pc \notin {"idle", "discover"} /\ job[b].pc \notin {"idle", "discover"}
    BY <1>1
<1> HIDE DEF pc
<1>3. /\ JobFacts(job'[b]) /\ job'[b].id = job[b].id /\ job'[b].repos = job[b].repos
      /\ DOMAIN job' = Builders /\ \A c \in Builders \ {b} : job'[c] = job[c]
    BY <1>1, <1>2, Later
<1>4. job[b].pc \in After /\ job[b].pc # "idle"
    BY <1>1 DEF After, Writing, Recorded
<1> QED BY <1>1, <1>3, <1>4, NotWriting

LEMMA ManifestComplete ==
    ASSUME CInv, IInv', NEW b \in Builders, WriteManifest(b)
    PROVE  CInv'
<1>1. PICK k : k = job[b].id
    OBVIOUS
<1>2. PICK list : list = job[b].repos
    OBVIOUS
<1>3. PICK man : man = ManifestOf(job[b])
    OBVIOUS
<1>4. /\ job[b].pc \in {"manifest", "remanifest"} /\ contended' = contended
      /\ DOMAIN dir = BuildIds /\ k \in BuildIds /\ job[b].pc \in After /\ JobFacts(job[b])
      /\ dir' = [dir EXCEPT ![k].man = man]
    BY <1>1, <1>3 DEF WriteManifest, CInv, IInv, JobOK, After, Writing, Recorded
<1>5. man.repos = list /\ CountsAll(man, list)
    BY <1>2, <1>3, <1>4, JobIsPart
<1>6. DOMAIN dir' = BuildIds /\ \A i \in BuildIds \ {k} : dir'[i] = dir[i]
    BY <1>4
<1>7. ASSUME DirFacts(dir[k], list) PROVE DirFacts(dir'[k], list)
    <2>1. IsDir(dir[k]) /\ dir'[k] = [dir[k] EXCEPT !.man = man]
        BY <1>4, <1>7 DEF DirFacts
    <2>2. IsDir(dir'[k]) /\ dir'[k].man = man /\ dir'[k].meta = dir[k].meta
        BY <2>1 DEF IsDir, DirFields
    <2> QED BY <1>5, <1>7, <2>2 DEF DirFacts
<1>8. /\ JobFacts(job'[b]) /\ DOMAIN job' = Builders /\ \A c \in Builders \ {b} : job'[c] = job[c]
      /\ job'[b].id = None \/ (job'[b].id = k /\ job'[b].repos = list)
    <2>1. CASE Finish(b)
        BY <2>1, Ended
    <2>2. CASE Goto(b, "validate")
        <3>1. PICK pc \in {"validate"} : Goto(b, pc)
            BY <2>2
        <3>2. job[b].pc \notin {"idle", "discover"} /\ pc \notin {"idle", "discover"}
            BY <1>4
        <3> QED BY <1>1, <1>2, <3>1, <3>2, Later DEF Goto
    <2> QED BY <2>1, <2>2 DEF WriteManifest
<1> QED BY <1>1, <1>2, <1>4, <1>6, <1>7, <1>8, WritingComplete

LEMMA ValidateComplete ==
    ASSUME CInv, IInv', NEW b \in Builders, Validate(b)
    PROVE  CInv'
<1>1. UNCHANGED <<dir, contended>> /\ job[b].pc = "validate"
    BY DEF Validate
<1>2. job[b].pc \in After /\ job[b].pc # "idle"
    BY <1>1 DEF After, Recorded
<1>3. /\ JobFacts(job'[b]) /\ DOMAIN job' = Builders /\ \A c \in Builders \ {b} : job'[c] = job[c]
      /\ job'[b].id = None \/ (job'[b].id = job[b].id /\ job'[b].repos = job[b].repos)
    <2>1. CASE Finish(b)
        BY <2>1, Ended
    <2>2. CASE Goto(b, "rehash")
        <3>1. PICK pc \in {"rehash"} : Goto(b, pc)
            BY <2>2
        <3>2. job[b].pc \notin {"idle", "discover"} /\ pc \notin {"idle", "discover"}
            BY <1>1
        <3> QED BY <3>1, <3>2, Later DEF Goto
    <2> QED BY <2>1, <2>2 DEF Validate
<1> QED BY <1>1, <1>2, <1>3, NotWriting

LEMMA DieComplete ==
    ASSUME CInv, IInv', NEW b \in Builders, Die(b) \/ DieWriting(b)
    PROVE  CInv'
<1>1. PICK k : k = job[b].id
    OBVIOUS
<1>2. PICK list : list = job[b].repos
    OBVIOUS
<1>3. /\ job[b].pc # "idle" /\ Finish(b) /\ contended' = contended
      /\ DOMAIN dir = BuildIds /\ k \in BuildIds
    BY <1>1 DEF Die, DieWriting, CInv, IInv, JobOK
<1>4. /\ job'[b].id = None /\ job'[b].pc = "idle" /\ JobFacts(job'[b])
      /\ DOMAIN job' = Builders /\ \A c \in Builders \ {b} : job'[c] = job[c]
    BY <1>3, Ended
<1>5. CASE Die(b)
    <2>1. job'[b].pc \notin After /\ UNCHANGED <<dir, contended>>
        BY <1>4, <1>5 DEF Die, After, Writing, Recorded
    <2> QED BY <1>3, <1>4, <2>1, NotWriting
<1>6. CASE DieWriting(b)
    <2>1. /\ job[b].pc \in After
          /\ dir' = [dir EXCEPT ![k].idx = Torn] \/ dir' = [dir EXCEPT ![k].meta = Torn]
        BY <1>1, <1>6 DEF DieWriting, After, Writing
    <2>2. DOMAIN dir' = BuildIds /\ \A i \in BuildIds \ {k} : dir'[i] = dir[i]
        BY <1>3, <2>1
    <2>3. ASSUME DirFacts(dir[k], list) PROVE DirFacts(dir'[k], list)
        <3>1. /\ IsDir(dir[k])
              /\ \/ dir'[k] = [dir[k] EXCEPT !.idx = Torn]
                 \/ dir'[k] = [dir[k] EXCEPT !.meta = Torn]
            BY <1>3, <2>1, <2>3 DEF DirFacts
        <3>2. /\ IsDir(dir'[k]) /\ dir'[k].man = dir[k].man
              /\ dir'[k].meta \in {dir[k].meta, Torn}
            BY <3>1 DEF IsDir, DirFields
        <3> QED BY <2>3, <3>2 DEF DirFacts
    <2> QED BY <1>1, <1>2, <1>3, <1>4, <2>1, <2>2, <2>3, WritingComplete
<1> QED BY <1>5, <1>6

\* A new build shares its id only with builds of its own list, or the id is
\* contended by two lists.
LEMMA StartComplete ==
    ASSUME CInv, IInv', NEW b \in Builders, NEW id \in BuildIds, NEW list \in RepoLists,
           Start(b, id, list)
    PROVE  CInv'
<1> DEFINE others == {other \in Builders : job[other].id = id}
<1>1. /\ job[b].pc = "idle" /\ dir[id] = None /\ dir' = dir
      /\ contended' = [contended EXCEPT ![id] =
             IF others = {} THEN @ ELSE @ \cup {list} \cup {job[other].repos : other \in others}]
      /\ job' = [job EXCEPT ![b] = [Idle EXCEPT !.pc = "discover", !.id = id, !.repos = list]]
      /\ DOMAIN job = Builders /\ DOMAIN contended = BuildIds
    BY DEF Start, MayStart, CInv, IInv
<1>2. /\ \A c \in Builders \ {b} : job'[c] = job[c]
      /\ job'[b].pc = "discover" /\ job'[b].id = id /\ job'[b].repos = list
      /\ job'[b].next = 1 /\ job'[b].missing = FALSE /\ job'[b].failures = FALSE
      /\ job'[b].metadata = <<>>
    BY <1>1 DEF Idle
<1>3. JobFacts(job'[b])
    <2>1. Len(list) \in Nat
        BY ListAssumption
    <2>2. 1 \in 1 .. Len(list) + 1 /\ Seen(list, 1) = {}
        BY <2>1, SeenGrows
    <2>3. job'[b].metadata \in Seq(Chunks) /\ ToSet(job'[b].metadata) = {}
        BY <1>2 DEF ToSet
    <2>4. job'[b].missing \in BOOLEAN /\ job'[b].failures \in BOOLEAN
        BY <1>2, Zenon
    <2> DEFINE j == job'[b]
    <2>5. /\ j.pc = "discover" /\ j.repos = list /\ j.next = 1 /\ j.metadata \in Seq(Chunks)
          /\ ToSet(j.metadata) = {}
        BY <1>2, <2>3
    <2> HIDE DEF j
    <2>6. /\ j.repos \in RepoLists /\ j.next \in 1 .. Len(j.repos) + 1
          /\ ToSet(j.metadata) \subseteq Seen(j.repos, j.next)
          /\ Seen(j.repos, j.next) \subseteq ToSet(j.metadata)
        BY <2>2, <2>5
    <2>7. j.missing \in BOOLEAN /\ j.failures \in BOOLEAN
        BY <2>4 DEF j
    <2>8. JobFacts(j)
        BY <2>5, <2>6, <2>7, Zenon DEF JobFacts
    <2> QED BY <2>8 DEF j
<1>4. \A c \in Builders : JobFacts(job'[c])
    BY <1>2, <1>3 DEF CInv
<1>5. ASSUME NEW i \in BuildIds, OneList(i)' PROVE \E l : Together(i, l)'
    <2>1. CASE i # id
        <3>1. contended'[i] = contended[i] /\ dir'[i] = dir[i]
            BY <1>1, <2>1
        <3>2. PICK l : Together(i, l)
            BY <1>5, <3>1 DEF CInv, OneList
        <3>3. \A c \in Builders : job'[c].id = i => job'[c] = job[c]
            BY <1>2, <2>1
        <3>4. Written(i)' => Written(i)
            BY <3>1, <3>3 DEF Written
        <3> QED BY <3>1, <3>2, <3>3, <3>4 DEF Together
    <2>2. CASE i = id
        <3>1. OneList(i)
            BY <1>1, <1>5, <2>2 DEF OneList
        <3>2. \A c \in others : job[c].repos = list
            <4>1. others # {} => list \in contended'[i] /\ \A c \in others : job[c].repos \in contended'[i]
                BY <1>1, <2>2
            <4> QED BY <1>5, <4>1 DEF OneList
        <3>3. PICK l : Together(i, l)
            BY <3>1 DEF CInv
        <3>4. \A c \in Builders : job'[c].id = i => job'[c].repos = list
            BY <1>2, <2>2, <3>2
        <3>5. ASSUME Written(i)' PROVE DirFacts(dir'[i], list)
            <4>1. PICK c \in Builders : job'[c].id = i /\ job'[c].pc \in After
                BY <1>1, <2>2, <3>5 DEF Written
            <4>2. c # b
                BY <1>2, <4>1 DEF After, Writing, Recorded
            <4>3. job[c].id = i /\ job[c].pc \in After
                BY <1>2, <4>1, <4>2
            <4>4. l = list
                BY <2>2, <3>2, <3>3, <4>3 DEF Together
            <4>5. Written(i)
                BY <4>3 DEF Written
            <4> QED BY <1>1, <3>3, <4>4, <4>5 DEF Together
        <3> QED BY <3>4, <3>5 DEF Together
    <2> QED BY <2>1, <2>2
<1> QED BY <1>4, <1>5 DEF CInv
-----------------------------------------------------------------------------
LEMMA CInvInit == Init => CInv
<1> SUFFICES ASSUME Init PROVE CInv
    OBVIOUS
<1>1. IInv
    BY InitHolds
<1>2. \A b \in Builders : job[b].pc = "idle" /\ job[b].id = None
    BY DEF Init, Idle
<1>3. \A b \in Builders : JobFacts(job[b])
    BY <1>2 DEF JobFacts
<1>4. ASSUME NEW i \in BuildIds PROVE Together(i, <<>>)
    <2>1. \A b \in Builders : job[b].id # i
        BY <1>2, NoneAssumption
    <2>2. ~Written(i)
        BY <2>1 DEF Written, Init
    <2> QED BY <2>1, <2>2 DEF Together
<1> QED BY <1>1, <1>3, <1>4 DEF CInv

LEMMA CInvKept ==
    ASSUME CInv, [Next]_vars
    PROVE  CInv'
<1>1. IInv'
    BY NextKeeps DEF CInv
<1>2. CASE UNCHANGED vars
    <2>1. job' = job /\ dir' = dir /\ contended' = contended
        BY <1>2 DEF vars
    <2>2. \A i \in BuildIds : Written(i)' <=> Written(i)
        BY <2>1 DEF Written
    <2>3. \A i \in BuildIds : \A l : Together(i, l) => Together(i, l)'
        BY <2>1, <2>2 DEF Together
    <2>4. \A i \in BuildIds : OneList(i)' => OneList(i)
        BY <2>1 DEF OneList
    <2> QED BY <1>1, <2>1, <2>3, <2>4 DEF CInv
<1>3. CASE Next
    BY <1>1, <1>3, StartComplete, SkipComplete, ReadComplete, EmbedPassComplete,
       SecondChanceComplete, MakeDirComplete, SaveComplete, HashComplete, ManifestComplete,
       ValidateComplete, DieComplete DEF Next
<1> QED BY <1>2, <1>3

LEMMA CInvInductive == Spec => []CInv
<1>1. CInv /\ [Next]_vars => CInv'
    BY CInvKept
<1> QED BY <1>1, CInvInit, PTL DEF Spec

\* Every chunk that was discovered is embedded once, or is on the list of
\* failures that decides the status, never both: scripts/build_trusted_index.py
\* embed_metadata.
THEOREM ChunksAccounted == Spec => []EmbeddingAccounted
<1>1. ASSUME CInv PROVE EmbeddingAccounted
    <2> SUFFICES ASSUME NEW b \in Builders, job[b].pc \notin {"idle", "discover"}
                 PROVE  /\ ToSet(job[b].indexed) \cup job[b].failed = ToSet(job[b].metadata)
                        /\ ToSet(job[b].indexed) \cap job[b].failed = {}
                        /\ Len(job[b].indexed) = Cardinality(ToSet(job[b].indexed))
        BY DEF EmbeddingAccounted
    <2>1. Accounted(job[b])
        BY <1>1 DEF CInv, JobFacts
    <2>2. job[b].indexed \in Seq(Chunks) /\ NoRepeats(job[b].indexed)
        BY <2>1 DEF Accounted
    <2>3. Len(job[b].indexed) = Cardinality(ToSet(job[b].indexed))
        BY <2>2, LengthOfDistinct DEF ToSet, NoRepeats
    <2> QED BY <2>1, <2>3 DEF Accounted
<1> QED BY <1>1, CInvInductive, PTL

\* A part of a list of chunks without repetitions that counts as many of each
\* visibility as a listing of the whole is the whole.
LEMMA CountsDecide ==
    ASSUME NEW s \in Seq(Chunks), NEW all \in Seq(Chunks), NoRepeats(s),
           ToSet(s) \subseteq ToSet(all), Counts(s) = Counts(all)
    PROVE  ToSet(s) = ToSet(all)
<1> SUFFICES ASSUME NEW c \in ToSet(all) PROVE c \in ToSet(s)
    OBVIOUS
<1>1. PICK v \in Visibilities : v = Visibility[c]
    BY Elements, VisibilityAssumption
<1> DEFINE P == {n \in DOMAIN s : Visibility[s[n]] = v}
           Q == {n \in DOMAIN all : Visibility[all[n]] = v}
           S == {d \in ToSet(s) : Visibility[d] = v}
           A == {d \in ToSet(all) : Visibility[d] = v}
           f == [n \in P |-> s[n]]
           g == [n \in Q |-> all[n]]
<1>2. Cardinality(P) = Cardinality(Q)
    <2>1. Counts(s)[v] = Cardinality(P) /\ Counts(all)[v] = Cardinality(Q)
        BY DEF Counts
    <2> QED BY <2>1
<1>3. IsFiniteSet(P) /\ IsFiniteSet(Q)
    <2>1. /\ P \in SUBSET (1 .. Len(s)) /\ Q \in SUBSET (1 .. Len(all))
          /\ Len(s) \in Nat /\ Len(all) \in Nat
        OBVIOUS
    <2> HIDE DEF P, Q
    <2>2. IsFiniteSet(1 .. Len(s)) /\ IsFiniteSet(1 .. Len(all))
        BY <2>1, FS_Interval
    <2> QED BY <2>1, <2>2, FS_Subset
<1>4. f \in Surjection(P, S) /\ f \in Injection(P, S)
    <2>1. f \in [P -> S]
        BY DEF ToSet
    <2>2. \A d \in S : \E n \in P : f[n] = d
        BY DEF ToSet
    <2>3. \A m, n \in P : f[m] = f[n] => m = n
        BY DEF NoRepeats
    <2> HIDE DEF f, P, S
    <2> QED BY <2>1, <2>2, <2>3 DEF Surjection, Injection, IsInjective
<1>5. g \in Surjection(Q, A)
    <2>1. g \in [Q -> A]
        BY DEF ToSet
    <2>2. \A d \in A : \E n \in Q : g[n] = d
        BY DEF ToSet
    <2> HIDE DEF g, Q, A
    <2> QED BY <2>1, <2>2 DEF Surjection
<1>6. S \in SUBSET A /\ c \in A
    BY <1>1
<1>7. c \in S => c \in ToSet(s)
    OBVIOUS
<1> HIDE DEF P, Q, S, A, f, g
<1>8. IsFiniteSet(S) /\ Cardinality(S) = Cardinality(P)
    BY <1>3, <1>4, FS_Surjection
<1>9. IsFiniteSet(A) /\ Cardinality(A) <= Cardinality(Q)
    BY <1>3, <1>5, FS_Surjection
<1>10. Cardinality(S) <= Cardinality(A)
    BY <1>6, <1>9, FS_Subset
<1>11. Cardinality(S) \in Nat /\ Cardinality(A) \in Nat
    BY <1>8, <1>9, FS_CardinalityType
<1>12. Cardinality(A) = Cardinality(S)
    BY <1>2, <1>8, <1>9, <1>10, <1>11
<1>13. A = S
    BY <1>6, <1>9, <1>12, FS_Subset
<1> QED BY <1>6, <1>7, <1>13

\* A candidate that validates holds every chunk of every repository it was
\* configured with and nothing else, unless builds of different lists ran at
\* once under its id: scripts/build_trusted_index.py build_candidate.
THEOREM CandidatesAreComplete == Spec => []PromotableIsComplete
<1>1. ASSUME CInv PROVE PromotableIsComplete
    <2> SUFFICES ASSUME NEW i \in BuildIds, Validates(dir[i]), \A l, m \in contended[i] : l = m
                 PROVE  ToSet(dir[i].meta) = Wanted(dir[i].man.repos)
        BY DEF PromotableIsComplete
    <2>1. /\ dir[i] # None /\ dir[i].man # None /\ dir[i].meta \notin {None, Torn}
          /\ dir[i].man.status = "CLEAN" /\ dir[i].man.counts = Counts(dir[i].meta)
        BY DEF Validates, Consistent
    <2>2. PICK list : Together(i, list)
        BY <1>1 DEF CInv, OneList
    <2>3. DirFacts(dir[i], list)
        BY <2>1, <2>2 DEF Together, Written
    <2>4. PartOf(dir[i].meta, list) /\ dir[i].man.repos = list /\ CountsAll(dir[i].man, list)
        BY <2>1, <2>3 DEF DirFacts
    <2>5. PICK all \in Seq(Chunks) : ToSet(all) = Wanted(list) /\ dir[i].man.counts = Counts(all)
        BY <2>1, <2>4 DEF CountsAll
    <2>6. ToSet(dir[i].meta) = ToSet(all)
        BY <2>1, <2>4, <2>5, CountsDecide DEF PartOf
    <2> QED BY <2>4, <2>5, <2>6
<1> QED BY <1>1, CInvInductive, PTL
-----------------------------------------------------------------------------
(***************************************************************************)
(* The types.  A directory is there for every build that writes into it:   *)
(* no step removes a candidate.                                            *)
(***************************************************************************)

PCs == {"idle"} \cup Early \cup Writing \cup Recorded

TInv ==
    /\ CInv
    /\ TypeOK
    /\ \A b \in Builders : job[b].pc \in After => dir[job[b].id] \in Dirs

\* A step of one build to the job j, given what becomes of its directory.
LEMMA TypedBeside ==
    ASSUME TInv, CInv', NEW b \in Builders, NEW k, k = job[b].id,
           NEW j \in Jobs, job' = [job EXCEPT ![b] = j],
           dir' \in [BuildIds -> Dirs \cup {None}],
           \A i \in BuildIds : dir[i] \in Dirs => dir'[i] \in Dirs,
           UNCHANGED <<builds, contended>>,
           j.pc \in After => j.id = k /\ dir'[k] \in Dirs
    PROVE  TInv'
<1>1. job \in [Builders -> Jobs]
    BY DEF TInv, TypeOK
<1>2. job' \in [Builders -> Jobs] /\ job'[b] = j /\ \A c \in Builders \ {b} : job'[c] = job[c]
    BY <1>1
<1>3. ASSUME NEW c \in Builders, job'[c].pc \in After PROVE dir'[job'[c].id] \in Dirs
    <2>1. CASE c = b
        BY <1>2, <1>3, <2>1
    <2>2. CASE c # b
        <3>1. job'[c] = job[c] /\ dir[job[c].id] \in Dirs
            BY <1>2, <1>3, <2>2 DEF TInv
        <3>2. job[c].id \in BuildIds
            BY <1>3, <3>1 DEF TInv, CInv, IInv, JobOK, After, Writing, Recorded
        <3> QED BY <3>1, <3>2
    <2> QED BY <2>1, <2>2
<1>4. TypeOK'
    BY <1>2 DEF TInv, TypeOK
<1> QED BY <1>3, <1>4 DEF TInv

\* It stays as it is,
LEMMA TypedStay ==
    ASSUME TInv, CInv', NEW b \in Builders, NEW k, k = job[b].id, job[b].pc # "idle",
           NEW j \in Jobs, job' = [job EXCEPT ![b] = j], dir' = dir,
           UNCHANGED <<builds, contended>>,
           j.pc \in After => j.id = k /\ dir[k] \in Dirs
    PROVE  TInv'
<1>1. dir' \in [BuildIds -> Dirs \cup {None}]
    BY DEF TInv, TypeOK
<1> QED BY <1>1, TypedBeside

\* or becomes d.
LEMMA TypedStep ==
    ASSUME TInv, CInv', NEW b \in Builders, NEW k, k = job[b].id, job[b].pc # "idle",
           NEW j \in Jobs, job' = [job EXCEPT ![b] = j],
           NEW d \in Dirs, dir' = [dir EXCEPT ![k] = d],
           UNCHANGED <<builds, contended>>,
           j.pc \in After => j.id = k
    PROVE  TInv'
<1>1. k \in BuildIds /\ dir \in [BuildIds -> Dirs \cup {None}]
    BY DEF TInv, CInv, IInv, JobOK, TypeOK
<1>2. /\ dir' \in [BuildIds -> Dirs \cup {None}] /\ dir'[k] \in Dirs
      /\ \A i \in BuildIds : dir[i] \in Dirs => dir'[i] \in Dirs
    BY <1>1
<1> QED BY <1>2, TypedBeside

LEMMA IdleTyped == Idle \in Jobs /\ Idle.pc \notin After
BY DEF Jobs, Idle, NoHash, Files, After, Writing, Recorded

\* The job of a build that ends.
LEMMA TypedEnd ==
    ASSUME TInv, CInv', NEW b \in Builders, NEW k, k = job[b].id, job[b].pc # "idle",
           Finish(b), UNCHANGED <<builds, contended>>,
           dir' = dir \/ \E d \in Dirs : dir' = [dir EXCEPT ![k] = d]
    PROVE  TInv'
<1>1. PICK j : j = Idle
    OBVIOUS
<1>2. j \in Jobs /\ j.pc \notin After
    BY <1>1, IdleTyped
<1>3. job' = [job EXCEPT ![b] = j]
    BY <1>1 DEF Finish
<1>4. CASE dir' = dir
    BY <1>2, <1>3, <1>4, TypedStay
<1>5. CASE \E d \in Dirs : dir' = [dir EXCEPT ![k] = d]
    <2>1. PICK d \in Dirs : dir' = [dir EXCEPT ![k] = d]
        BY <1>5
    <2> QED BY <1>2, <1>3, <2>1, TypedStep
<1> QED BY <1>4, <1>5

\* ... and of one that goes on with what it has.
LEMMA TypedOn ==
    ASSUME TInv, NEW b \in Builders, job[b].pc # "idle", NEW pc \in PCs,
           \/ job' = [job EXCEPT ![b].pc = pc]
           \/ \E h \in [idx : Files, meta : Files] : job' = [job EXCEPT ![b].pc = pc, ![b].hash = h]
    PROVE  \E j \in Jobs : job' = [job EXCEPT ![b] = j] /\ j.id = job[b].id /\ j.pc = pc
<1>1. job[b] \in Jobs /\ job \in [Builders -> Jobs]
    BY DEF TInv, TypeOK
<1>2. CASE job' = [job EXCEPT ![b].pc = pc]
    <2> DEFINE j == [job[b] EXCEPT !.pc = pc]
    <2>1. j \in Jobs /\ j.id = job[b].id /\ j.pc = pc
        BY <1>1 DEF Jobs, PCs, Early, Writing, Recorded
    <2>2. job' = [job EXCEPT ![b] = j]
        BY <1>2
    <2> HIDE DEF j
    <2> QED BY <2>1, <2>2
<1>3. CASE \E h \in [idx : Files, meta : Files] : job' = [job EXCEPT ![b].pc = pc, ![b].hash = h]
    <2>1. PICK h \in [idx : Files, meta : Files] :
              job' = [job EXCEPT ![b].pc = pc, ![b].hash = h]
        BY <1>3
    <2> DEFINE j == [job[b] EXCEPT !.pc = pc, !.hash = h]
    <2>2. j \in Jobs /\ j.id = job[b].id /\ j.pc = pc
        BY <1>1 DEF Jobs, PCs, Early, Writing, Recorded
    <2>3. job' = [job EXCEPT ![b] = j]
        BY <1>1, <2>1 DEF Jobs
    <2> HIDE DEF j
    <2> QED BY <2>2, <2>3
<1> QED BY <1>2, <1>3

\* What is known of a build under way.
LEMMA TypedJob ==
    ASSUME TInv, NEW b \in Builders, job[b].pc # "idle"
    PROVE  /\ job[b] \in Jobs /\ job[b].id \in BuildIds /\ job[b].repos \in RepoLists
           /\ job[b].vectors = job[b].indexed /\ JobFacts(job[b])
           /\ dir \in [BuildIds -> Dirs \cup {None}]
           /\ job[b].pc \in After => dir[job[b].id] \in Dirs
BY DEF TInv, CInv, IInv, JobOK, JobFacts, TypeOK

LEMMA TypedStart ==
    ASSUME TInv, CInv', NEW b \in Builders, NEW id \in BuildIds, NEW list \in RepoLists,
           Start(b, id, list)
    PROVE  TInv'
<1> DEFINE others == {other \in Builders : job[other].id = id}
           j == [Idle EXCEPT !.pc = "discover", !.id = id, !.repos = list]
<1>1. /\ builds < MaxBuilds /\ builds' = builds + 1 /\ dir' = dir
      /\ contended' = [contended EXCEPT ![id] =
             IF others = {} THEN @ ELSE @ \cup {list} \cup {job[other].repos : other \in others}]
      /\ job' = [job EXCEPT ![b] = j]
    BY DEF Start
<1>2. j \in Jobs /\ j.pc \notin After
    <2>1. j = [Idle EXCEPT !.pc = "discover", !.id = id, !.repos = list] /\ Idle \in Jobs
        BY IdleTyped
    <2> HIDE DEF j
    <2>2. j \in Jobs /\ j.pc = "discover"
        BY <2>1 DEF Jobs
    <2> QED BY <2>2 DEF After, Writing, Recorded
<1> HIDE DEF j
<1>3. job \in [Builders -> Jobs] /\ dir \in [BuildIds -> Dirs \cup {None}]
      /\ builds \in 0 .. MaxBuilds /\ contended \in [BuildIds -> SUBSET RepoLists]
    BY DEF TInv, TypeOK
<1>4. \A c \in Builders : job'[c].pc \in After => dir'[job'[c].id] \in Dirs
    BY <1>1, <1>2, <1>3 DEF TInv
<1>5. builds' \in 0 .. MaxBuilds
    BY <1>1, <1>3, BuildBoundAssumption
<1>6. contended' \in [BuildIds -> SUBSET RepoLists]
    <2>1. ASSUME NEW other \in others PROVE job[other].repos \in RepoLists
        <3>1. job[other].pc # "idle"
            BY NoneAssumption DEF TInv, CInv, IInv, JobOK
        <3> QED BY <3>1 DEF TInv, CInv, JobFacts
    <2>2. {job[other].repos : other \in others} \in SUBSET RepoLists
        BY <2>1
    <2> HIDE DEF others
    <2> QED BY <1>1, <1>3, <2>2
<1>7. TypeOK'
    BY <1>1, <1>2, <1>3, <1>5, <1>6 DEF TypeOK
<1> QED BY <1>4, <1>7 DEF TInv

\* Discovery and the two passes change lists of chunks and nothing on disk.
LEMMA TypedLists ==
    ASSUME TInv, CInv', NEW b \in Builders, NEW unreadable, NEW F \in SUBSET Chunks,
           \/ SkipRepository(b) \/ ReadRepository(b, unreadable)
           \/ EmbedPass(b, F) \/ SecondChance(b, F)
    PROVE  TInv'
<1>1. job[b].pc \in {"discover", "retry"} /\ UNCHANGED <<dir, builds, contended>>
    BY DEF SkipRepository, ReadRepository, EmbedPass, SecondChance
<1>2. job[b] \in Jobs /\ JobFacts(job[b]) /\ job \in [Builders -> Jobs]
    BY <1>1, TypedJob DEF TInv, TypeOK
<1>3. /\ job[b].failed \subseteq Chunks /\ job[b].next \in Nat
      /\ job[b].metadata \in Seq(Chunks) /\ job[b].indexed \in Seq(Chunks)
      /\ job[b].vectors \in Seq(Chunks)
      /\ job[b].missing \in BOOLEAN /\ job[b].failures \in BOOLEAN
    BY <1>2 DEF Jobs
<1>4. PICK next \in Nat : next = job[b].next + 1
    BY <1>3
<1>5. \E j \in Jobs : job' = [job EXCEPT ![b] = j] /\ j.pc \in Early
    <2>1. CASE SkipRepository(b)
        <3> DEFINE j == [job[b] EXCEPT !.missing = TRUE, !.next = next]
        <3>1. j \in Jobs /\ j.pc = job[b].pc
            BY <1>2, <1>3 DEF Jobs
        <3>2. job' = [job EXCEPT ![b] = j]
            BY <1>2, <1>4, <2>1 DEF SkipRepository, Jobs
        <3> HIDE DEF j
        <3> QED BY <1>1, <3>1, <3>2 DEF Early
    <2>2. CASE ReadRepository(b, unreadable)
        <3>1. PICK more : more = Drop(Corpus[job[b].repos[job[b].next]], unreadable)
            OBVIOUS
        <3>2. more \in Seq(Chunks)
            <4>1. job[b].repos \in RepoLists /\ job[b].next \in 1 .. Len(job[b].repos)
                BY <1>1, <1>2, <2>2, ListAssumption DEF ReadRepository, JobFacts
            <4>2. Corpus[job[b].repos[job[b].next]] \in Seq(Chunks)
                BY <4>1, SeenGrows
            <4> QED BY <3>1, <4>2, Dropped
        <3>3. PICK found \in Seq(Chunks) : found = job[b].metadata \o more
            BY <1>3, <3>2, Concatenated
        <3>4. PICK failures \in BOOLEAN : failures = (job[b].failures \/ unreadable # {})
            BY <1>3
        <3> DEFINE j == [job[b] EXCEPT !.next = next, !.failures = failures,
                                       !.metadata = found]
        <3>5. j \in Jobs /\ j.pc = job[b].pc
            BY <1>2, <1>3 DEF Jobs
        <3>6. job' = [job EXCEPT ![b] = j]
            BY <1>4, <2>2, <3>1, <3>3, <3>4 DEF ReadRepository
        <3> HIDE DEF j
        <3> QED BY <1>1, <3>5, <3>6 DEF Early
    <2>3. CASE EmbedPass(b, F)
        <3>1. PICK ok : ok = Drop(Deduped(job[b].metadata), F)
            OBVIOUS
        <3>2. ok \in Seq(Chunks)
            BY <1>3, <3>1, DedupedFacts, Dropped
        <3>3. PICK pc \in {"retry", "mkdir"} : pc = IF F # {} THEN "retry" ELSE "mkdir"
            OBVIOUS
        <3> DEFINE j == [job[b] EXCEPT !.pc = pc, !.vectors = ok, !.indexed = ok, !.failed = F]
        <3>4. j \in Jobs /\ j.pc = pc
            BY <1>2, <3>2 DEF Jobs
        <3>5. job' = [job EXCEPT ![b] = j]
            BY <2>3, <3>1, <3>3 DEF EmbedPass
        <3> HIDE DEF j
        <3> QED BY <3>4, <3>5 DEF Early
    <2>4. CASE SecondChance(b, F)
        <3>1. PICK recovered : recovered = Drop(Keep(Deduped(job[b].metadata), job[b].failed), F)
            OBVIOUS
        <3>2. recovered \in Seq(Chunks)
            BY <1>3, <3>1, DedupedFacts, Kept, Dropped
        <3>3. PICK rows \in Seq(Chunks) : rows = job[b].vectors \o recovered
            BY <1>3, <3>2, Concatenated
        <3>4. PICK kept \in Seq(Chunks) : kept = job[b].indexed \o recovered
            BY <1>3, <3>2, Concatenated
        <3> DEFINE j == [job[b] EXCEPT !.pc = "mkdir", !.failed = F, !.vectors = rows,
                                       !.indexed = kept]
        <3>5. j \in Jobs /\ j.pc = "mkdir"
            BY <1>2 DEF Jobs
        <3>6. job' = [job EXCEPT ![b] = j]
            BY <2>4, <3>1, <3>3, <3>4 DEF SecondChance, FinalFailures, WithRecovered
        <3> HIDE DEF j
        <3> QED BY <3>5, <3>6 DEF Early
    <2> QED BY <2>1, <2>2, <2>3, <2>4
<1>6. PICK j \in Jobs : job' = [job EXCEPT ![b] = j] /\ j.pc \in Early
    BY <1>5
<1>7. j.pc \notin After /\ job[b].pc # "idle" /\ dir' = dir
    BY <1>1, <1>6 DEF Early, After, Writing, Recorded
<1>8. PICK k : k = job[b].id
    OBVIOUS
<1> QED BY <1>1, <1>6, <1>7, <1>8, TypedStay

LEMMA TypedMakeDir ==
    ASSUME TInv, CInv', NEW b \in Builders, MakeDir(b)
    PROVE  TInv'
<1>1. PICK k : k = job[b].id
    OBVIOUS
<1>2. job[b].pc = "mkdir" /\ UNCHANGED <<builds, contended>>
    BY DEF MakeDir
<1>3. dir \in [BuildIds -> Dirs \cup {None}] /\ k \in BuildIds
    BY <1>1, <1>2, TypedJob
<1>4. CASE Finish(b) /\ UNCHANGED dir
    BY <1>1, <1>2, <1>4, TypedEnd
<1>5. CASE /\ Goto(b, "saveIndex")
           /\ dir' = IF dir[job[b].id] # None THEN dir
                     ELSE [dir EXCEPT ![job[b].id] = [idx |-> None, meta |-> None, man |-> None]]
    <2>1. PICK new : new = [idx |-> None, meta |-> None, man |-> None]
        OBVIOUS
    <2>2. new \in Dirs
        BY <2>1 DEF Dirs, Files
    <2>3. PICK j \in Jobs : job' = [job EXCEPT ![b] = j] /\ j.id = k
        BY <1>1, <1>2, <1>5, TypedOn DEF Goto, PCs, Writing
    <2>4. CASE dir[k] # None
        <3>1. dir' = dir /\ dir[k] \in Dirs
            BY <1>1, <1>3, <1>5, <2>4
        <3> QED BY <1>1, <1>2, <2>3, <3>1, TypedStay
    <2>5. CASE dir[k] = None
        <3>1. dir' = [dir EXCEPT ![k] = new]
            BY <1>1, <1>5, <2>1, <2>5
        <3> QED BY <1>1, <1>2, <2>2, <2>3, <3>1, TypedStep
    <2> QED BY <2>4, <2>5
<1> QED BY <1>4, <1>5 DEF MakeDir

LEMMA CountsTyped ==
    ASSUME NEW s \in Seq(Chunks)
    PROVE  Counts(s) \in [Visibilities -> Nat]
<1> SUFFICES ASSUME NEW v \in Visibilities
             PROVE  Cardinality({n \in DOMAIN s : Visibility[s[n]] = v}) \in Nat
    BY DEF Counts
<1> DEFINE P == {n \in DOMAIN s : Visibility[s[n]] = v}
<1>1. IsFiniteSet(DOMAIN s)
    <2>1. DOMAIN s = 1 .. Len(s) /\ Len(s) \in Nat
        OBVIOUS
    <2> QED BY <2>1, FS_Interval
<1>2. P \in SUBSET (DOMAIN s)
    OBVIOUS
<1> HIDE DEF P
<1>3. Cardinality(P) \in Nat
    BY <1>1, <1>2, FS_Subset, FS_CardinalityType
<1> QED BY <1>3 DEF P

LEMMA ManifestTyped ==
    ASSUME TInv, NEW b \in Builders, job[b].pc # "idle"
    PROVE  ManifestOf(job[b]) \in Manifests
<1>1. /\ job[b].repos \in RepoLists /\ job[b].hash \in [idx : Files, meta : Files]
      /\ job[b].metadata \in Seq(Chunks)
    BY TypedJob DEF Jobs
<1>2. StatusOf(job[b]) \in Statuses
    BY DEF StatusOf, Statuses
<1>3. DeclaredCounts(job[b]) \in [Visibilities -> Nat]
    BY <1>1, CountsTyped DEF DeclaredCounts
<1> QED BY <1>1, <1>2, <1>3 DEF ManifestOf, Manifests


LEMMA TypedSave ==
    ASSUME TInv, CInv', NEW b \in Builders, SaveIndex(b) \/ SaveMeta(b)
    PROVE  TInv'
<1>1. PICK k : k = job[b].id
    OBVIOUS
<1>2. PICK pc \in {"saveMeta", "hash"} : Goto(b, pc)
    BY DEF SaveIndex, SaveMeta
<1>3. /\ job[b].pc \in {"saveIndex", "saveMeta"} /\ UNCHANGED <<builds, contended>>
      /\ job[b].pc # "idle" /\ job[b].pc \in After /\ pc \in PCs
    BY DEF SaveIndex, SaveMeta, After, Writing, PCs
<1>4. PICK j \in Jobs : job' = [job EXCEPT ![b] = j] /\ j.id = k
    BY <1>1, <1>2, <1>3, TypedOn DEF Goto
<1>5. dir[k] \in Dirs /\ job[b] \in Jobs /\ job[b].vectors = job[b].indexed
    BY <1>1, <1>3, TypedJob
<1>6. PICK rows \in Files : rows = job[b].indexed
    BY <1>5 DEF Files, Jobs
<1>7. PICK d : /\ d = [dir[k] EXCEPT !.idx = rows] \/ d = [dir[k] EXCEPT !.meta = rows]
               /\ dir' = [dir EXCEPT ![k] = d]
    <2>1. CASE SaveIndex(b)
        BY <1>1, <1>5, <1>6, <2>1 DEF SaveIndex
    <2>2. CASE SaveMeta(b)
        BY <1>1, <1>6, <2>2 DEF SaveMeta
    <2> QED BY <2>1, <2>2
<1>8. d \in Dirs
    BY <1>5, <1>7 DEF Dirs
<1> QED BY <1>1, <1>3, <1>4, <1>7, <1>8, TypedStep

LEMMA TypedHash ==
    ASSUME TInv, CInv', NEW b \in Builders, Hash(b)
    PROVE  TInv'
<1>1. PICK k : k = job[b].id
    OBVIOUS
<1>2. /\ job[b].pc \in {"hash", "rehash"} /\ UNCHANGED <<dir, builds, contended>>
      /\ job[b].pc \in After
    BY DEF Hash, After, Writing, Recorded
<1>3. PICK pc \in {"manifest", "remanifest"} :
          job' = [job EXCEPT ![b].pc = pc, ![b].hash = HashOf(dir[k])]
    BY <1>1 DEF Hash
<1>4. dir[k] \in Dirs
    BY <1>1, <1>2, TypedJob
<1>5. HashOf(dir[k]) \in [idx : Files, meta : Files] /\ pc \in PCs
    BY <1>4 DEF HashOf, Dirs, PCs, Writing, Recorded
<1>6. PICK j \in Jobs : job' = [job EXCEPT ![b] = j] /\ j.id = k
    BY <1>1, <1>2, <1>3, <1>5, TypedOn
<1> QED BY <1>1, <1>2, <1>4, <1>6, TypedStay

LEMMA TypedManifest ==
    ASSUME TInv, CInv', NEW b \in Builders, WriteManifest(b)
    PROVE  TInv'
<1>1. PICK k : k = job[b].id
    OBVIOUS
<1>2. /\ job[b].pc \in {"manifest", "remanifest"} /\ UNCHANGED <<builds, contended>>
      /\ job[b].pc \in After /\ dir' = [dir EXCEPT ![k].man = ManifestOf(job[b])]
    BY <1>1 DEF WriteManifest, After, Writing, Recorded
<1>3. dir[k] \in Dirs /\ ManifestOf(job[b]) \in Manifests
    BY <1>1, <1>2, TypedJob, ManifestTyped
<1>4. [dir[k] EXCEPT !.man = ManifestOf(job[b])] \in Dirs
    BY <1>3 DEF Dirs
<1>5. PICK d \in Dirs : dir' = [dir EXCEPT ![k] = d]
    BY <1>2, <1>4
<1>6. CASE Finish(b)
    BY <1>1, <1>2, <1>5, <1>6, TypedEnd
<1>7. CASE Goto(b, "validate")
    <2>1. PICK j \in Jobs : job' = [job EXCEPT ![b] = j] /\ j.id = k
        BY <1>1, <1>2, <1>7, TypedOn DEF Goto, PCs, Recorded
    <2>2. job[b].pc # "idle" /\ UNCHANGED <<builds, contended>>
        BY <1>2
    <2> QED BY <1>1, <1>5, <2>1, <2>2, TypedStep
<1> QED BY <1>6, <1>7 DEF WriteManifest

LEMMA TypedValidate ==
    ASSUME TInv, CInv', NEW b \in Builders, Validate(b)
    PROVE  TInv'
<1>1. PICK k : k = job[b].id
    OBVIOUS
<1>2. /\ job[b].pc = "validate" /\ UNCHANGED <<dir, builds, contended>>
      /\ job[b].pc \in After
    BY DEF Validate, After, Recorded
<1>3. CASE Finish(b)
    BY <1>1, <1>2, <1>3, TypedEnd
<1>4. CASE Goto(b, "rehash")
    <2>1. PICK j \in Jobs : job' = [job EXCEPT ![b] = j] /\ j.id = k
        BY <1>1, <1>2, <1>4, TypedOn DEF Goto, PCs, Recorded
    <2>2. dir[k] \in Dirs
        BY <1>1, <1>2, TypedJob
    <2> QED BY <1>1, <1>2, <2>1, <2>2, TypedStay
<1> QED BY <1>3, <1>4 DEF Validate

LEMMA TypedDie ==
    ASSUME TInv, CInv', NEW b \in Builders, Die(b) \/ DieWriting(b)
    PROVE  TInv'
<1>1. PICK k : k = job[b].id
    OBVIOUS
<1>2. job[b].pc # "idle" /\ Finish(b) /\ UNCHANGED <<builds, contended>>
    BY DEF Die, DieWriting
<1>3. CASE Die(b)
    BY <1>1, <1>2, <1>3, TypedEnd DEF Die
<1>4. CASE DieWriting(b)
    <2>1. /\ job[b].pc \in After
          /\ dir' = [dir EXCEPT ![k].idx = Torn] \/ dir' = [dir EXCEPT ![k].meta = Torn]
        BY <1>1, <1>4 DEF DieWriting, After, Writing
    <2>2. dir[k] \in Dirs /\ Torn \in Files
        BY <1>1, <1>2, <2>1, TypedJob DEF Files
    <2>3. PICK d : /\ d = [dir[k] EXCEPT !.idx = Torn] \/ d = [dir[k] EXCEPT !.meta = Torn]
                   /\ dir' = [dir EXCEPT ![k] = d]
        BY <2>1
    <2>4. d \in Dirs
        BY <2>2, <2>3 DEF Dirs
    <2> QED BY <1>1, <1>2, <2>3, <2>4, TypedEnd
<1> QED BY <1>3, <1>4

LEMMA TypedInit == Init => TInv
<1> SUFFICES ASSUME Init PROVE TInv
    OBVIOUS
<1>1. Idle \in Jobs /\ Idle.pc \notin After
    BY IdleTyped
<1>2. TypeOK
    BY <1>1, BuildBoundAssumption DEF Init, TypeOK
<1> QED BY <1>1, <1>2, CInvInit DEF Init, TInv

LEMMA TypedNext ==
    ASSUME TInv, [Next]_vars
    PROVE  TInv'
<1>1. CInv'
    BY CInvKept DEF TInv
<1>2. CASE UNCHANGED vars
    BY <1>1, <1>2 DEF vars, TInv, TypeOK
<1>3. CASE Next
    BY <1>1, <1>3, TypedStart, TypedLists, TypedMakeDir, TypedSave, TypedHash, TypedManifest,
       TypedValidate, TypedDie DEF Next
<1> QED BY <1>2, <1>3

LEMMA TypedInductive == Spec => []TInv
<1>1. TInv /\ [Next]_vars => TInv'
    BY TypedNext
<1> QED BY <1>1, TypedInit, PTL DEF Spec

\* The values of the state: every file is a list of chunks, torn or missing,
\* every manifest has a status, a list and counts, and every build works on
\* lists of chunks: scripts/build_trusted_index.py build_candidate.
THEOREM BuildTypeCorrect == Spec => []TypeOK
<1>1. TInv => TypeOK
    BY DEF TInv
<1> QED BY <1>1, TypedInductive, PTL
-----------------------------------------------------------------------------
(***************************************************************************)
(* A build is not refused by its own validation (CompleteBuildIsAccepted)  *)
(* when nothing it discovered is there twice and no other build writes     *)
(* under its id.                                                           *)
(***************************************************************************)

\* A complete build that is alone under its id and discovered no chunk twice
\* finds its candidate valid: scripts/build_trusted_index.py build_candidate
\* and its call of validate_index_directory.
CompleteIsAcceptedAlone ==
    \A b \in Builders :
        /\ job[b].pc = "validate" /\ StatusOf(job[b]) = "CLEAN"
        /\ NoRepeats(job[b].metadata) /\ contended[job[b].id] = {}
        => Validates(dir[job[b].id])

\* Without repetitions rows are counted by counting chunks.
LEMMA RowsAreChunks ==
    ASSUME NEW s \in Seq(Chunks), NoRepeats(s), NEW v \in Visibilities
    PROVE  Counts(s)[v] = Cardinality({d \in ToSet(s) : Visibility[d] = v})
<1> DEFINE P == {n \in DOMAIN s : Visibility[s[n]] = v}
           S == {d \in ToSet(s) : Visibility[d] = v}
           f == [n \in P |-> s[n]]
<1>1. IsFiniteSet(P)
    <2>1. DOMAIN s = 1 .. Len(s) /\ Len(s) \in Nat
        OBVIOUS
    <2>2. P \in SUBSET (DOMAIN s)
        OBVIOUS
    <2> HIDE DEF P
    <2>3. IsFiniteSet(DOMAIN s)
        BY <2>1, FS_Interval
    <2> QED BY <2>2, <2>3, FS_Subset
<1>2. f \in Surjection(P, S) /\ f \in Injection(P, S)
    <2>1. f \in [P -> S]
        BY DEF ToSet
    <2>2. \A d \in S : \E n \in P : f[n] = d
        BY DEF ToSet
    <2>3. \A m, n \in P : f[m] = f[n] => m = n
        BY DEF NoRepeats
    <2> HIDE DEF f, P, S
    <2> QED BY <2>1, <2>2, <2>3 DEF Surjection, Injection, IsInjective
<1>3. Counts(s)[v] = Cardinality(P)
    BY DEF Counts
<1> HIDE DEF P, S, f
<1>4. Cardinality(S) = Cardinality(P)
    BY <1>1, <1>2, FS_Surjection
<1> QED BY <1>3, <1>4 DEF S

LEMMA CountsAgree ==
    ASSUME NEW s \in Seq(Chunks), NEW t \in Seq(Chunks), NoRepeats(s), NoRepeats(t),
           ToSet(s) = ToSet(t)
    PROVE  Counts(s) = Counts(t)
<1>1. \A v \in Visibilities : Counts(s)[v] = Counts(t)[v]
    <2> TAKE v \in Visibilities
    <2>1. Counts(s)[v] = Cardinality({d \in ToSet(s) : Visibility[d] = v})
        BY RowsAreChunks
    <2>2. Counts(t)[v] = Cardinality({d \in ToSet(t) : Visibility[d] = v})
        BY RowsAreChunks
    <2> QED BY <2>1, <2>2
<1>2. Counts(s) \in [Visibilities -> Nat] /\ Counts(t) \in [Visibilities -> Nat]
    BY CountsTyped
<1> QED BY <1>1, <1>2

\* What validation compares agrees for such a build, also when the second pass
\* embedded some of the chunks: scripts/build_trusted_index.py embed_metadata.
THEOREM AloneAndAccepted == Spec => []CompleteIsAcceptedAlone
<1>1. ASSUME TInv PROVE CompleteIsAcceptedAlone
    <2> SUFFICES ASSUME NEW b \in Builders,
                        job[b].pc = "validate", StatusOf(job[b]) = "CLEAN",
                        NoRepeats(job[b].metadata), contended[job[b].id] = {}
                 PROVE  Validates(dir[job[b].id])
        BY DEF CompleteIsAcceptedAlone
    <2>1. PICK d : d = dir[job[b].id]
        OBVIOUS
    <2>2. PICK rows : rows = job[b].indexed
        OBVIOUS
    <2>3. /\ job[b] \in Jobs /\ job[b].id \in BuildIds /\ job[b].vectors = rows
          /\ JobFacts(job[b]) /\ d \in Dirs
        BY <1>1, <2>1, <2>2, TypedJob DEF After, Recorded
    <2>4. Stage(job[b], d)
        BY <1>1, <2>1, <2>3 DEF TInv, CInv, IInv, Exclusive
    <2>5. /\ d.idx = rows /\ d.meta = rows
          /\ d.man = ManifestOf(job[b]) /\ job[b].hash = HashOf(d)
        BY <2>3, <2>4 DEF Stage, Recorded
    <2>6. /\ d.man.status = "CLEAN" /\ d.man.hash = HashOf(d)
          /\ d.man.counts = Counts(job[b].metadata)
        BY <2>5 DEF ManifestOf, DeclaredCounts
    <2>7. Counts(rows) = Counts(job[b].metadata)
        <3>1. job[b].failed = {}
            BY DEF StatusOf
        <3>2. /\ rows \in Seq(Chunks) /\ job[b].metadata \in Seq(Chunks)
              /\ NoRepeats(rows) /\ ToSet(rows) = ToSet(job[b].metadata)
            BY <2>2, <2>3, <3>1 DEF JobFacts, Accounted
        <3> QED BY <3>2, CountsAgree
    <2>8. d # None /\ d.man # None
        <3>1. ManifestOf(job[b]) \in Manifests
            BY <1>1, ManifestTyped
        <3> QED BY <2>3, <2>5, <3>1, AbsentAssumption
    <2>9. rows \notin {None, Torn}
        BY <2>2, <2>3, AbsentAssumption DEF JobFacts, Accounted
    <2>10. Consistent(d)
        BY <2>5, <2>6, <2>7 DEF Consistent
    <2> QED BY <2>1, <2>5, <2>8, <2>9, <2>10 DEF Validates
<1> QED BY <1>1, TypedInductive, PTL
=============================================================================
