------------------------ MODULE IndexLifecycleProofs ------------------------
(***************************************************************************)
(* Type correctness, conservation of indexes and the refinement of         *)
(* IndexStore, for any number of operators, contents and commands.         *)
(* Then what maintenance by one command at a time guarantees, for any      *)
(* contents, candidates and number of commands, crashes and recoveries: a  *)
(* missing index can be recovered, a rollback undoes, what was promoted    *)
(* starts.  And the service beside them serves what it verified, unless a  *)
(* command exchanges the index while the container starts.                 *)
(***************************************************************************)
EXTENDS IndexServing, TLAPS

(* A command's registers hold what its next step needs. *)
JobOK ==
  \A o \in Operators :
    /\ job[o].pc # "idle" => job[o].target \in Candidates \cup Retained
    /\ job[o].pc = "stage" => /\ job[o].source \in Paths
                              /\ job[o].target \in Candidates
                              /\ job[o].man \in Manifests
    /\ job[o].pc \in {"displace", "restore"} => job[o].aside \in Retained
    /\ job[o].pc \in {"write", "record"} => job[o].man \in Manifests

IInv == TypeOK /\ JobOK

USE KindAssumption, NoneAssumption, ShelfAssumption, InitialAssumption,
    CorruptAssumption, BoundAssumption
-----------------------------------------------------------------------------
LEMMA PathFacts ==
  /\ Current \in Paths
  /\ Retained \subseteq Paths
  /\ Candidates \subseteq Paths
  /\ MountPaths \subseteq Paths
  /\ Current \notin Retained
  /\ \A t \in Times : Previous(t) \in Retained /\ Rolled(t) \in Retained
  /\ \A b \in Builds : Candidate(b) \in Candidates
BY DEF Paths, Current, Retained, Previous, Rolled, Candidates, Candidate,
       MountPaths, Mount

LEMMA TargetNotCurrent == Current \notin Candidates \cup Retained
BY DEF Current, Retained, Previous, Rolled, Candidates, Candidate

LEMMA DirFacts ==
  ASSUME NEW d \in Dirs
  PROVE  /\ d.content \in Contents \cup {None}
         /\ d.man \in Manifests \cup {None}
         /\ d.man # None => d.man \in Manifests
         /\ d # None
         /\ \A c \in Contents : [d EXCEPT !.content = c] \in Dirs
         /\ \A m \in Manifests : [d EXCEPT !.man = m] \in Dirs
         /\ \A c \in Contents \cup {None} : [d EXCEPT !.displaced = c] \in Dirs
BY DEF Dirs

LEMMA InitIInv == Init => IInv
<1> SUFFICES ASSUME Init PROVE IInv
  OBVIOUS
<1> PICK d \in InitialCurrent :
       /\ fs = [p \in Paths |->
                  IF p = Current THEN d
                  ELSE IF p \in DOMAIN Shelf THEN Shelf[p] ELSE None]
       /\ owed = (IF d = None THEN {} ELSE {d.content} \ {None})
       /\ last = (IF d = None THEN None ELSE d.content)
  BY DEF Init
<1>1. d \in Dirs \cup {None}
  OBVIOUS
<1>2. fs \in [Paths -> Dirs \cup {None}]
  BY <1>1
<1>3. owed \subseteq Contents /\ last \in Contents \cup {None}
  BY <1>1, DirFacts
<1>4. Idle \in Jobs
  BY DEF Idle, Jobs
<1>5. TypeOK
  <2>1. commands \in [issued : 0..MaxCommands, alone : BOOLEAN]
    BY DEF Init
  <2> QED BY <1>2, <1>3, <1>4, <2>1 DEF Init, TypeOK, Times
<1>6. JobOK
  BY DEF Init, JobOK, Idle
<1> QED BY <1>5, <1>6 DEF IInv
-----------------------------------------------------------------------------
(* Steps that leave the volume alone preserve the invariant when they      *)
(* leave the command's registers in order.                                 *)
LEMMA RegisterStep ==
  ASSUME IInv, NEW o \in Operators, NEW j \in Jobs,
         job' = [job EXCEPT ![o] = j],
         j.pc # "idle" => j.target \in Candidates \cup Retained,
         j.pc = "stage" => /\ j.source \in Paths /\ j.target \in Candidates
                           /\ j.man \in Manifests,
         j.pc \in {"displace", "restore"} => j.aside \in Retained,
         j.pc \in {"write", "record"} => j.man \in Manifests
  PROVE  job' \in [Operators -> Jobs] /\ JobOK'
<1>1. job' \in [Operators -> Jobs]
  BY DEF IInv, TypeOK
<1>2. job'[o] = j /\ \A q \in Operators \ {o} : job'[q] = job[q]
  BY DEF IInv, TypeOK
<1>3. JobOK'
  BY <1>2 DEF IInv, JobOK
<1> QED BY <1>1, <1>3

LEMMA FinishStep ==
  ASSUME IInv, NEW o \in Operators, Finish(o)
  PROVE  job' \in [Operators -> Jobs] /\ JobOK'
<1>1. Idle \in Jobs /\ Idle.pc = "idle"
  BY DEF Idle, Jobs
<1> QED BY <1>1, RegisterStep DEF Finish

LEMMA GotoStep ==
  ASSUME IInv, NEW o \in Operators, NEW s \in Steps, Goto(o, s),
         job[o].pc # "idle", s # "stage",
         s \in {"displace", "restore"} => job[o].aside \in Retained,
         s \in {"write", "record"} => job[o].man \in Manifests
  PROVE  job' \in [Operators -> Jobs] /\ JobOK'
<1> DEFINE j == [job[o] EXCEPT !.pc = s]
<1>1. job[o] \in Jobs
  BY DEF IInv, TypeOK
<1>2. /\ j \in Jobs
      /\ j.pc = s /\ j.target = job[o].target
      /\ j.aside = job[o].aside /\ j.man = job[o].man
  BY <1>1 DEF Jobs
<1>3. job' = [job EXCEPT ![o] = j]
  BY DEF Goto
<1>4. job[o].target \in Candidates \cup Retained
  BY DEF IInv, JobOK
<1> HIDE DEF j
<1> QED BY <1>2, <1>3, <1>4, RegisterStep

(* A directory put at a path leaves the volume well typed. *)
LEMMA PutStep ==
  ASSUME TypeOK, NEW p \in Paths, NEW d \in Dirs \cup {None}
  PROVE  [fs EXCEPT ![p] = d] \in [Paths -> Dirs \cup {None}]
BY DEF TypeOK

LEMMA MoveStep ==
  ASSUME TypeOK, NEW p \in Paths, NEW q \in Paths, NEW d \in Dirs
  PROVE  Moved(p, q, d) \in [Paths -> Dirs \cup {None}]
BY DEF TypeOK, Moved

LEMMA PresentDir ==
  ASSUME TypeOK, NEW p \in Paths, Present(p)
  PROVE  fs[p] \in Dirs
BY DEF TypeOK, Present
-----------------------------------------------------------------------------
(* The history of the commands counts no further than its bound. *)
LEMMA IssueType ==
  ASSUME TypeOK, NEW o \in Operators, Issue(o)
  PROVE  commands' \in [issued : 0..MaxCommands, alone : BOOLEAN]
<1> DEFINE alone == commands.alone /\ Quiescent
           bound == IF alone THEN MaxCommands ELSE MaxRacing
<1>1. commands.issued \in 0..MaxCommands /\ commands.issued < bound
  BY DEF TypeOK, Issue
<1>2. bound \in 0..MaxCommands
  OBVIOUS
<1>3. commands.issued + 1 \in 0..MaxCommands
  <2> HIDE DEF bound
  <2> QED BY <1>1, <1>2
<1>4. alone \in BOOLEAN
  BY DEF TypeOK, Quiescent
<1>5. commands' = [issued |-> commands.issued + 1, alone |-> alone]
  BY DEF Issue
<1> HIDE DEF alone
<1> QED BY <1>3, <1>4, <1>5

LEMMA PromoteInspectIInv ==
  ASSUME IInv, NEW o \in Operators, NEW src \in Paths, PromoteInspect(o, src)
  PROVE  IInv'
<1> DEFINE m == fs[src].man
           dest == Candidate(m.build)
<1>1. fs[src] \in Dirs /\ m \in Manifests
  BY DirFacts DEF IInv, TypeOK, PromoteInspect, SourceAccepted, Validates
<1>2. m.build \in Builds
  BY <1>1 DEF Manifests
<1>3. dest \in Paths /\ dest \in Candidates
  BY <1>2, PathFacts
<1>4. PICK chk \in CheckOutcomes(fs[src].content) :
        job' = [job EXCEPT ![o] =
          [Idle EXCEPT !.pc = IF src = dest THEN "validate" ELSE "stage",
                       !.kind = "promote", !.source = src,
                       !.target = dest, !.man = m, !.check = chk]]
  BY DEF PromoteInspect
<1>5. chk \in Checks
  BY DEF CheckOutcomes, Checks
<1> DEFINE j == [Idle EXCEPT !.pc = IF src = dest THEN "validate" ELSE "stage",
                             !.kind = "promote", !.source = src,
                             !.target = dest, !.man = m, !.check = chk]
<1>6. /\ j \in Jobs
      /\ j.pc \in {"validate", "stage"}
      /\ j.target = dest /\ j.source = src /\ j.man = m
  BY <1>1, <1>3, <1>5 DEF Idle, Jobs, Steps
<1>7. job' \in [Operators -> Jobs] /\ JobOK'
  <2> HIDE DEF j, m, dest
  <2> QED BY <1>1, <1>3, <1>4, <1>6, RegisterStep DEF j
<1>8. commands' \in [issued : 0..MaxCommands, alone : BOOLEAN]
  BY IssueType DEF PromoteInspect, IInv
<1> QED BY <1>7, <1>8 DEF IInv, TypeOK, PromoteInspect, historyVars

LEMMA PromoteStageIInv ==
  ASSUME IInv, NEW o \in Operators, PromoteStage(o)
  PROVE  IInv'
<1>1. job' \in [Operators -> Jobs] /\ JobOK'
  BY GotoStep DEF PromoteStage, Steps
<1>2. job[o].source \in Paths /\ job[o].target \in Paths
  BY PathFacts DEF IInv, JobOK, PromoteStage
<1>3. fs' \in [Paths -> Dirs \cup {None}]
  BY <1>2, PutStep DEF PromoteStage, IInv, TypeOK
<1> QED BY <1>1, <1>3 DEF IInv, TypeOK, PromoteStage, historyVars

LEMMA PromoteValidateIInv ==
  ASSUME IInv, NEW o \in Operators, PromoteValidate(o)
  PROVE  IInv'
<1>1. job' \in [Operators -> Jobs] /\ JobOK'
  BY GotoStep DEF PromoteValidate, Steps
<1> QED BY <1>1 DEF IInv, TypeOK, PromoteValidate, historyVars

LEMMA RollbackInspectIInv ==
  ASSUME IInv, NEW o \in Operators, RollbackInspect(o)
  PROVE  IInv'
<1> DEFINE t == fs[Current].man.prev
           j == [Idle EXCEPT !.pc = "validate", !.kind = "rollback", !.target = t]
<1>1. fs[Current] \in Dirs /\ fs[Current].man \in Manifests
  BY PathFacts, DirFacts DEF IInv, TypeOK, RollbackInspect
<1>2. t \in Retained /\ t \in Paths
  BY <1>1, PathFacts DEF RollbackInspect, Manifests
<1>3. j \in Jobs /\ j.pc = "validate" /\ j.target = t
  BY <1>2 DEF Idle, Jobs, Steps
<1>4. job' = [job EXCEPT ![o] = j]
  BY DEF RollbackInspect
<1>5. job' \in [Operators -> Jobs] /\ JobOK'
  <2> HIDE DEF j, t
  <2> QED BY <1>2, <1>3, <1>4, RegisterStep
<1>6. commands' \in [issued : 0..MaxCommands, alone : BOOLEAN]
  BY IssueType DEF RollbackInspect, IInv
<1> QED BY <1>5, <1>6 DEF IInv, TypeOK, RollbackInspect, historyVars

LEMMA RollbackValidateIInv ==
  ASSUME IInv, NEW o \in Operators, RollbackValidate(o)
  PROVE  IInv'
<1>1. job' \in [Operators -> Jobs] /\ JobOK'
  BY GotoStep DEF RollbackValidate, Steps
<1> QED BY <1>1 DEF IInv, TypeOK, RollbackValidate, historyVars
-----------------------------------------------------------------------------
LEMMA AsideFacts ==
  ASSUME IInv, NEW kind
  PROVE  AsidePath(kind) \in Retained
BY PathFacts DEF IInv, TypeOK, AsidePath

LEMMA ObserveIInv ==
  ASSUME IInv, NEW o \in Operators, Observe(o)
  PROVE  IInv'
<1>1. CASE Present(Current)
  <2> DEFINE j == [job[o] EXCEPT !.pc = "displace", !.aside = AsidePath(job[o].kind),
                                 !.hash = fs[Current].content]
  <2>1. fs[Current].content \in Contents \cup {None}
    BY <1>1, PathFacts, PresentDir, DirFacts DEF IInv
  <2>2. job[o] \in Jobs
    BY DEF IInv, TypeOK
  <2>3. j \in Jobs /\ j.pc = "displace" /\ j.aside \in Retained
        /\ j.target = job[o].target
    BY <2>1, <2>2, AsideFacts DEF Jobs, Steps
  <2>4. job[o].target \in Candidates \cup Retained
    BY DEF IInv, JobOK, Observe
  <2>5. job' = [job EXCEPT ![o] = j]
    BY <1>1 DEF Observe
  <2>6. job' \in [Operators -> Jobs] /\ JobOK'
    <3> HIDE DEF j
    <3> QED BY <2>3, <2>4, <2>5, RegisterStep
  <2> QED BY <2>6 DEF IInv, TypeOK, Observe, historyVars
<1>2. CASE ~Present(Current)
  <2>1. Goto(o, "swap")
    BY <1>2 DEF Observe, Goto
  <2>2. job' \in [Operators -> Jobs] /\ JobOK'
    BY <2>1, GotoStep DEF Observe, Steps
  <2> QED BY <2>2 DEF IInv, TypeOK, Observe, historyVars
<1> QED BY <1>1, <1>2

LEMMA DisplaceIInv ==
  ASSUME IInv, NEW o \in Operators, Displace(o)
  PROVE  IInv'
<1>1. job' \in [Operators -> Jobs] /\ JobOK'
  BY GotoStep DEF Displace, Steps
<1>2. job[o].aside \in Paths
  BY PathFacts DEF IInv, JobOK, Displace
<1>3. fs' \in [Paths -> Dirs \cup {None}]
  BY <1>2, PathFacts, PresentDir, MoveStep DEF Displace, IInv, CanRename
<1> QED BY <1>1, <1>3 DEF IInv, TypeOK, Displace, historyVars

LEMMA BecomesCurrentStep ==
  ASSUME TypeOK, NEW c \in Contents \cup {None}, BecomesCurrent(c)
  PROVE  owed' \subseteq Contents /\ last' \in Contents \cup {None}
         /\ wreck' \subseteq Paths
BY DEF TypeOK, BecomesCurrent

LEMMA SwapInIInv ==
  ASSUME IInv, NEW o \in Operators, SwapIn(o)
  PROVE  IInv'
<1>1. job' \in [Operators -> Jobs] /\ JobOK'
  BY GotoStep DEF SwapIn, Steps
<1>2. job[o].target \in Paths /\ Present(job[o].target)
  BY PathFacts DEF IInv, JobOK, SwapIn, CanRename
<1>3. fs[job[o].target] \in Dirs
  BY <1>2, PresentDir DEF IInv
<1>4. MovedAside(job[o]) \in Contents \cup {None}
  <2>1. job[o].aside \in Retained \cup {None}
    BY DEF IInv, TypeOK, Jobs
  <2> QED BY <2>1, PathFacts, PresentDir, DirFacts DEF MovedAside, IInv
<1> DEFINE d == IF job[o].kind = "promote"
                THEN [fs[job[o].target] EXCEPT !.displaced = MovedAside(job[o])]
                ELSE fs[job[o].target]
<1>5. d \in Dirs
  BY <1>3, <1>4, DirFacts
<1>6. fs' = Moved(job[o].target, Current, d)
  BY DEF SwapIn
<1>7. fs' \in [Paths -> Dirs \cup {None}]
  <2> HIDE DEF d
  <2> QED BY <1>2, <1>5, <1>6, PathFacts, MoveStep DEF IInv
<1>8. owed' \subseteq Contents /\ last' \in Contents \cup {None} /\ wreck' \subseteq Paths
  BY <1>3, DirFacts, BecomesCurrentStep DEF SwapIn, IInv
<1> QED BY <1>1, <1>7, <1>8 DEF IInv, TypeOK, SwapIn

LEMMA SwapFailsIInv ==
  ASSUME IInv, NEW o \in Operators, SwapFails(o)
  PROVE  IInv'
<1>1. CASE job[o].aside # None
  <2>1. job[o].aside \in Retained
    BY <1>1 DEF IInv, TypeOK, Jobs
  <2>2. job' \in [Operators -> Jobs] /\ JobOK'
    BY <1>1, <2>1, GotoStep DEF SwapFails, Steps
  <2> QED BY <2>2 DEF IInv, TypeOK, SwapFails, historyVars
<1>2. CASE job[o].aside = None
  <2>1. job' \in [Operators -> Jobs] /\ JobOK'
    BY <1>2, FinishStep DEF SwapFails
  <2> QED BY <2>1 DEF IInv, TypeOK, SwapFails, historyVars
<1> QED BY <1>1, <1>2

LEMMA RestoreIInv ==
  ASSUME IInv, NEW o \in Operators, Restore(o)
  PROVE  IInv'
<1>1. job' \in [Operators -> Jobs] /\ JobOK'
  BY FinishStep DEF Restore
<1>2. job[o].aside \in Paths /\ Present(job[o].aside)
  BY PathFacts DEF IInv, JobOK, Restore, CanRename
<1>3. fs[job[o].aside] \in Dirs
  BY <1>2, PresentDir DEF IInv
<1>4. fs' \in [Paths -> Dirs \cup {None}]
  BY <1>2, <1>3, PathFacts, MoveStep DEF Restore, IInv
<1>5. owed' \subseteq Contents /\ last' \in Contents \cup {None} /\ wreck' \subseteq Paths
  BY <1>3, DirFacts, BecomesCurrentStep DEF Restore, IInv
<1> QED BY <1>1, <1>4, <1>5 DEF IInv, TypeOK, Restore

LEMMA WreckFacts ==
  ASSUME IInv, NEW o \in Operators, job[o].pc # "idle"
  PROVE  Wreck(job[o]) \subseteq Paths
<1>1. job[o].target \in Paths /\ job[o].aside \in Retained \cup {None}
  BY PathFacts DEF IInv, TypeOK, JobOK, Jobs
<1> QED BY <1>1, PathFacts DEF Wreck

LEMMA RestoreFailsIInv ==
  ASSUME IInv, NEW o \in Operators, RestoreFails(o)
  PROVE  IInv'
<1>1. job' \in [Operators -> Jobs] /\ JobOK'
  BY FinishStep DEF RestoreFails
<1>2. wreck' \subseteq Paths
  BY WreckFacts DEF RestoreFails
<1> QED BY <1>1, <1>2 DEF IInv, TypeOK, RestoreFails
-----------------------------------------------------------------------------
LEMMA LegacyRecordType ==
  ASSUME NEW c \in Contents \cup {None}
  PROVE  LegacyRecord(c) \in Manifests
BY DEF LegacyRecord, Manifests, Builds, Labels

LEMMA ReadManifestIInv ==
  ASSUME IInv, NEW o \in Operators, ReadManifest(o)
  PROVE  IInv'
<1> DEFINE m == IF fs[Current] # None /\ fs[Current].man # None THEN fs[Current].man
                ELSE LegacyRecord(CurrentContent)
           j == [job[o] EXCEPT !.pc = "write", !.man = m]
<1>1. CurrentContent \in Contents \cup {None}
  BY PathFacts, PresentDir, DirFacts DEF CurrentContent, IInv
<1>2. m \in Manifests
  <2>1. fs[Current] # None => fs[Current] \in Dirs
    BY PathFacts DEF IInv, TypeOK
  <2> QED BY <1>1, <2>1, DirFacts, LegacyRecordType
<1>3. job[o] \in Jobs
  BY DEF IInv, TypeOK
<1>4. j \in Jobs /\ j.pc = "write" /\ j.man = m /\ j.target = job[o].target
  <2> HIDE DEF m
  <2> QED BY <1>2, <1>3 DEF Jobs, Steps
<1>5. job[o].target \in Candidates \cup Retained
  BY DEF IInv, JobOK, ReadManifest
<1>6. job' = [job EXCEPT ![o] = j]
  BY DEF ReadManifest
<1>7. job' \in [Operators -> Jobs] /\ JobOK'
  <2> HIDE DEF j, m
  <2> QED BY <1>2, <1>4, <1>5, <1>6, RegisterStep
<1> QED BY <1>7 DEF IInv, TypeOK, ReadManifest, historyVars

(* The directory that a manifest is written to, made if there is none. *)
LEMMA RewriteStep ==
  ASSUME TypeOK, NEW m \in Manifests \cup {None}
  PROVE  WithManifest(m) \in [Paths -> Dirs \cup {None}]
<1> DEFINE d == IF Present(Current) THEN [fs[Current] EXCEPT !.man = m]
                ELSE [content |-> None, man |-> m, rejected |-> FALSE, displaced |-> None]
<1>1. ASSUME Present(Current) PROVE [fs[Current] EXCEPT !.man = m] \in Dirs
  <2>1. fs[Current] \in Dirs
    BY <1>1, PathFacts, PresentDir
  <2> QED BY <2>1 DEF Dirs
<1>2. [content |-> None, man |-> m, rejected |-> FALSE, displaced |-> None] \in Dirs
  BY DEF Dirs
<1>3. d \in Dirs
  BY <1>1, <1>2
<1>4. WithManifest(m) = [fs EXCEPT ![Current] = d]
  BY PathFacts DEF WithManifest, TypeOK
<1> HIDE DEF d
<1> QED BY <1>3, <1>4, PathFacts, PutStep

LEMMA UpdatedType ==
  ASSUME NEW j \in Jobs, j.man \in Manifests
  PROVE  Updated(j) \in Manifests
BY DEF Updated, Jobs, Manifests, Labels

LEMMA WriteManifestIInv ==
  ASSUME IInv, NEW o \in Operators, WriteManifest(o)
  PROVE  IInv'
<1>1. job[o] \in Jobs /\ job[o].man \in Manifests
  BY DEF IInv, TypeOK, JobOK, WriteManifest
<1>2. fs' \in [Paths -> Dirs \cup {None}]
  BY <1>1, UpdatedType, RewriteStep DEF WriteManifest, IInv
<1>3. job' \in [Operators -> Jobs] /\ JobOK'
  <2>1. CASE job[o].kind = "promote"
    BY <2>1, GotoStep DEF WriteManifest, Steps
  <2>2. CASE job[o].kind # "promote"
    BY <2>2, FinishStep DEF WriteManifest
  <2> QED BY <2>1, <2>2
<1> QED BY <1>2, <1>3 DEF IInv, TypeOK, WriteManifest, historyVars

LEMMA RereadManifestIInv ==
  ASSUME IInv, NEW o \in Operators, RereadManifest(o)
  PROVE  IInv'
<1> DEFINE j == [job[o] EXCEPT !.pc = "record", !.man = fs[Current].man]
<1>1. fs[Current] \in Dirs /\ fs[Current].man \in Manifests
  BY PathFacts, PresentDir, DirFacts DEF IInv, RereadManifest
<1>2. job[o] \in Jobs /\ job[o].target \in Candidates \cup Retained
  BY DEF IInv, TypeOK, JobOK, RereadManifest
<1>3. j \in Jobs /\ j.pc = "record" /\ j.man \in Manifests /\ j.target = job[o].target
  BY <1>1, <1>2 DEF Jobs, Steps
<1>4. job' = [job EXCEPT ![o] = j]
  BY DEF RereadManifest
<1>5. job' \in [Operators -> Jobs] /\ JobOK'
  <2> HIDE DEF j
  <2> QED BY <1>2, <1>3, <1>4, RegisterStep
<1> QED BY <1>5 DEF IInv, TypeOK, RereadManifest, historyVars

LEMMA RecordCheckIInv ==
  ASSUME IInv, NEW o \in Operators, RecordCheck(o)
  PROVE  IInv'
<1>1. job[o] \in Jobs /\ job[o].man \in Manifests
  BY DEF IInv, TypeOK, JobOK, RecordCheck
<1>2. [job[o].man EXCEPT !.check = job[o].check] \in Manifests
  BY <1>1 DEF Jobs, Manifests
<1>3. fs' \in [Paths -> Dirs \cup {None}]
  BY <1>2, RewriteStep DEF RecordCheck, IInv
<1>4. job' \in [Operators -> Jobs] /\ JobOK'
  BY FinishStep DEF RecordCheck
<1> QED BY <1>3, <1>4 DEF IInv, TypeOK, RecordCheck, historyVars
-----------------------------------------------------------------------------
LEMMA FailIInv ==
  ASSUME IInv, NEW o \in Operators, Fail(o)
  PROVE  IInv'
<1>1. job' \in [Operators -> Jobs] /\ JobOK'
  BY FinishStep DEF Fail
<1> QED BY <1>1 DEF IInv, TypeOK, Fail, historyVars

LEMMA WriteBreaksIInv ==
  ASSUME IInv, NEW o \in Operators, WriteBreaks(o)
  PROVE  IInv'
<1>1. job' \in [Operators -> Jobs] /\ JobOK'
  BY FinishStep DEF WriteBreaks
<1>2. fs' \in [Paths -> Dirs \cup {None}]
  BY RewriteStep DEF WriteBreaks, IInv
<1> QED BY <1>1, <1>2 DEF IInv, TypeOK, WriteBreaks, historyVars

LEMMA CrashIInv ==
  ASSUME IInv, NEW o \in Operators, Crash(o)
  PROVE  IInv'
<1>1. job' \in [Operators -> Jobs] /\ JobOK'
  BY FinishStep DEF Crash
<1>2. wreck' \subseteq Paths
  BY WreckFacts DEF Crash, IInv, TypeOK
<1> QED BY <1>1, <1>2 DEF IInv, TypeOK, Crash

LEMMA RecoverByHandIInv ==
  ASSUME IInv, NEW p \in Paths, RecoverByHand(p)
  PROVE  IInv'
<1>1. fs[p] \in Dirs
  BY PresentDir DEF IInv, RecoverByHand
<1> DEFINE d == IF p \in Candidates THEN [fs[p] EXCEPT !.displaced = last] ELSE fs[p]
<1>2. d \in Dirs
  BY <1>1, DirFacts DEF IInv, TypeOK
<1>3. fs' = Moved(p, Current, d)
  BY DEF RecoverByHand
<1>4. fs' \in [Paths -> Dirs \cup {None}]
  <2> HIDE DEF d
  <2> QED BY <1>2, <1>3, PathFacts, MoveStep DEF IInv
<1>5. owed' \subseteq Contents /\ last' \in Contents \cup {None} /\ wreck' \subseteq Paths
  BY <1>1, DirFacts, BecomesCurrentStep DEF RecoverByHand, IInv
<1> QED BY <1>4, <1>5 DEF IInv, TypeOK, JobOK, RecoverByHand

LEMMA DamageIInv ==
  ASSUME IInv, NEW p \in Paths, NEW x \in Corrupt, Damage(p, x)
  PROVE  IInv'
<1>1. fs[p] \in Dirs
  BY PresentDir DEF IInv, Damage
<1>2. [fs[p] EXCEPT !.content = x] \in Dirs
  BY <1>1, DirFacts
<1>3. fs' = [fs EXCEPT ![p] = [fs[p] EXCEPT !.content = x]]
  BY DEF Damage, IInv, TypeOK
<1>4. fs' \in [Paths -> Dirs \cup {None}]
  BY <1>2, <1>3, PutStep DEF IInv
<1> QED BY <1>4 DEF IInv, TypeOK, JobOK, Damage

LEMMA TickIInv ==
  ASSUME IInv, Tick
  PROVE  IInv'
BY DEF IInv, TypeOK, JobOK, Tick, Times, historyVars

LEMMA NextIInv == IInv /\ [Next]_vars => IInv'
<1> SUFFICES ASSUME IInv, [Next]_vars PROVE IInv'
  OBVIOUS
<1>1. CASE UNCHANGED vars
  BY <1>1 DEF vars, IInv, TypeOK, JobOK
<1>2. ASSUME NEW o \in Operators,
             \/ \E src \in Paths : PromoteInspect(o, src)
             \/ PromoteStage(o) \/ PromoteValidate(o)
             \/ RollbackInspect(o) \/ RollbackValidate(o)
             \/ Observe(o) \/ Displace(o)
             \/ SwapIn(o) \/ SwapFails(o) \/ Restore(o) \/ RestoreFails(o)
             \/ ReadManifest(o) \/ WriteManifest(o)
             \/ RereadManifest(o) \/ RecordCheck(o)
             \/ Fail(o) \/ WriteBreaks(o) \/ Crash(o)
      PROVE  IInv'
  BY <1>2, PromoteInspectIInv, PromoteStageIInv, PromoteValidateIInv,
     RollbackInspectIInv, RollbackValidateIInv, ObserveIInv, DisplaceIInv,
     SwapInIInv, SwapFailsIInv, RestoreIInv, RestoreFailsIInv,
     ReadManifestIInv, WriteManifestIInv, RereadManifestIInv,
     RecordCheckIInv, FailIInv, WriteBreaksIInv, CrashIInv
<1>3. CASE \E p \in Paths : RecoverByHand(p) \/ \E x \in Corrupt : Damage(p, x)
  BY <1>3, RecoverByHandIInv, DamageIInv
<1>4. CASE Tick
  BY <1>4, TickIInv
<1> QED BY <1>1, <1>2, <1>3, <1>4 DEF Next

(* The inductive invariant of the lifecycle. *)
THEOREM Invariance == Spec => []IInv
BY InitIInv, NextIInv, PTL DEF Spec

(* The variables of the lifecycle (volume, commands, histories) keep to    *)
(* their types through every step of lifecycle.py and promote_index.py.    *)
THEOREM TypeCorrect == Spec => []TypeOK
<1>1. IInv => TypeOK
  BY DEF IInv
<1> QED BY <1>1, Invariance, PTL
-----------------------------------------------------------------------------
(* What a step does to the directories an index is kept in. *)

Kept == Retained \cup {Current}

(* What a path holds: a directory without an index counts for nothing. *)
Holds(p) == IF Present(p) THEN fs[p].content ELSE None

(* The kept directories hold what they held. *)
KeptSame == \A p \in Kept : Holds(p)' = Holds(p)

(* What p held is at q, which held nothing and is a kept path. *)
KeptMove(p, q) ==
  /\ p # q /\ Present(p) /\ Holds(q) = None
  /\ ~Present(p)' /\ Present(q)'
  /\ fs'[q].content = fs[p].content
  /\ \A r \in Paths \ {p, q} : fs'[r] = fs[r]

LEMMA HoldsFacts ==
  ASSUME TypeOK, NEW p \in Paths
  PROVE  /\ Holds(p) \in Contents \cup {None}
         /\ Present(p) => Holds(p) = fs[p].content
         /\ ~Present(p) => Holds(p) = None
BY PresentDir, DirFacts DEF Holds

LEMMA MoveFacts ==
  ASSUME TypeOK, NEW p \in Paths, NEW q \in Paths, p # q, CanRename(p, q),
         NEW d \in Dirs, d.content = fs[p].content, fs' = Moved(p, q, d)
  PROVE  KeptMove(p, q)
<1>1. Holds(q) = None
  BY DEF CanRename, Vacant, Holds
<1>2. Present(p) /\ d # None
  BY DirFacts DEF CanRename
<1>3. fs'[p] = None /\ fs'[q] = d /\ \A r \in Paths \ {p, q} : fs'[r] = fs[r]
  BY DEF TypeOK, Moved
<1> QED BY <1>1, <1>2, <1>3 DEF KeptMove, Present

LEMMA RewriteFacts ==
  ASSUME TypeOK, NEW m \in Manifests \cup {None}, fs' = WithManifest(m)
  PROVE  KeptSame
<1>1. \A p \in Paths : p # Current => fs'[p] = fs[p]
  BY DEF TypeOK, WithManifest
<1>2. Holds(Current)' = Holds(Current)
  <2>1. CASE Present(Current)
    <3>1. fs[Current] \in Dirs
      BY <2>1, PathFacts, PresentDir
    <3>2. fs'[Current] = [fs[Current] EXCEPT !.man = m]
      BY <2>1, PathFacts DEF TypeOK, WithManifest
    <3>3. fs'[Current] \in Dirs /\ fs'[Current].content = fs[Current].content
      BY <3>1, <3>2 DEF Dirs
    <3> QED BY <2>1, <3>3, DirFacts DEF Holds, Present
  <2>2. CASE ~Present(Current)
    <3>1. fs'[Current].content = None
      BY <2>2, PathFacts DEF TypeOK, WithManifest
    <3> QED BY <2>2, <3>1 DEF Holds
  <2> QED BY <2>1, <2>2
<1> QED BY <1>1, <1>2, PathFacts DEF KeptSame, Kept, Holds, Present

(* Every step keeps the directories, retires the current one, installs     *)
(* one, or is damage from outside.                                         *)
LEMMA StepShape ==
  ASSUME IInv, [Next]_vars
  PROVE  \/ KeptSame /\ owed' = owed
         \/ \E q \in Retained : KeptMove(Current, q) /\ owed' = owed
         \/ \E p \in Paths : /\ KeptMove(p, Current)
                             /\ owed' = owed \cup ({fs[p].content} \ {None})
         \/ \E p \in Retained, x \in Corrupt :
              /\ Present(p) /\ fs[p].content # None
              /\ fs' = [fs EXCEPT ![p].content = x]
              /\ owed' = owed \ {fs[p].content}
<1>1. ASSUME fs' = fs PROVE KeptSame
  BY <1>1 DEF KeptSame, Holds, Present
<1>2. CASE UNCHANGED vars
  BY <1>1, <1>2 DEF vars
<1>3. CASE Tick
  BY <1>1, <1>3 DEF Tick, historyVars
<1>4. ASSUME NEW o \in Operators,
             \/ \E src \in Paths : PromoteInspect(o, src)
             \/ PromoteValidate(o) \/ RollbackInspect(o) \/ RollbackValidate(o)
             \/ Observe(o) \/ SwapFails(o) \/ RestoreFails(o)
             \/ ReadManifest(o) \/ RereadManifest(o) \/ Fail(o) \/ Crash(o)
      PROVE  KeptSame /\ owed' = owed
  BY <1>1, <1>4 DEF PromoteInspect, PromoteValidate, RollbackInspect,
     RollbackValidate, Observe, SwapFails, RestoreFails, ReadManifest,
     RereadManifest, Fail, Crash, historyVars
<1>5. ASSUME NEW o \in Operators, PromoteStage(o)
      PROVE  KeptSame /\ owed' = owed
  <2>1. job[o].target \in Paths /\ ~Present(job[o].target)
    BY <1>5, PathFacts DEF IInv, JobOK, PromoteStage
  <2>2. job[o].target \in Candidates
    BY <1>5 DEF IInv, JobOK, PromoteStage
  <2>3. job[o].target \notin Kept
    BY <2>2 DEF Kept, Candidates, Candidate, Retained, Previous, Rolled, Current
  <2>4. \A p \in Kept : fs'[p] = fs[p]
    BY <1>5, <2>1, <2>3, PathFacts DEF PromoteStage, IInv, TypeOK, Kept
  <2> QED BY <1>5, <2>4 DEF KeptSame, Holds, Present, PromoteStage, historyVars
<1>6. ASSUME NEW o \in Operators, Displace(o)
      PROVE  \E q \in Retained : KeptMove(Current, q) /\ owed' = owed
  <2>1. job[o].aside \in Retained
    BY <1>6 DEF IInv, JobOK, Displace
  <2>2. fs[Current] \in Dirs
    BY <1>6, PathFacts, PresentDir DEF IInv, Displace, CanRename
  <2>3. job[o].aside \in Paths /\ job[o].aside # Current
    BY <2>1, PathFacts
  <2>4. KeptMove(Current, job[o].aside)
    BY <1>6, <2>2, <2>3, PathFacts, MoveFacts DEF IInv, Displace
  <2> QED BY <1>6, <2>1, <2>4 DEF Displace, historyVars
<1>7. ASSUME NEW o \in Operators, SwapIn(o)
      PROVE  \E p \in Paths : /\ KeptMove(p, Current)
                              /\ owed' = owed \cup ({fs[p].content} \ {None})
  <2> DEFINE t == job[o].target
             d == IF job[o].kind = "promote"
                  THEN [fs[t] EXCEPT !.displaced = MovedAside(job[o])] ELSE fs[t]
  <2>1. t \in Paths /\ CanRename(t, Current) /\ t # Current
    BY <1>7, PathFacts, TargetNotCurrent DEF IInv, JobOK, SwapIn
  <2>2. fs[t] \in Dirs
    BY <2>1, PresentDir DEF IInv, CanRename
  <2>3. MovedAside(job[o]) \in Contents \cup {None}
    <3>1. job[o].aside \in Retained \cup {None}
      BY DEF IInv, TypeOK, Jobs
    <3> QED BY <3>1, PathFacts, PresentDir, DirFacts DEF MovedAside, IInv
  <2>4. d \in Dirs /\ d.content = fs[t].content
    BY <2>2, <2>3, DirFacts DEF Dirs
  <2>5. fs' = Moved(t, Current, d)
    BY <1>7 DEF SwapIn
  <2>6. KeptMove(t, Current)
    <3> HIDE DEF d, t
    <3> QED BY <2>1, <2>4, <2>5, PathFacts, MoveFacts DEF IInv
  <2> QED BY <1>7, <2>1, <2>6 DEF SwapIn, BecomesCurrent
<1>8. ASSUME NEW o \in Operators, Restore(o)
      PROVE  \E p \in Paths : /\ KeptMove(p, Current)
                              /\ owed' = owed \cup ({fs[p].content} \ {None})
  <2>1. job[o].aside \in Paths /\ CanRename(job[o].aside, Current) /\ job[o].aside # Current
    BY <1>8, PathFacts DEF IInv, JobOK, Restore
  <2>2. fs[job[o].aside] \in Dirs
    BY <2>1, PresentDir DEF IInv, CanRename
  <2>3. KeptMove(job[o].aside, Current)
    BY <1>8, <2>1, <2>2, PathFacts, MoveFacts DEF IInv, Restore
  <2> QED BY <1>8, <2>1, <2>3 DEF Restore, BecomesCurrent
<1>9. ASSUME NEW o \in Operators, WriteManifest(o) \/ RecordCheck(o) \/ WriteBreaks(o)
      PROVE  KeptSame /\ owed' = owed
  <2>1. ASSUME WriteManifest(o) \/ RecordCheck(o)
        PROVE  \E m \in Manifests : fs' = WithManifest(m)
    <3>1. job[o] \in Jobs /\ job[o].man \in Manifests
      BY <2>1 DEF IInv, TypeOK, JobOK, WriteManifest, RecordCheck
    <3>2. /\ Updated(job[o]) \in Manifests
          /\ [job[o].man EXCEPT !.check = job[o].check] \in Manifests
      BY <3>1, UpdatedType DEF Jobs, Manifests
    <3> QED BY <2>1, <3>2 DEF WriteManifest, RecordCheck
  <2>2. WriteBreaks(o) => fs' = WithManifest(None)
    BY DEF WriteBreaks
  <2>3. KeptSame
    BY <1>9, <2>1, <2>2, RewriteFacts DEF IInv
  <2> QED BY <1>9, <2>3 DEF WriteManifest, RecordCheck, WriteBreaks, historyVars
<1>10. ASSUME NEW p \in Paths, RecoverByHand(p)
       PROVE  KeptMove(p, Current) /\ owed' = owed \cup ({fs[p].content} \ {None})
  <2> DEFINE d == IF p \in Candidates THEN [fs[p] EXCEPT !.displaced = last] ELSE fs[p]
  <2>1. CanRename(p, Current) /\ p # Current /\ fs[p] \in Dirs
    BY <1>10, PresentDir DEF IInv, RecoverByHand, CanRename
  <2>2. d \in Dirs /\ d.content = fs[p].content
    BY <2>1, DirFacts DEF Dirs, IInv, TypeOK
  <2>3. fs' = Moved(p, Current, d)
    BY <1>10 DEF RecoverByHand
  <2>4. KeptMove(p, Current)
    <3> HIDE DEF d
    <3> QED BY <2>1, <2>2, <2>3, PathFacts, MoveFacts DEF IInv
  <2> QED BY <1>10, <2>4 DEF RecoverByHand, BecomesCurrent
<1>11. ASSUME NEW p \in Paths, NEW x \in Corrupt, Damage(p, x)
       PROVE  /\ p \in Retained /\ Present(p) /\ fs[p].content # None
              /\ fs' = [fs EXCEPT ![p].content = x]
              /\ owed' = owed \ {fs[p].content}
  BY <1>11 DEF Damage
<1> QED BY <1>2, <1>3, <1>4, <1>5, <1>6, <1>7, <1>8, <1>9, <1>10, <1>11 DEF Next
-----------------------------------------------------------------------------
(* Conservation *)

LEMMA InitNoIndexLost == Init => NoIndexLost
BY PathFacts DEF Init, NoIndexLost, Present

(* Conservation in terms of what the kept paths hold. *)
LEMMA LossFacts ==
  ASSUME TypeOK
  PROVE  NoIndexLost <=> \A c \in owed : \E p \in Kept : Holds(p) = c
BY PathFacts DEF NoIndexLost, Kept, Holds, TypeOK

LEMMA NextNoIndexLost == IInv /\ IInv' /\ NoIndexLost /\ [Next]_vars => NoIndexLost'
<1> SUFFICES ASSUME IInv, IInv', NoIndexLost, [Next]_vars PROVE NoIndexLost'
  OBVIOUS
<1>1. \A e \in owed : \E p \in Kept : Holds(p) = e
  BY LossFacts DEF IInv
<1>2. Kept \subseteq Paths /\ Current \in Kept /\ Retained \subseteq Kept /\ Current \in Paths
  BY PathFacts DEF Kept
<1>n. None \notin owed /\ None \notin owed'
  BY DEF IInv, TypeOK
<1>3. CASE KeptSame /\ owed' = owed
  BY <1>1, <1>3, <1>n DEF KeptSame, NoIndexLost, Kept, Holds
<1>m. ASSUME NEW p \in Paths, NEW q \in Kept, KeptMove(p, q),
             owed' \subseteq owed \cup {fs[p].content}
      PROVE  NoIndexLost'
  <2>1. Holds(q)' = fs[p].content
    BY <1>m DEF KeptMove, Holds
  <2>2. \A r \in Kept \ {p, q} : Holds(r)' = Holds(r)
    BY <1>2, <1>m DEF KeptMove, Holds, Present
  <2>3. Holds(p) = fs[p].content /\ Holds(q) = None
    BY <1>m DEF KeptMove, Holds
  <2>4. \A c \in owed' : \E r \in Kept : Holds(r)' = c
    BY <1>1, <1>m, <1>n, <2>1, <2>2, <2>3
  <2> QED BY <1>n, <2>4 DEF NoIndexLost, Kept, Holds
<1>4. CASE \E q \in Retained : KeptMove(Current, q) /\ owed' = owed
  BY <1>2, <1>4, <1>m
<1>5. CASE \E p \in Paths : KeptMove(p, Current) /\ owed' = owed \cup ({fs[p].content} \ {None})
  BY <1>2, <1>5, <1>m
<1>6. ASSUME NEW p \in Retained, NEW x \in Corrupt,
             Present(p), fs' = [fs EXCEPT ![p].content = x],
             owed' = owed \ {fs[p].content}
      PROVE  NoIndexLost'
  <2>1. \A r \in Kept \ {p} : Holds(r)' = Holds(r)
    BY <1>2, <1>6 DEF Holds, Present, IInv, TypeOK
  <2>2. Holds(p) = fs[p].content
    BY <1>6 DEF Holds
  <2>3. \A c \in owed' : \E r \in Kept : Holds(r)' = c
    BY <1>1, <1>6, <2>1, <2>2
  <2> QED BY <1>n, <2>3 DEF NoIndexLost, Kept, Holds
<1> QED BY <1>3, <1>4, <1>5, <1>6, StepShape

(* No content that was ever in faiss_index disappears from the volume, for *)
(* any number of racing commands, crashes and failed undos: os.replace     *)
(* overwrites nothing but the empty directory a racing write_manifest may  *)
(* have made, and nothing else in the lifecycle deletes an index.          *)
THEOREM Conservation == Spec => []NoIndexLost
<1>1. Init => IInv /\ NoIndexLost
  BY InitIInv, InitNoIndexLost
<1>2. (IInv /\ NoIndexLost) /\ [Next]_vars => (IInv /\ NoIndexLost)'
  BY NextIInv, NextNoIndexLost
<1> QED BY <1>1, <1>2, PTL DEF Spec
-----------------------------------------------------------------------------
(* Refinement *)

LEMMA RetainedFacts == RetainedContent = {Holds(p) : p \in Retained} \ {None}
BY DEF RetainedContent, Holds

LEMMA CurrentContentFacts ==
  ASSUME TypeOK
  PROVE  /\ CurrentContent = Holds(Current)
         /\ Present(Current) => CurrentContent = fs[Current].content
         /\ ~Present(Current) => CurrentContent = None
         /\ CurrentContent \in Contents \cup {None}
BY PathFacts, PresentDir, DirFacts DEF CurrentContent, Holds

LEMMA InitStore == Init => Store!Init
<1> SUFFICES ASSUME Init PROVE Store!Init
  OBVIOUS
<1>1. TypeOK
  BY InitIInv DEF IInv
<1>2. \A p \in Retained : ~Present(p)
  <2> SUFFICES ASSUME NEW p \in Retained PROVE fs[p] = None
    BY DEF Present
  <2>1. p \in Paths /\ p # Current /\ p \notin Candidates /\ p \notin MountPaths
    BY PathFacts DEF Retained, Previous, Rolled, Candidates, Candidate, MountPaths, Mount
  <2>2. p \notin DOMAIN Shelf
    BY <2>1
  <2> QED BY <2>1, <2>2 DEF Init
<1>3. RetainedContent = {}
  BY <1>2 DEF RetainedContent
<1> QED BY <1>1, <1>3, CurrentContentFacts DEF Store!Init

LEMMA NextStore == IInv /\ IInv' /\ [Next]_vars => [Store!Next]_(Store!storeVars)
<1> SUFFICES ASSUME IInv, IInv', [Next]_vars PROVE [Store!Next]_(Store!storeVars)
  OBVIOUS
<1> DEFINE held == {Holds(p) : p \in Retained} \ {None}
<1>t. TypeOK /\ TypeOK'
  BY DEF IInv
<1>c. CurrentContent = Holds(Current) /\ CurrentContent' = Holds(Current)'
  BY DEF CurrentContent, Holds
<1>r. RetainedContent = held /\ RetainedContent' = {Holds(p)' : p \in Retained} \ {None}
  BY RetainedFacts DEF RetainedContent, Holds
<1>k. Current \notin Retained /\ Current \in Paths /\ Retained \subseteq Paths
  BY PathFacts
<1>h. \A p \in Paths : Holds(p) \in Contents \cup {None}
  BY <1>t, HoldsFacts
<1> HIDE DEF held
<1>1. CASE KeptSame
  <2>1. CurrentContent' = CurrentContent
    BY <1>1, <1>c DEF KeptSame, Kept
  <2>2. RetainedContent' = RetainedContent
    BY <1>1, <1>r DEF KeptSame, Kept, held
  <2> QED BY <2>1, <2>2 DEF Store!storeVars
<1>m. ASSUME NEW p \in Paths, NEW q \in Paths, KeptMove(p, q)
      PROVE  /\ Holds(q) = None /\ Holds(p)' = None /\ Holds(q)' = Holds(p)
             /\ \A r \in Paths \ {p, q} : Holds(r)' = Holds(r)
             /\ p # q
  BY <1>m DEF KeptMove, Holds, Present
<1>2. ASSUME NEW q \in Retained, KeptMove(Current, q)
      PROVE  Store!Retire \/ UNCHANGED Store!storeVars
  <2>1. /\ Holds(q) = None /\ Holds(Current)' = None /\ Holds(q)' = CurrentContent
        /\ \A r \in Retained \ {q} : Holds(r)' = Holds(r)
    BY <1>2, <1>k, <1>c, <1>m
  <2>2. RetainedContent' = (RetainedContent \cup {CurrentContent}) \ {None}
    BY <1>r, <2>1 DEF held
  <2>3. CurrentContent' = None /\ None \notin RetainedContent
    BY <1>c, <1>r, <2>1 DEF held
  <2> QED BY <2>2, <2>3 DEF Store!Retire, Store!storeVars
<1>3. ASSUME NEW p \in Paths, KeptMove(p, Current)
      PROVE  (\E c \in Contents : Store!Install(c)) \/ UNCHANGED Store!storeVars
  <2> DEFINE c == Holds(p)
  <2>1. /\ CurrentContent = None /\ CurrentContent' = c /\ p # Current
        /\ Holds(p)' = None
        /\ \A r \in Retained \ {p} : Holds(r)' = Holds(r)
    BY <1>3, <1>k, <1>c, <1>m
  <2>2. c \in Contents \cup {None}
    BY <1>h
  <2> HIDE DEF c
  <2>3. RetainedContent' \in {RetainedContent, RetainedContent \ {c}}
    <3>1. CASE p \notin Retained
      <4>1. \A r \in Retained : Holds(r)' = Holds(r)
        BY <2>1, <3>1
      <4> QED BY <4>1, <1>r DEF held
    <3>2. CASE p \in Retained
      <4>1. CASE \E r \in Retained \ {p} : Holds(r) = c
        <5>1. RetainedContent' = RetainedContent
          BY <1>r, <2>1, <3>2, <4>1 DEF held, c
        <5> QED BY <5>1
      <4>2. CASE ~\E r \in Retained \ {p} : Holds(r) = c
        <5>1. RetainedContent' = RetainedContent \ {c}
          BY <1>r, <2>1, <3>2, <4>2 DEF held, c
        <5> QED BY <5>1
      <4> QED BY <4>1, <4>2
    <3> QED BY <3>1, <3>2
  <2>4. None \notin RetainedContent
    BY <1>r DEF held
  <2>5. CASE c = None
    BY <2>1, <2>3, <2>4, <2>5 DEF Store!storeVars
  <2>6. CASE c # None
    BY <2>1, <2>2, <2>3, <2>6 DEF Store!Install
  <2> QED BY <2>5, <2>6
<1>4. ASSUME NEW p \in Retained, NEW x \in Corrupt, Present(p), fs[p].content # None,
             fs' = [fs EXCEPT ![p].content = x]
      PROVE  \E c \in RetainedContent : Store!Spoil(c, x)
  <2> DEFINE c == fs[p].content
  <2>1. c = Holds(p) /\ c \in RetainedContent
    BY <1>4, <1>r DEF held, Holds
  <2>2. fs[p] \in Dirs
    BY <1>4, <1>k, <1>t, PresentDir
  <2>3. fs'[p] = [fs[p] EXCEPT !.content = x]
    BY <1>4, <1>k, <1>t DEF TypeOK
  <2>4. Holds(p)' = x
    <3>1. fs'[p] \in Dirs /\ fs'[p].content = x
      BY <2>2, <2>3, DirFacts DEF Dirs
    <3> QED BY <3>1, DirFacts DEF Holds, Present
  <2>5. \A r \in Paths \ {p} : Holds(r)' = Holds(r)
    BY <1>4, <1>t DEF TypeOK, Holds, Present
  <2>6. CurrentContent' = CurrentContent
    BY <1>k, <1>c, <2>5
  <2>7. x # None
    OBVIOUS
  <2> HIDE DEF c
  <2>8. CASE \E r \in Retained \ {p} : Holds(r) = c
    <3>1. RetainedContent' = RetainedContent \cup {x}
      BY <1>k, <1>r, <2>1, <2>4, <2>5, <2>7, <2>8 DEF held
    <3> QED BY <2>1, <2>6, <3>1 DEF Store!Spoil
  <2>9. CASE ~\E r \in Retained \ {p} : Holds(r) = c
    <3>1. RetainedContent' = (RetainedContent \ {c}) \cup {x}
      BY <1>k, <1>r, <2>1, <2>4, <2>5, <2>7, <2>9 DEF held
    <3> QED BY <2>1, <2>6, <3>1 DEF Store!Spoil
  <2> QED BY <2>8, <2>9
<1>q. QED
  <2>1. CASE KeptSame
    BY <1>1, <2>1
  <2>2. CASE \E q \in Retained : KeptMove(Current, q)
    BY <1>2, <2>2 DEF Store!Next
  <2>3. CASE \E p \in Paths : KeptMove(p, Current)
    BY <1>3, <2>3 DEF Store!Next
  <2>4. CASE \E p \in Retained, x \in Corrupt :
               Present(p) /\ fs[p].content # None /\ fs' = [fs EXCEPT ![p].content = x]
    BY <1>4, <2>4 DEF Store!Next
  <2> QED BY <2>1, <2>2, <2>3, <2>4, StepShape

(* The lifecycle implements the abstract store: what leaves faiss_index is *)
(* retained, and faiss_index is filled only when it is vacant.             *)
THEOREM Refinement == Spec => ImplementsStore
<1>1. IInv /\ IInv' /\ [Next]_vars => [Store!Next]_(Store!storeVars)
  BY NextStore
<1> QED BY <1>1, InitStore, Invariance, PTL DEF Spec, ImplementsStore, Store!Spec
-----------------------------------------------------------------------------
(* The runbook has one operator, who issues one command after another. *)
OneCommand == \A a, b \in Operators : a = b

Swapping  == {"observe", "displace", "swap", "restore"}
Rewriting == {"read", "write", "reread", "record"}

(* Where the directories are at each step of the only command. *)
InStep ==
  \A o \in Operators : LET j == job[o] IN
    /\ j.pc # "idle" => \/ j.kind = "promote" /\ j.target \in Candidates
                        \/ j.kind = "rollback" /\ j.target \in Retained
    /\ j.pc \in {"stage", "reread", "record"} => j.kind = "promote"
    /\ j.pc \in {"stage", "validate", "observe"} => j.aside = None
    /\ j.pc \in Swapping => Present(j.target)
    /\ j.pc = "displace" =>
         /\ Present(Current)
         /\ fs[Current].content = j.hash
    /\ j.pc \in {"swap", "restore"} =>
         /\ ~Present(Current)
         /\ j.aside # None => /\ Present(j.aside)
                              /\ fs[j.aside].content = j.hash
    /\ j.pc \in Rewriting => Present(Current)
    /\ j.pc = "write" =>
         j.man = IF fs[Current].man = None THEN LegacyRecord(fs[Current].content)
                 ELSE fs[Current].man
    /\ j.pc = "write" /\ j.kind = "promote" => fs[Current].man # None
    /\ j.pc = "record" => j.man = fs[Current].man

(* The command has moved the current index aside and not yet replaced it. *)
InWindow == \E o \in Operators : job[o].pc \in {"swap", "restore"} /\ job[o].aside # None

(* While nothing is current, the choices of the operator are all there. *)
WreckStands ==
  /\ wreck \subseteq Candidates \cup Retained
  /\ ~Present(Current) /\ last # None /\ ~InWindow
       => wreck # {} /\ \A p \in wreck : Present(p)

(* No directory has been made without an index. *)
Furnished == \A p \in Paths : Present(p) => fs[p].content # None

MInv == IInv /\ InStep /\ WreckStands /\ Furnished
-----------------------------------------------------------------------------
(* Where the steps lead *)

LEMMA KindsOfPaths ==
  /\ \A p \in Candidates : p \in Paths /\ p # Current /\ p \notin Retained
  /\ \A p \in Retained : p \in Paths /\ p # Current /\ p \notin Candidates
  /\ \A p \in MountPaths : p \in Paths /\ p # Current /\ p \notin Retained
                           /\ p \notin Candidates
  /\ Current \in Paths /\ Current \notin Retained /\ Current \notin Candidates
  /\ Current \notin MountPaths
BY DEF Paths, Current, Retained, Previous, Rolled, Candidates, Candidate,
       MountPaths, Mount

LEMMA OnlyJob ==
  ASSUME TypeOK, OneCommand, NEW o \in Operators, NEW j,
         job' = [job EXCEPT ![o] = j]
  PROVE  \A q \in Operators : q = o /\ job'[q] = j
BY DEF TypeOK, OneCommand

LEMMA FinishJob ==
  ASSUME TypeOK, OneCommand, NEW o \in Operators, Finish(o)
  PROVE  \A q \in Operators : /\ q = o /\ job'[q] = Idle
                              /\ job'[q].pc = "idle"
<1>1. Idle.pc = "idle"
  BY DEF Idle
<1> QED BY <1>1, OnlyJob DEF Finish

LEMMA GotoJob ==
  ASSUME TypeOK, OneCommand, NEW o \in Operators, NEW s, Goto(o, s)
  PROVE  \A q \in Operators :
           /\ q = o /\ job'[q].pc = s
           /\ job'[q].kind = job[o].kind /\ job'[q].target = job[o].target
           /\ job'[q].aside = job[o].aside /\ job'[q].hash = job[o].hash
           /\ job'[q].man = job[o].man /\ job'[q].source = job[o].source
<1> DEFINE j == [job[o] EXCEPT !.pc = s]
<1>1. job[o] \in Jobs
  BY DEF TypeOK
<1>2. /\ j.pc = s /\ j.kind = job[o].kind /\ j.target = job[o].target
      /\ j.aside = job[o].aside /\ j.hash = job[o].hash
      /\ j.man = job[o].man /\ j.source = job[o].source
  BY <1>1 DEF Jobs
<1>3. job' = [job EXCEPT ![o] = j]
  BY DEF Goto
<1> HIDE DEF j
<1> QED BY <1>2, <1>3, OnlyJob

LEMMA MovedFacts ==
  ASSUME TypeOK, NEW p \in Paths, NEW q \in Paths, p # q, NEW d,
         fs' = Moved(p, q, d)
  PROVE  /\ fs'[p] = None /\ fs'[q] = d
         /\ \A r \in Paths \ {p, q} : fs'[r] = fs[r]
BY DEF TypeOK, Moved

LEMMA Rewritten ==
  ASSUME TypeOK, Present(Current), NEW m \in Manifests, fs' = WithManifest(m)
  PROVE  /\ Present(Current)' /\ fs'[Current].man = m
         /\ fs'[Current].content = fs[Current].content
         /\ fs'[Current].displaced = fs[Current].displaced
         /\ fs'[Current].rejected = fs[Current].rejected
         /\ \A r \in Paths : r # Current => fs'[r] = fs[r]
<1>1. fs[Current] \in Dirs
  BY PathFacts, PresentDir
<1>2. fs'[Current] = [fs[Current] EXCEPT !.man = m]
  BY PathFacts DEF TypeOK, WithManifest
<1>3. /\ fs'[Current] \in Dirs /\ fs'[Current].man = m
      /\ fs'[Current].content = fs[Current].content
      /\ fs'[Current].displaced = fs[Current].displaced
      /\ fs'[Current].rejected = fs[Current].rejected
  BY <1>1, <1>2, DirFacts DEF Dirs
<1>4. fs'[Current] # None
  BY <1>3, DirFacts
<1>5. \A p \in Paths : p # Current => fs'[p] = fs[p]
  BY DEF TypeOK, WithManifest
<1> QED BY <1>3, <1>4, <1>5 DEF Present

LEMMA Damaged ==
  ASSUME TypeOK, NEW p \in Paths, NEW x \in Corrupt, Present(p),
         fs' = [fs EXCEPT ![p].content = x]
  PROVE  /\ Present(p)' /\ fs'[p].content = x
         /\ fs'[p].man = fs[p].man /\ fs'[p].displaced = fs[p].displaced
         /\ \A r \in Paths : r # p => fs'[r] = fs[r]
<1>1. fs[p] \in Dirs /\ x \in Contents
  BY PresentDir
<1>2. fs'[p] = [fs[p] EXCEPT !.content = x]
  BY DEF TypeOK
<1>3. fs'[p] \in Dirs /\ fs'[p].content = x /\ fs'[p].man = fs[p].man
      /\ fs'[p].displaced = fs[p].displaced
  BY <1>1, <1>2, DirFacts DEF Dirs
<1>4. fs'[p] # None
  BY <1>3, DirFacts
<1>5. \A r \in Paths : r # p => fs'[r] = fs[r]
  BY DEF TypeOK
<1> QED BY <1>3, <1>4, <1>5 DEF Present
-----------------------------------------------------------------------------
(* Every step of the command finds the directories where it needs them.    *)

LEMMA InitMInv == Init => InStep /\ WreckStands /\ Furnished
<1> SUFFICES ASSUME Init PROVE InStep /\ WreckStands /\ Furnished
  OBVIOUS
<1>1. \A o \in Operators : job[o].pc = "idle"
  BY DEF Init, Idle
<1>2. InStep
  BY <1>1 DEF InStep, Swapping, Rewriting
<1>3. last # None => Present(Current)
  BY PathFacts DEF Init, Present
<1>4. WreckStands
  BY <1>3 DEF Init, WreckStands
<1>5. Furnished
  BY VolumeAssumption DEF Init, Furnished, Present
<1> QED BY <1>2, <1>4, <1>5

(* A step of the command that leaves the volume alone. *)
LEMMA RegisterMInv ==
  ASSUME MInv, OneCommand, NEW o \in Operators, NEW j,
         \A q \in Operators : q = o /\ job'[q] = j,
         fs' = fs, last' = last, wreck' = wreck,
         j.pc # "idle" => \/ j.kind = "promote" /\ j.target \in Candidates
                          \/ j.kind = "rollback" /\ j.target \in Retained,
         j.pc \in {"stage", "reread", "record"} => j.kind = "promote",
         j.pc \in {"stage", "validate", "observe"} => j.aside = None,
         j.pc \in Swapping => Present(j.target),
         j.pc = "displace" => Present(Current) /\ fs[Current].content = j.hash,
         j.pc \in {"swap", "restore"} =>
           /\ ~Present(Current)
           /\ j.aside # None => Present(j.aside) /\ fs[j.aside].content = j.hash,
         j.pc \in Rewriting => Present(Current),
         j.pc = "write" =>
           j.man = IF fs[Current].man = None THEN LegacyRecord(fs[Current].content)
                   ELSE fs[Current].man,
         j.pc = "write" /\ j.kind = "promote" => fs[Current].man # None,
         j.pc = "record" => j.man = fs[Current].man,
         InWindow => InWindow'
  PROVE  InStep' /\ WreckStands'
<1>1. \A p : Present(p)' <=> Present(p)
  BY DEF Present
<1>2. InStep'
  BY <1>1 DEF InStep
<1>3. WreckStands'
  BY <1>1 DEF WreckStands, MInv
<1> QED BY <1>2, <1>3

LEMMA PromoteInspectMInv ==
  ASSUME MInv, OneCommand, NEW o \in Operators, NEW src \in Paths, PromoteInspect(o, src)
  PROVE  InStep' /\ WreckStands'
<1> DEFINE m == fs[src].man
           dest == Candidate(m.build)
<1>1. m \in Manifests
  BY DirFacts DEF MInv, IInv, TypeOK, PromoteInspect, SourceAccepted, Validates
<1>2. dest \in Candidates
  BY <1>1, PathFacts DEF Manifests
<1>3. PICK chk \in CheckOutcomes(fs[src].content) :
        job' = [job EXCEPT ![o] =
          [Idle EXCEPT !.pc = IF src = dest THEN "validate" ELSE "stage",
                       !.kind = "promote", !.source = src,
                       !.target = dest, !.man = m, !.check = chk]]
  BY DEF PromoteInspect
<1> DEFINE j == [Idle EXCEPT !.pc = IF src = dest THEN "validate" ELSE "stage",
                             !.kind = "promote", !.source = src,
                             !.target = dest, !.man = m, !.check = chk]
<1>4. /\ j.pc \in {"validate", "stage"} /\ j.kind = "promote"
      /\ j.target = dest /\ j.aside = None
  BY DEF Idle
<1>5. ~InWindow
  BY DEF InWindow, PromoteInspect, Issue, OneCommand
<1>6. \A q \in Operators : q = o /\ job'[q] = j
  <2>1. job' = [job EXCEPT ![o] = j]
    BY <1>3
  <2> HIDE DEF j
  <2> QED BY <2>1, OnlyJob DEF MInv, IInv
<1>7. fs' = fs /\ last' = last /\ wreck' = wreck
  BY DEF PromoteInspect, historyVars
<1> HIDE DEF j, dest, m
<1> QED BY <1>2, <1>4, <1>5, <1>6, <1>7, RegisterMInv DEF Swapping, Rewriting

LEMMA ValidateMInv ==
  ASSUME MInv, OneCommand, NEW o \in Operators, PromoteValidate(o) \/ RollbackValidate(o)
  PROVE  InStep' /\ WreckStands'
<1>1. job[o].pc = "validate" /\ Goto(o, "observe")
  BY DEF PromoteValidate, RollbackValidate
<1>2. \A q \in Operators :
        /\ q = o /\ job'[q].pc = "observe"
        /\ job'[q].kind = job[o].kind /\ job'[q].target = job[o].target
        /\ job'[q].aside = job[o].aside
  BY <1>1, GotoJob DEF MInv, IInv
<1>3. Present(job[o].target)
  <2>1. fs[job[o].target] # None
    BY DEF PromoteValidate, RollbackValidate, ValidatesForRollback, Validates
  <2> QED BY <2>1 DEF Present
<1>4. /\ job[o].aside = None
      /\ \/ job[o].kind = "promote" /\ job[o].target \in Candidates
         \/ job[o].kind = "rollback" /\ job[o].target \in Retained
  BY <1>1 DEF MInv, InStep
<1>5. ~InWindow
  BY <1>1 DEF InWindow, OneCommand
<1>6. fs' = fs /\ last' = last /\ wreck' = wreck
  BY DEF PromoteValidate, RollbackValidate, historyVars
<1> QED BY <1>2, <1>3, <1>4, <1>5, <1>6, RegisterMInv DEF Swapping, Rewriting

LEMMA RollbackInspectMInv ==
  ASSUME MInv, OneCommand, NEW o \in Operators, RollbackInspect(o)
  PROVE  InStep' /\ WreckStands'
<1> DEFINE t == fs[Current].man.prev
           j == [Idle EXCEPT !.pc = "validate", !.kind = "rollback", !.target = t]
<1>1. t \in Retained
  BY PathFacts, DirFacts DEF MInv, IInv, TypeOK, RollbackInspect, Manifests
<1>2. j.pc = "validate" /\ j.kind = "rollback" /\ j.target = t /\ j.aside = None
  BY DEF Idle
<1>3. job' = [job EXCEPT ![o] = j]
  BY DEF RollbackInspect
<1>4. ~InWindow
  BY DEF InWindow, RollbackInspect, Issue, OneCommand
<1>5. fs' = fs /\ last' = last /\ wreck' = wreck
  BY DEF RollbackInspect, historyVars
<1> HIDE DEF j, t
<1>6. \A q \in Operators : q = o /\ job'[q] = j
  BY <1>3, OnlyJob DEF MInv, IInv
<1> QED BY <1>1, <1>2, <1>4, <1>5, <1>6, RegisterMInv DEF Swapping, Rewriting

LEMMA ObserveMInv ==
  ASSUME MInv, OneCommand, NEW o \in Operators, Observe(o)
  PROVE  InStep' /\ WreckStands'
<1> DEFINE j == IF Present(Current)
                THEN [job[o] EXCEPT !.pc = "displace", !.aside = AsidePath(job[o].kind),
                                    !.hash = fs[Current].content]
                ELSE [job[o] EXCEPT !.pc = "swap"]
<1>1. job[o] \in Jobs
  BY DEF MInv, IInv, TypeOK
<1>2. /\ j.kind = job[o].kind /\ j.target = job[o].target
      /\ Present(Current) => j.pc = "displace" /\ j.hash = fs[Current].content
      /\ ~Present(Current) => j.pc = "swap" /\ j.aside = job[o].aside
  BY <1>1 DEF Jobs
<1>3. job' = [job EXCEPT ![o] = j]
  BY DEF Observe
<1>4. /\ job[o].aside = None /\ Present(job[o].target)
      /\ \/ job[o].kind = "promote" /\ job[o].target \in Candidates
         \/ job[o].kind = "rollback" /\ job[o].target \in Retained
  BY DEF MInv, InStep, Observe, Swapping
<1>5. ~InWindow
  BY DEF InWindow, Observe, OneCommand
<1>6. fs' = fs /\ last' = last /\ wreck' = wreck
  BY DEF Observe, historyVars
<1> HIDE DEF j
<1>7. \A q \in Operators : q = o /\ job'[q] = j
  BY <1>3, OnlyJob DEF MInv, IInv
<1> QED BY <1>2, <1>4, <1>5, <1>6, <1>7, RegisterMInv DEF Swapping, Rewriting

LEMMA SwapFailsMInv ==
  ASSUME MInv, OneCommand, NEW o \in Operators, SwapFails(o)
  PROVE  InStep' /\ WreckStands'
<1>1. /\ ~Present(Current) /\ Present(job[o].target)
      /\ job[o].aside # None => /\ Present(job[o].aside)
                                /\ fs[job[o].aside].content = job[o].hash
      /\ \/ job[o].kind = "promote" /\ job[o].target \in Candidates
         \/ job[o].kind = "rollback" /\ job[o].target \in Retained
  BY DEF MInv, InStep, SwapFails, Swapping
<1>2. fs' = fs /\ last' = last /\ wreck' = wreck
  BY DEF SwapFails, historyVars
<1>3. CASE job[o].aside # None
  <2>1. \A q \in Operators :
          /\ q = o /\ job'[q].pc = "restore"
          /\ job'[q].kind = job[o].kind /\ job'[q].target = job[o].target
          /\ job'[q].aside = job[o].aside /\ job'[q].hash = job[o].hash
    BY <1>3, GotoJob DEF SwapFails, MInv, IInv
  <2>2. InWindow'
    BY <1>3, <2>1 DEF InWindow
  <2> QED BY <1>1, <1>2, <2>1, <2>2, RegisterMInv DEF Swapping, Rewriting
<1>4. CASE job[o].aside = None
  <2>1. \A q \in Operators : q = o /\ job'[q].pc = "idle"
    BY <1>4, FinishJob DEF SwapFails, MInv, IInv
  <2>2. ~InWindow
    BY <1>4 DEF InWindow, OneCommand
  <2> QED BY <1>2, <2>1, <2>2, RegisterMInv DEF Swapping, Rewriting
<1> QED BY <1>3, <1>4

LEMMA FailMInv ==
  ASSUME MInv, OneCommand, NEW o \in Operators, Fail(o)
  PROVE  InStep' /\ WreckStands'
<1>1. \A q \in Operators : q = o /\ job'[q].pc = "idle"
  BY FinishJob DEF Fail, MInv, IInv
<1>2. ~InWindow
  BY DEF InWindow, Fail, OneCommand
<1>3. fs' = fs /\ last' = last /\ wreck' = wreck
  BY DEF Fail, historyVars
<1> QED BY <1>1, <1>2, <1>3, RegisterMInv DEF Swapping, Rewriting

(* A command that dies in the window leaves its directories to choose from. *)
LEMMA WreckChoices ==
  ASSUME MInv, NEW o \in Operators, job[o].pc \in {"swap", "restore"}
  PROVE  /\ Wreck(job[o]) \subseteq Candidates \cup Retained
         /\ Wreck(job[o]) # {}
         /\ \A p \in Wreck(job[o]) : Present(p)
<1>1. /\ job[o].target \in Candidates \cup Retained /\ Present(job[o].target)
      /\ job[o].aside # None => Present(job[o].aside)
  BY DEF MInv, InStep, Swapping
<1>2. job[o].aside \in Retained \cup {None}
  BY DEF MInv, IInv, TypeOK, Jobs
<1>3. job[o].target # None
  BY <1>1, KindsOfPaths
<1> QED BY <1>1, <1>2, <1>3 DEF Wreck

LEMMA DieMInv ==
  ASSUME MInv, OneCommand, NEW o \in Operators, RestoreFails(o) \/ Crash(o)
  PROVE  InStep' /\ WreckStands'
<1>1. \A q \in Operators : q = o /\ job'[q].pc = "idle"
  BY FinishJob DEF RestoreFails, Crash, MInv, IInv
<1>2. fs' = fs /\ last' = last
  BY DEF RestoreFails, Crash
<1>3. InStep'
  BY <1>1 DEF InStep, Swapping, Rewriting
<1>4. CASE job[o].pc \in {"swap", "restore"}
  <2>1. wreck' = Wreck(job[o])
    BY <1>4 DEF RestoreFails, Crash
  <2> QED BY <1>2, <1>3, <1>4, <2>1, WreckChoices DEF WreckStands, Present
<1>5. CASE job[o].pc \notin {"swap", "restore"}
  <2>1. wreck' = wreck
    BY <1>5 DEF RestoreFails, Crash
  <2>2. ~InWindow
    BY <1>5 DEF InWindow, OneCommand
  <2> QED BY <1>2, <1>3, <2>1, <2>2 DEF WreckStands, Present, MInv
<1> QED BY <1>4, <1>5

(* A command alone finds an index where it reads the manifest. *)
LEMMA RecordRead ==
  ASSUME InStep, NEW o \in Operators, ReadManifest(o)
  PROVE  job' = [job EXCEPT ![o] = [job[o] EXCEPT !.pc = "write", !.man =
           IF fs[Current].man = None THEN LegacyRecord(fs[Current].content)
           ELSE fs[Current].man]]
<1>1. Present(Current)
  BY DEF InStep, ReadManifest, Rewriting
<1> QED BY <1>1 DEF ReadManifest, CurrentContent, Present

LEMMA ReadManifestMInv ==
  ASSUME MInv, OneCommand, NEW o \in Operators, ReadManifest(o)
  PROVE  InStep' /\ WreckStands'
<1> DEFINE m == IF fs[Current].man = None THEN LegacyRecord(fs[Current].content)
                ELSE fs[Current].man
           j == [job[o] EXCEPT !.pc = "write", !.man = m]
<1>1. job[o] \in Jobs
  BY DEF MInv, IInv, TypeOK
<1>2. /\ j.kind = job[o].kind /\ j.target = job[o].target
      /\ j.pc = "write" /\ j.man = m
  BY <1>1 DEF Jobs
<1>3. job' = [job EXCEPT ![o] = j]
  BY RecordRead DEF MInv
<1>4. /\ \/ job[o].kind = "promote" /\ job[o].target \in Candidates
         \/ job[o].kind = "rollback" /\ job[o].target \in Retained
      /\ job[o].kind = "promote" => fs[Current].man # None
      /\ Present(Current)
  BY DEF MInv, InStep, ReadManifest, Rewriting
<1>5. ~InWindow
  BY DEF InWindow, ReadManifest, OneCommand
<1>6. fs' = fs /\ last' = last /\ wreck' = wreck
  BY DEF ReadManifest, historyVars
<1> HIDE DEF j
<1>7. \A q \in Operators : q = o /\ job'[q] = j
  BY <1>3, OnlyJob DEF MInv, IInv
<1> QED BY <1>2, <1>4, <1>5, <1>6, <1>7, RegisterMInv DEF Swapping, Rewriting

LEMMA RereadManifestMInv ==
  ASSUME MInv, OneCommand, NEW o \in Operators, RereadManifest(o)
  PROVE  InStep' /\ WreckStands'
<1> DEFINE j == [job[o] EXCEPT !.pc = "record", !.man = fs[Current].man]
<1>1. job[o] \in Jobs
  BY DEF MInv, IInv, TypeOK
<1>2. /\ j.kind = job[o].kind /\ j.target = job[o].target
      /\ j.pc = "record" /\ j.man = fs[Current].man
  BY <1>1 DEF Jobs
<1>3. job' = [job EXCEPT ![o] = j]
  BY DEF RereadManifest
<1>4. /\ job[o].kind = "promote" /\ job[o].target \in Candidates
      /\ Present(Current)
  BY DEF MInv, InStep, RereadManifest
<1>5. ~InWindow
  BY DEF InWindow, RereadManifest, OneCommand
<1>6. fs' = fs /\ last' = last /\ wreck' = wreck
  BY DEF RereadManifest, historyVars
<1> HIDE DEF j
<1>7. \A q \in Operators : q = o /\ job'[q] = j
  BY <1>3, OnlyJob DEF MInv, IInv
<1> QED BY <1>2, <1>4, <1>5, <1>6, <1>7, RegisterMInv DEF Swapping, Rewriting

LEMMA StageFacts ==
  ASSUME IInv, NEW o \in Operators, PromoteStage(o)
  PROVE  /\ job[o].target \in Candidates /\ job[o].source \in Paths
         /\ ~Present(job[o].target) /\ Present(job[o].source)
         /\ fs'[job[o].target] = fs[job[o].source]
         /\ \A p \in Paths : p # job[o].target => fs'[p] = fs[p]
         /\ \A p \in Paths : Present(p) => fs'[p] = fs[p]
         /\ last' = last /\ wreck' = wreck
<1>1. job[o].target \in Candidates /\ job[o].source \in Paths
  BY DEF IInv, JobOK, PromoteStage
<1>2. ~Present(job[o].target) /\ fs[job[o].source] # None
  BY DEF PromoteStage, SourceAccepted, Validates
<1>3. fs' = [fs EXCEPT ![job[o].target] = fs[job[o].source]]
  BY DEF PromoteStage
<1>4. \A p \in Paths : fs'[p] = IF p = job[o].target THEN fs[job[o].source] ELSE fs[p]
  BY <1>3 DEF IInv, TypeOK
<1> QED BY <1>1, <1>2, <1>4, KindsOfPaths DEF Present, PromoteStage, historyVars

LEMMA PromoteStageMInv ==
  ASSUME MInv, OneCommand, NEW o \in Operators, PromoteStage(o)
  PROVE  InStep' /\ WreckStands'
<1>1. /\ job[o].target \in Candidates
      /\ \A p \in Paths : p # job[o].target => fs'[p] = fs[p]
      /\ \A p \in Paths : Present(p) => fs'[p] = fs[p]
      /\ last' = last /\ wreck' = wreck
  BY StageFacts DEF MInv
<1>2. \A q \in Operators :
        /\ q = o /\ job'[q].pc = "validate"
        /\ job'[q].kind = job[o].kind /\ job'[q].target = job[o].target
        /\ job'[q].aside = job[o].aside
  BY GotoJob DEF PromoteStage, MInv, IInv
<1>3. job[o].kind = "promote" /\ job[o].aside = None
  BY DEF MInv, InStep, PromoteStage
<1>4. InStep'
  BY <1>1, <1>2, <1>3 DEF InStep, Swapping, Rewriting
<1>5. ~InWindow
  BY DEF InWindow, PromoteStage, OneCommand
<1>6. fs'[Current] = fs[Current]
  BY <1>1, KindsOfPaths
<1>7. \A p \in Candidates \cup Retained : Present(p) => Present(p)'
  BY <1>1, KindsOfPaths DEF Present
<1> QED BY <1>1, <1>4, <1>5, <1>6, <1>7 DEF WreckStands, MInv, Present

(* What a command alone moves aside goes to a name that is free. *)
LEMMA DisplaceFree ==
  ASSUME MInv, NEW o \in Operators, Displace(o)
  PROVE  job[o].aside \in Retained /\ ~Present(job[o].aside) /\ Present(Current)
<1>1. job[o].aside \in Retained /\ CanRename(Current, job[o].aside)
  BY DEF MInv, IInv, JobOK, Displace
<1>2. ~Present(job[o].aside)
  BY <1>1, KindsOfPaths DEF CanRename, Vacant, MInv, Furnished
<1> QED BY <1>1, <1>2 DEF CanRename

LEMMA DisplaceMInv ==
  ASSUME MInv, OneCommand, NEW o \in Operators, Displace(o)
  PROVE  InStep' /\ WreckStands'
<1> DEFINE j == job[o]
<1>1. /\ j.aside \in Retained /\ ~Present(j.aside) /\ Present(Current)
      /\ fs[Current].content = j.hash /\ Present(j.target)
      /\ \/ j.kind = "promote" /\ j.target \in Candidates
         \/ j.kind = "rollback" /\ j.target \in Retained
  BY DisplaceFree DEF MInv, InStep, Displace, Swapping
<1>2. /\ fs'[Current] = None /\ fs'[j.aside] = fs[Current]
      /\ \A r \in Paths \ {Current, j.aside} : fs'[r] = fs[r]
  BY <1>1, KindsOfPaths, MovedFacts DEF Displace, MInv, IInv
<1>3. \A q \in Operators :
        /\ q = o /\ job'[q].pc = "swap"
        /\ job'[q].kind = j.kind /\ job'[q].target = j.target
        /\ job'[q].aside = j.aside /\ job'[q].hash = j.hash
  BY GotoJob DEF Displace, MInv, IInv
<1>4. fs'[j.target] # None
  BY <1>1, <1>2, KindsOfPaths DEF Present
<1>5. InStep'
  BY <1>1, <1>2, <1>3, <1>4 DEF InStep, Swapping, Rewriting, Present
<1>6. j.aside # None
  BY <1>1, KindsOfPaths
<1>7. InWindow'
  BY <1>3, <1>6 DEF InWindow
<1> QED BY <1>5, <1>7 DEF WreckStands, MInv, Displace, historyVars

LEMMA SwapInFacts ==
  ASSUME IInv, InStep, NEW o \in Operators, SwapIn(o)
  PROVE  LET j == job[o] IN
         /\ Present(j.target) /\ j.target \in Paths /\ j.target # Current
         /\ fs'[j.target] = None
         /\ fs'[Current] = IF j.kind = "promote"
                           THEN [fs[j.target] EXCEPT !.displaced = MovedAside(j)]
                           ELSE fs[j.target]
         /\ \A r \in Paths \ {Current, j.target} : fs'[r] = fs[r]
         /\ Present(Current)'
         /\ last' = fs[j.target].content /\ wreck' = {}
<1>1. /\ CanRename(job[o].target, Current)
      /\ \/ job[o].kind = "promote" /\ job[o].target \in Candidates
         \/ job[o].kind = "rollback" /\ job[o].target \in Retained
  BY DEF InStep, SwapIn
<1>2. /\ Present(job[o].target)
      /\ job[o].target \in Paths /\ job[o].target # Current
  BY <1>1, KindsOfPaths DEF CanRename
<1> DEFINE d == IF job[o].kind = "promote"
                THEN [fs[job[o].target] EXCEPT !.displaced = MovedAside(job[o])]
                ELSE fs[job[o].target]
<1>3. fs' = Moved(job[o].target, Current, d)
  BY DEF SwapIn
<1>4. fs[job[o].target] \in Dirs
  BY <1>2, PresentDir DEF IInv
<1>5. MovedAside(job[o]) \in Contents \cup {None}
  <2>1. job[o].aside \in Retained \cup {None}
    BY DEF IInv, TypeOK, Jobs
  <2> QED BY <2>1, PathFacts, PresentDir, DirFacts DEF MovedAside, IInv
<1>6. d \in Dirs
  BY <1>4, <1>5, DirFacts
<1>7. d # None
  BY <1>6, DirFacts
<1>8. last' = fs[job[o].target].content /\ wreck' = {}
  BY DEF SwapIn, BecomesCurrent
<1>9. /\ fs'[job[o].target] = None /\ fs'[Current] = d
      /\ \A r \in Paths \ {job[o].target, Current} : fs'[r] = fs[r]
  <2> HIDE DEF d
  <2> QED BY <1>2, <1>3, PathFacts, MovedFacts DEF IInv
<1>10. Present(Current)'
  BY <1>7, <1>9 DEF Present
<1> QED BY <1>2, <1>8, <1>9, <1>10

(* Something is current: there is nothing to recover from. *)
LEMMA CurrentStands ==
  ASSUME Present(Current)', wreck' \subseteq Candidates \cup Retained
  PROVE  WreckStands'
BY DEF WreckStands

LEMMA SwapInMInv ==
  ASSUME MInv, OneCommand, NEW o \in Operators, SwapIn(o)
  PROVE  InStep' /\ WreckStands'
<1>1. Present(Current)' /\ wreck' = {}
  BY SwapInFacts DEF MInv
<1>2. \A q \in Operators :
        /\ q = o /\ job'[q].pc = "read"
        /\ job'[q].kind = job[o].kind /\ job'[q].target = job[o].target
  BY GotoJob DEF SwapIn, MInv, IInv
<1>3. \/ job[o].kind = "promote" /\ job[o].target \in Candidates
      \/ job[o].kind = "rollback" /\ job[o].target \in Retained
  BY DEF MInv, InStep, SwapIn
<1>4. InStep'
  BY <1>1, <1>2, <1>3 DEF InStep, Swapping, Rewriting
<1> QED BY <1>1, <1>4, CurrentStands

LEMMA RestoreFacts ==
  ASSUME IInv, NEW o \in Operators, Restore(o)
  PROVE  /\ Present(job[o].aside) /\ job[o].aside \in Retained
         /\ fs'[job[o].aside] = None /\ fs'[Current] = fs[job[o].aside]
         /\ \A r \in Paths \ {Current, job[o].aside} : fs'[r] = fs[r]
         /\ Present(Current)' /\ wreck' = {}
<1>1. job[o].aside \in Retained /\ Present(job[o].aside)
  BY DEF IInv, JobOK, Restore, CanRename
<1>2. fs' = Moved(job[o].aside, Current, fs[job[o].aside])
  BY DEF Restore
<1>3. /\ fs'[job[o].aside] = None /\ fs'[Current] = fs[job[o].aside]
      /\ \A r \in Paths \ {job[o].aside, Current} : fs'[r] = fs[r]
  BY <1>1, <1>2, KindsOfPaths, MovedFacts DEF IInv
<1> QED BY <1>1, <1>3 DEF Present, Restore, BecomesCurrent

LEMMA RestoreMInv ==
  ASSUME MInv, OneCommand, NEW o \in Operators, Restore(o)
  PROVE  InStep' /\ WreckStands'
<1>1. Present(Current)' /\ wreck' = {}
  BY RestoreFacts DEF MInv
<1>2. \A q \in Operators : q = o /\ job'[q].pc = "idle"
  BY FinishJob DEF Restore, MInv, IInv
<1>3. InStep'
  BY <1>2 DEF InStep, Swapping, Rewriting
<1> QED BY <1>1, <1>3, CurrentStands

(* The two rewrites put a well-typed manifest where the command works. *)
LEMMA RewriteFactsOf ==
  ASSUME IInv, InStep, NEW o \in Operators, WriteManifest(o) \/ RecordCheck(o)
  PROVE  LET m == IF job[o].pc = "write" THEN Updated(job[o])
                  ELSE [job[o].man EXCEPT !.check = job[o].check]
         IN /\ m \in Manifests /\ fs'[Current].man = m
            /\ Present(Current)'
            /\ fs'[Current].content = fs[Current].content
            /\ fs'[Current].displaced = fs[Current].displaced
            /\ fs'[Current].rejected = fs[Current].rejected
            /\ \A r \in Paths : r # Current => fs'[r] = fs[r]
            /\ last' = last /\ wreck' = wreck
<1>1. job[o] \in Jobs /\ job[o].man \in Manifests /\ Present(Current)
  BY DEF IInv, TypeOK, JobOK, InStep, Rewriting, WriteManifest, RecordCheck
<1>2. /\ Updated(job[o]) \in Manifests
      /\ [job[o].man EXCEPT !.check = job[o].check] \in Manifests
  BY <1>1, UpdatedType DEF Jobs, Manifests
<1>3. last' = last /\ wreck' = wreck
  BY DEF WriteManifest, RecordCheck, historyVars
<1>4. CASE WriteManifest(o)
  <2>1. job[o].pc = "write" /\ fs' = WithManifest(Updated(job[o]))
    BY <1>4 DEF WriteManifest
  <2> QED BY <1>1, <1>2, <1>3, <2>1, Rewritten DEF IInv
<1>5. CASE RecordCheck(o)
  <2>1. job[o].pc = "record"
    BY <1>5 DEF RecordCheck
  <2>2. fs' = WithManifest([job[o].man EXCEPT !.check = job[o].check])
    BY <1>5 DEF RecordCheck
  <2> QED BY <1>1, <1>2, <1>3, <2>1, <2>2, Rewritten DEF IInv
<1> QED BY <1>4, <1>5

LEMMA RewriteMInv ==
  ASSUME MInv, OneCommand, NEW o \in Operators, WriteManifest(o) \/ RecordCheck(o)
  PROVE  InStep' /\ WreckStands'
<1>1. Present(Current)' /\ wreck' \subseteq Candidates \cup Retained
  BY RewriteFactsOf DEF MInv, WreckStands
<1>2. CASE WriteManifest(o) /\ job[o].kind = "promote"
  <2>1. \A q \in Operators :
          /\ q = o /\ job'[q].pc = "reread"
          /\ job'[q].kind = job[o].kind /\ job'[q].target = job[o].target
    BY <1>2, GotoJob DEF WriteManifest, MInv, IInv
  <2>2. job[o].target \in Candidates
    BY <1>2 DEF MInv, InStep, WriteManifest
  <2>3. InStep'
    BY <1>1, <1>2, <2>1, <2>2 DEF InStep, Swapping, Rewriting
  <2> QED BY <1>1, <2>3, CurrentStands
<1>3. CASE RecordCheck(o) \/ (WriteManifest(o) /\ job[o].kind # "promote")
  <2>1. \A q \in Operators : q = o /\ job'[q].pc = "idle"
    BY <1>3, FinishJob DEF WriteManifest, RecordCheck, MInv, IInv
  <2>2. InStep'
    BY <2>1 DEF InStep, Swapping, Rewriting
  <2> QED BY <1>1, <2>2, CurrentStands
<1> QED BY <1>2, <1>3

LEMMA NoWriteBreaks ==
  ASSUME MInv, NEW o \in Operators
  PROVE  ~WriteBreaks(o)
BY DEF MInv, InStep, Rewriting, WriteBreaks

LEMMA RecoverFacts ==
  ASSUME IInv, NEW p \in Paths, RecoverByHand(p)
  PROVE  /\ p \in wreck /\ p # Current /\ Present(p)
         /\ fs'[p] = None
         /\ fs'[Current] = IF p \in Candidates THEN [fs[p] EXCEPT !.displaced = last]
                           ELSE fs[p]
         /\ \A r \in Paths \ {Current, p} : fs'[r] = fs[r]
         /\ Present(Current)' /\ wreck' = {}
<1> DEFINE d == IF p \in Candidates THEN [fs[p] EXCEPT !.displaced = last] ELSE fs[p]
<1>1. Present(p) /\ p # Current /\ fs[p] \in Dirs
  BY PresentDir DEF IInv, RecoverByHand
<1>2. d \in Dirs
  BY <1>1, DirFacts DEF IInv, TypeOK
<1>3. d # None
  BY <1>2, DirFacts
<1>4. fs' = Moved(p, Current, d)
  BY DEF RecoverByHand
<1>5. /\ fs'[p] = None /\ fs'[Current] = d
      /\ \A r \in Paths \ {p, Current} : fs'[r] = fs[r]
  <2> HIDE DEF d
  <2> QED BY <1>1, <1>4, PathFacts, MovedFacts DEF IInv
<1> QED BY <1>1, <1>3, <1>5 DEF Present, RecoverByHand, BecomesCurrent

LEMMA RecoverMInv ==
  ASSUME MInv, NEW p \in Paths, RecoverByHand(p)
  PROVE  InStep' /\ WreckStands'
<1>1. Present(Current)' /\ wreck' = {}
  BY RecoverFacts DEF MInv
<1>2. \A o \in Operators : job'[o].pc = "idle"
  BY DEF RecoverByHand, Quiescent
<1>3. InStep'
  BY <1>2 DEF InStep, Swapping, Rewriting
<1> QED BY <1>1, <1>3, CurrentStands

LEMMA DamageFacts ==
  ASSUME IInv, NEW p \in Paths, NEW x \in Corrupt, Damage(p, x)
  PROVE  /\ p \in Retained /\ Present(p) /\ Present(p)' /\ fs'[p].content = x
         /\ fs'[p].man = fs[p].man /\ fs'[p].displaced = fs[p].displaced
         /\ \A r \in Paths : r # p => fs'[r] = fs[r]
         /\ last' = last /\ wreck' = wreck /\ job' = job
BY Damaged DEF IInv, Damage

LEMMA DamageMInv ==
  ASSUME MInv, NEW p \in Paths, NEW x \in Corrupt, Damage(p, x)
  PROVE  InStep' /\ WreckStands'
<1>1. \A o \in Operators : job[o].pc = "idle" /\ job' = job
  BY DEF Damage, Quiescent
<1>2. InStep'
  BY <1>1 DEF InStep, Swapping, Rewriting
<1>3. /\ \A r \in Paths : Present(r)' <=> Present(r)
      /\ last' = last /\ wreck' = wreck
  BY DamageFacts DEF MInv, Present
<1>4. wreck \subseteq Paths
  BY DEF MInv, IInv, TypeOK
<1>5. ~InWindow
  BY <1>1 DEF InWindow
<1> QED BY <1>2, <1>3, <1>4, <1>5, PathFacts DEF WreckStands, MInv

LEMMA UntouchedMInv ==
  ASSUME MInv, fs' = fs, job' = job, last' = last, wreck' = wreck
  PROVE  InStep' /\ WreckStands'
<1>1. \A p : Present(p)' <=> Present(p)
  BY DEF Present
<1> QED BY <1>1 DEF MInv, InStep, WreckStands, InWindow

(* A command alone never makes a directory without an index. *)
LEMMA NextFurnished == MInv /\ [Next]_vars => Furnished'
<1> SUFFICES ASSUME MInv, [Next]_vars PROVE Furnished'
  OBVIOUS
<1>c. Corrupt \subseteq Contents /\ None \notin Corrupt
  OBVIOUS
<1>1. ASSUME fs' = fs PROVE Furnished'
  BY <1>1 DEF MInv, Furnished, Present
<1>2. CASE UNCHANGED vars \/ Tick
  BY <1>1, <1>2 DEF vars, Tick
<1>3. ASSUME NEW o \in Operators,
             \/ \E src \in Paths : PromoteInspect(o, src)
             \/ PromoteValidate(o) \/ RollbackInspect(o) \/ RollbackValidate(o)
             \/ Observe(o) \/ SwapFails(o) \/ RestoreFails(o)
             \/ ReadManifest(o) \/ RereadManifest(o) \/ Fail(o) \/ Crash(o)
      PROVE  Furnished'
  BY <1>1, <1>3 DEF PromoteInspect, PromoteValidate, RollbackInspect,
     RollbackValidate, Observe, SwapFails, RestoreFails, ReadManifest,
     RereadManifest, Fail, Crash
<1>4. ASSUME NEW o \in Operators, PromoteStage(o) PROVE Furnished'
  <2>1. /\ job[o].source \in Paths /\ Present(job[o].source)
        /\ fs'[job[o].target] = fs[job[o].source]
        /\ \A p \in Paths : p # job[o].target => fs'[p] = fs[p]
    BY <1>4, StageFacts DEF MInv
  <2> QED BY <2>1 DEF MInv, Furnished, Present
<1>5. ASSUME NEW o \in Operators, Displace(o) PROVE Furnished'
  <2>1. /\ fs'[Current] = None /\ fs'[job[o].aside] = fs[Current]
        /\ \A p \in Paths \ {Current, job[o].aside} : fs'[p] = fs[p]
    BY <1>5, DisplaceFree, KindsOfPaths, MovedFacts DEF Displace, MInv, IInv
  <2> QED BY <2>1, KindsOfPaths DEF MInv, Furnished, Present
<1>6. ASSUME NEW o \in Operators, SwapIn(o) PROVE Furnished'
  <2> DEFINE t == job[o].target
  <2>1. /\ Present(t) /\ t \in Paths /\ fs'[t] = None
        /\ fs'[Current] = IF job[o].kind = "promote"
                          THEN [fs[t] EXCEPT !.displaced = MovedAside(job[o])] ELSE fs[t]
        /\ \A p \in Paths \ {Current, t} : fs'[p] = fs[p]
    BY <1>6, SwapInFacts DEF MInv
  <2>2. fs'[Current].content = fs[t].content
    BY <2>1, PresentDir DEF MInv, IInv, Dirs
  <2> HIDE DEF t
  <2> QED BY <2>1, <2>2 DEF MInv, Furnished, Present
<1>7. ASSUME NEW o \in Operators, Restore(o) PROVE Furnished'
  <2>1. /\ Present(job[o].aside) /\ job[o].aside \in Retained
        /\ fs'[job[o].aside] = None /\ fs'[Current] = fs[job[o].aside]
        /\ \A p \in Paths \ {Current, job[o].aside} : fs'[p] = fs[p]
    BY <1>7, RestoreFacts DEF MInv
  <2> QED BY <2>1, KindsOfPaths DEF MInv, Furnished, Present
<1>8. ASSUME NEW o \in Operators, WriteManifest(o) \/ RecordCheck(o) PROVE Furnished'
  <2>1. /\ fs'[Current].content = fs[Current].content
        /\ \A p \in Paths : p # Current => fs'[p] = fs[p]
    BY <1>8, RewriteFactsOf DEF MInv
  <2>2. Present(Current)
    BY <1>8 DEF MInv, InStep, Rewriting, WriteManifest, RecordCheck
  <2> QED BY <2>1, <2>2 DEF MInv, Furnished, Present
<1>9. ASSUME NEW p \in Paths, RecoverByHand(p) PROVE Furnished'
  <2>1. /\ Present(p) /\ fs'[p] = None
        /\ fs'[Current] = IF p \in Candidates THEN [fs[p] EXCEPT !.displaced = last] ELSE fs[p]
        /\ \A r \in Paths \ {Current, p} : fs'[r] = fs[r]
    BY <1>9, RecoverFacts DEF MInv
  <2>2. fs'[Current].content = fs[p].content
    BY <2>1, PresentDir DEF MInv, IInv, Dirs
  <2> QED BY <2>1, <2>2 DEF MInv, Furnished, Present
<1>10. ASSUME NEW p \in Paths, NEW x \in Corrupt, Damage(p, x) PROVE Furnished'
  <2>1. fs'[p].content = x /\ \A r \in Paths : r # p => fs'[r] = fs[r]
    BY <1>10, DamageFacts DEF MInv
  <2> QED BY <1>c, <2>1 DEF MInv, Furnished, Present
<1> QED BY <1>2, <1>3, <1>4, <1>5, <1>6, <1>7, <1>8, <1>9, <1>10, NoWriteBreaks DEF Next

LEMMA NextMInv == MInv /\ OneCommand /\ [Next]_vars => MInv'
<1> SUFFICES ASSUME MInv, OneCommand, [Next]_vars PROVE MInv'
  OBVIOUS
<1>1. ASSUME UNCHANGED vars \/ Tick PROVE InStep' /\ WreckStands'
  <2>1. fs' = fs /\ job' = job /\ last' = last /\ wreck' = wreck
    BY <1>1 DEF vars, Tick, historyVars
  <2> QED BY <2>1, UntouchedMInv
<1>3. ASSUME NEW o \in Operators,
             \/ \E src \in Paths : PromoteInspect(o, src)
             \/ PromoteStage(o) \/ PromoteValidate(o)
             \/ RollbackInspect(o) \/ RollbackValidate(o)
             \/ Observe(o) \/ Displace(o)
             \/ SwapIn(o) \/ SwapFails(o) \/ Restore(o) \/ RestoreFails(o)
             \/ ReadManifest(o) \/ WriteManifest(o)
             \/ RereadManifest(o) \/ RecordCheck(o)
             \/ Fail(o) \/ WriteBreaks(o) \/ Crash(o)
      PROVE  InStep' /\ WreckStands'
  BY <1>3, PromoteInspectMInv, PromoteStageMInv, ValidateMInv, RollbackInspectMInv,
     ObserveMInv, DisplaceMInv, SwapInMInv, SwapFailsMInv, RestoreMInv, DieMInv,
     ReadManifestMInv, RewriteMInv, RereadManifestMInv, FailMInv, NoWriteBreaks
<1>4. ASSUME NEW p \in Paths, RecoverByHand(p) \/ \E x \in Corrupt : Damage(p, x)
      PROVE  InStep' /\ WreckStands'
  BY <1>4, RecoverMInv, DamageMInv
<1>5. InStep' /\ WreckStands'
  BY <1>1, <1>3, <1>4 DEF Next
<1>6. IInv'
  BY NextIInv DEF MInv
<1>7. Furnished'
  BY NextFurnished
<1> QED BY <1>5, <1>6, <1>7 DEF MInv
-----------------------------------------------------------------------------
(* With one command at a time, in whatever order commands fail, crash and  *)
(* are recovered from: when none runs and faiss_index is missing, each     *)
(* directory the operator is told to choose from is there.                 *)
THEOREM Recoverable == OneCommand => (Spec => []MissingCurrentIsRecoverable)
<1> SUFFICES ASSUME OneCommand PROVE Spec => []MissingCurrentIsRecoverable
  OBVIOUS
<1>1. Init => MInv
  BY InitIInv, InitMInv DEF MInv
<1>2. MInv /\ [Next]_vars => MInv'
  BY NextMInv
<1>3. MInv => MissingCurrentIsRecoverable
  BY DEF MInv, WreckStands, InWindow, MissingCurrentIsRecoverable, Quiescent
<1> QED BY <1>1, <1>2, <1>3, PTL DEF Spec
-----------------------------------------------------------------------------
(* What was promoted starts *)

(* What the lifecycle keeps verifies, unless it was rolled back to or      *)
(* damaged.                                                                *)
Standing(d) ==
  d.man # None /\ d.man.label # "ROLLED_BACK" /\ d.content \notin Corrupt
    => Validates(d, TRUE)

(* So does what a promotion is about to swap in, has swapped in, or has    *)
(* left to be moved in by hand.                                            *)
VerifiedInv ==
  /\ \A p \in Kept : Present(p) => Standing(fs[p])
  /\ \A p \in wreck \cap Candidates : Present(p) => Validates(fs[p], TRUE)
  /\ \A o \in Operators : job[o].kind = "promote" =>
       /\ job[o].pc \in {"validate"} \cup Swapping => Validates(fs[job[o].target], TRUE)
       /\ job[o].pc \in Rewriting => Validates(fs[Current], TRUE)

(* The validator looks at no other field. *)
LEMMA SameVerdict ==
  ASSUME NEW d \in Dirs, NEW e \in Dirs, Validates(d, TRUE), e.man # None,
         e.content = d.content, e.rejected = d.rejected,
         e.man.clean = d.man.clean, e.man.publicOnly = d.man.publicOnly,
         e.man.hash = d.man.hash
  PROVE  Validates(e, TRUE)
<1>1. e # None
  BY DirFacts
<1> QED BY <1>1 DEF Validates

LEMMA InitVerified == Init => VerifiedInv
<1> SUFFICES ASSUME Init PROVE VerifiedInv
  OBVIOUS
<1> PICK d \in InitialCurrent :
      fs = [p \in Paths |-> IF p = Current THEN d
                            ELSE IF p \in DOMAIN Shelf THEN Shelf[p] ELSE None]
  BY DEF Init
<1>1. Present(Current) => Standing(fs[Current])
  BY VolumeAssumption, KindsOfPaths DEF Present, Standing
<1>2. \A p \in Retained : ~Present(p)
  BY KindsOfPaths DEF Present
<1>3. \A o \in Operators : job[o].pc = "idle"
  BY DEF Init, Idle
<1> QED BY <1>1, <1>2, <1>3 DEF VerifiedInv, Kept, Init, Swapping, Rewriting

(* A step that leaves the volume alone. *)
LEMMA RegisterVerified ==
  ASSUME MInv, VerifiedInv, OneCommand, NEW o \in Operators, NEW j,
         \A q \in Operators : q = o /\ job'[q] = j,
         fs' = fs,
         \A p \in wreck' \cap Candidates : Present(p) => Validates(fs[p], TRUE),
         j.kind = "promote" /\ j.pc \in {"validate"} \cup Swapping
           => Validates(fs[j.target], TRUE),
         j.kind = "promote" /\ j.pc \in Rewriting => Validates(fs[Current], TRUE)
  PROVE  VerifiedInv'
<1>1. \A p : Present(p)' <=> Present(p)
  BY DEF Present
<1>2. \A p : Standing(fs'[p]) <=> Standing(fs[p])
  OBVIOUS
<1> QED BY <1>1, <1>2 DEF VerifiedInv

LEMMA PromoteInspectVerified ==
  ASSUME MInv, VerifiedInv, OneCommand, NEW o \in Operators, NEW src \in Paths,
         PromoteInspect(o, src)
  PROVE  VerifiedInv'
<1> DEFINE m == fs[src].man
           dest == Candidate(m.build)
<1>1. Validates(fs[src], TRUE)
  BY DEF PromoteInspect, SourceAccepted
<1>2. PICK chk \in CheckOutcomes(fs[src].content) :
        job' = [job EXCEPT ![o] =
          [Idle EXCEPT !.pc = IF src = dest THEN "validate" ELSE "stage",
                       !.kind = "promote", !.source = src,
                       !.target = dest, !.man = m, !.check = chk]]
  BY DEF PromoteInspect
<1> DEFINE j == [Idle EXCEPT !.pc = IF src = dest THEN "validate" ELSE "stage",
                             !.kind = "promote", !.source = src,
                             !.target = dest, !.man = m, !.check = chk]
<1>3. j.target = dest /\ j.pc = IF src = dest THEN "validate" ELSE "stage"
  BY DEF Idle
<1>4. job' = [job EXCEPT ![o] = j]
  BY <1>2
<1>5. fs' = fs /\ wreck' = wreck
  BY DEF PromoteInspect, historyVars
<1> HIDE DEF j, dest, m
<1>6. \A q \in Operators : q = o /\ job'[q] = j
  BY <1>4, OnlyJob DEF MInv, IInv
<1>7. /\ j.kind = "promote" /\ j.pc \in {"validate"} \cup Swapping
           => Validates(fs[j.target], TRUE)
      /\ j.pc \notin Rewriting
  BY <1>1, <1>3 DEF Swapping, Rewriting
<1>8. \A p \in wreck' \cap Candidates : Present(p) => Validates(fs[p], TRUE)
  BY <1>5 DEF VerifiedInv
<1> QED BY <1>5, <1>6, <1>7, <1>8, RegisterVerified

(* The command goes on, or ends, without touching the volume. *)
LEMMA QuietVerified ==
  ASSUME MInv, VerifiedInv, OneCommand, NEW o \in Operators,
         \/ PromoteValidate(o) \/ RollbackInspect(o) \/ RollbackValidate(o)
         \/ Observe(o) \/ SwapFails(o)
         \/ ReadManifest(o) \/ RereadManifest(o) \/ Fail(o)
  PROVE  VerifiedInv'
<1>1. fs' = fs /\ wreck' = wreck
  BY DEF PromoteValidate, RollbackInspect, RollbackValidate, Observe, SwapFails,
     ReadManifest, RereadManifest, Fail, historyVars
<1>2. \A p \in wreck' \cap Candidates : Present(p) => Validates(fs[p], TRUE)
  BY <1>1 DEF VerifiedInv
<1>3. /\ \A q \in Operators : q = o /\ job'[q] = job'[o]
      /\ \/ job'[o].kind # "promote" \/ job'[o].pc = "idle"
         \/ /\ job'[o].kind = job[o].kind /\ job'[o].target = job[o].target
            /\ \/ job[o].pc \in {"validate"} \cup Swapping /\ job'[o].pc \in Swapping
               \/ job[o].pc \in Rewriting /\ job'[o].pc \in Rewriting
  <2>1. CASE PromoteValidate(o) \/ RollbackValidate(o)
    BY <2>1, GotoJob DEF PromoteValidate, RollbackValidate, MInv, IInv, Swapping
  <2>2. CASE RollbackInspect(o)
    <3> DEFINE j == [Idle EXCEPT !.pc = "validate", !.kind = "rollback",
                                 !.target = fs[Current].man.prev]
    <3>1. j.kind = "rollback" /\ job' = [job EXCEPT ![o] = j]
      BY <2>2 DEF RollbackInspect, Idle
    <3> HIDE DEF j
    <3> QED BY <3>1, OnlyJob DEF MInv, IInv
  <2>3. CASE Observe(o)
    <3> DEFINE j == IF Present(Current)
                    THEN [job[o] EXCEPT !.pc = "displace", !.aside = AsidePath(job[o].kind),
                                        !.hash = fs[Current].content]
                    ELSE [job[o] EXCEPT !.pc = "swap"]
    <3>1. /\ j.kind = job[o].kind /\ j.target = job[o].target /\ j.pc \in {"displace", "swap"}
          /\ job[o].pc = "observe" /\ job' = [job EXCEPT ![o] = j]
      BY <2>3 DEF Observe, MInv, IInv, TypeOK, Jobs
    <3> HIDE DEF j
    <3> QED BY <3>1, OnlyJob DEF MInv, IInv, Swapping
  <2>4. CASE SwapFails(o)
    BY <2>4, GotoJob, FinishJob DEF SwapFails, MInv, IInv, Swapping
  <2>5. CASE ReadManifest(o)
    <3> DEFINE m == IF fs[Current].man = None THEN LegacyRecord(fs[Current].content)
                    ELSE fs[Current].man
               j == [job[o] EXCEPT !.pc = "write", !.man = m]
    <3>1. j.kind = job[o].kind /\ j.target = job[o].target /\ j.pc = "write"
      BY DEF MInv, IInv, TypeOK, Jobs
    <3>2. job[o].pc = "read"
      BY <2>5 DEF ReadManifest
    <3>3. job' = [job EXCEPT ![o] = j]
      BY <2>5, RecordRead DEF MInv
    <3> HIDE DEF j
    <3> QED BY <3>1, <3>2, <3>3, OnlyJob DEF MInv, IInv, Rewriting
  <2>6. CASE RereadManifest(o)
    <3> DEFINE j == [job[o] EXCEPT !.pc = "record", !.man = fs[Current].man]
    <3>1. /\ j.kind = job[o].kind /\ j.target = job[o].target /\ j.pc = "record"
          /\ job[o].pc = "reread" /\ job' = [job EXCEPT ![o] = j]
      BY <2>6 DEF RereadManifest, MInv, IInv, TypeOK, Jobs
    <3> HIDE DEF j
    <3> QED BY <3>1, OnlyJob DEF MInv, IInv, Rewriting
  <2>7. CASE Fail(o)
    BY <2>7, FinishJob DEF Fail, MInv, IInv
  <2> QED BY <2>1, <2>2, <2>3, <2>4, <2>5, <2>6, <2>7
<1>4. /\ job'[o].kind = "promote" /\ job'[o].pc \in {"validate"} \cup Swapping
           => Validates(fs[job'[o].target], TRUE)
      /\ job'[o].kind = "promote" /\ job'[o].pc \in Rewriting => Validates(fs[Current], TRUE)
  BY <1>3 DEF VerifiedInv, Swapping, Rewriting
<1> QED BY <1>1, <1>2, <1>3, <1>4, RegisterVerified

LEMMA DieVerified ==
  ASSUME MInv, VerifiedInv, OneCommand, NEW o \in Operators, RestoreFails(o) \/ Crash(o)
  PROVE  VerifiedInv'
<1>1. \A q \in Operators : /\ q = o /\ job'[q] = job'[o]
                            /\ job'[q].pc = "idle"
  BY FinishJob DEF RestoreFails, Crash, MInv, IInv
<1>2. \A p \in wreck' \cap Candidates : Present(p) => Validates(fs[p], TRUE)
  <2>1. CASE job[o].pc \in {"swap", "restore"}
    <3>1. wreck' = Wreck(job[o])
      BY <2>1 DEF RestoreFails, Crash
    <3>2. job[o].aside \notin Candidates
      BY KindsOfPaths DEF MInv, IInv, TypeOK, Jobs
    <3>3. job[o].target \in Candidates => Validates(fs[job[o].target], TRUE)
      BY <2>1, KindsOfPaths DEF MInv, InStep, VerifiedInv, Swapping
    <3> QED BY <3>1, <3>2, <3>3 DEF Wreck
  <2>2. CASE job[o].pc \notin {"swap", "restore"}
    BY <2>2 DEF VerifiedInv, RestoreFails, Crash
  <2> QED BY <2>1, <2>2
<1>3. fs' = fs
  BY DEF RestoreFails, Crash
<1> QED BY <1>1, <1>2, <1>3, RegisterVerified DEF Swapping, Rewriting

LEMMA PromoteStageVerified ==
  ASSUME MInv, VerifiedInv, OneCommand, NEW o \in Operators, PromoteStage(o)
  PROVE  VerifiedInv'
<1>1. /\ job[o].target \in Candidates /\ ~Present(job[o].target)
      /\ fs'[job[o].target] = fs[job[o].source]
      /\ \A p \in Paths : p # job[o].target => fs'[p] = fs[p]
      /\ wreck' = wreck
  BY StageFacts DEF MInv
<1>2. \A q \in Operators : /\ q = o /\ job'[q].pc = "validate"
                            /\ job'[q].target = job[o].target
  BY GotoJob DEF PromoteStage, MInv, IInv
<1>3. Validates(fs'[job[o].target], TRUE)
  BY <1>1 DEF PromoteStage, SourceAccepted
<1>4. \A p \in Kept : fs'[p] = fs[p]
  BY <1>1, KindsOfPaths DEF Kept
<1>5. \A p \in Candidates : p # job[o].target => fs'[p] = fs[p]
  BY <1>1, KindsOfPaths
<1> QED BY <1>1, <1>2, <1>3, <1>4, <1>5 DEF VerifiedInv, Present, Swapping, Rewriting

LEMMA DisplaceVerified ==
  ASSUME MInv, VerifiedInv, OneCommand, NEW o \in Operators, Displace(o)
  PROVE  VerifiedInv'
<1>1. job[o].aside \in Retained /\ Present(Current)
  BY DisplaceFree
<1>2. /\ fs'[Current] = None /\ fs'[job[o].aside] = fs[Current]
      /\ \A r \in Paths \ {Current, job[o].aside} : fs'[r] = fs[r]
  BY <1>1, KindsOfPaths, MovedFacts DEF Displace, MInv, IInv
<1>3. \A q \in Operators : /\ q = o /\ job'[q].pc = "swap"
                            /\ job'[q].kind = job[o].kind /\ job'[q].target = job[o].target
  BY GotoJob DEF Displace, MInv, IInv
<1>4. \A p \in Candidates : fs'[p] = fs[p]
  BY <1>1, <1>2, KindsOfPaths
<1>5. job[o].kind = "promote" => /\ job[o].target \in Candidates
                                /\ Validates(fs[job[o].target], TRUE)
  BY KindsOfPaths DEF MInv, InStep, VerifiedInv, Displace, Swapping
<1>6. \A p \in Kept : Present(p)' => Standing(fs'[p])
  BY <1>1, <1>2, KindsOfPaths DEF VerifiedInv, Kept, Present
<1>7. wreck' = wreck
  BY DEF Displace, historyVars
<1> QED BY <1>3, <1>4, <1>5, <1>6, <1>7 DEF VerifiedInv, Present, Swapping, Rewriting

LEMMA SwapInVerified ==
  ASSUME MInv, VerifiedInv, OneCommand, NEW o \in Operators, SwapIn(o)
  PROVE  VerifiedInv'
<1> DEFINE t == job[o].target
<1>1. /\ Present(t) /\ t \in Paths /\ t # Current /\ fs'[t] = None
      /\ fs'[Current] = IF job[o].kind = "promote"
                        THEN [fs[t] EXCEPT !.displaced = MovedAside(job[o])]
                        ELSE fs[t]
      /\ \A r \in Paths \ {Current, t} : fs'[r] = fs[r]
      /\ Present(Current)' /\ wreck' = {}
  BY SwapInFacts DEF MInv
<1>2. \A q \in Operators : /\ q = o /\ job'[q].pc = "read"
                            /\ job'[q].kind = job[o].kind
  BY GotoJob DEF SwapIn, MInv, IInv
<1>3. CASE job[o].kind = "promote"
  <2>1. Validates(fs[t], TRUE)
    BY <1>3 DEF SwapIn, VerifiedInv, Swapping
  <2>2. fs[t] \in Dirs /\ fs'[Current] \in Dirs
    BY <1>1, PresentDir, NextIInv, KindsOfPaths DEF MInv, IInv, TypeOK, Next, Present
  <2>3. Validates(fs'[Current], TRUE)
    <3>1. fs[t].man # None
      BY <2>1 DEF Validates
    <3>2. /\ fs'[Current].man = fs[t].man /\ fs'[Current].content = fs[t].content
          /\ fs'[Current].rejected = fs[t].rejected
      BY <1>1, <1>3, <2>2 DEF Dirs
    <3> QED BY <2>1, <2>2, <3>1, <3>2, SameVerdict
  <2>4. \A p \in Kept : Present(p)' => Standing(fs'[p])
    BY <1>1, <2>3, KindsOfPaths DEF VerifiedInv, Kept, Present, Standing
  <2> QED BY <1>1, <1>2, <2>3, <2>4 DEF VerifiedInv, Swapping
<1>4. CASE job[o].kind # "promote"
  <2>1. t \in Retained
    BY <1>4 DEF MInv, InStep, SwapIn
  <2>2. Standing(fs'[Current])
    BY <1>1, <1>4, <2>1 DEF VerifiedInv, Kept
  <2>3. \A p \in Kept : Present(p)' => Standing(fs'[p])
    BY <1>1, <2>2, KindsOfPaths DEF VerifiedInv, Kept, Present
  <2> QED BY <1>1, <1>2, <1>4, <2>3 DEF VerifiedInv
<1> QED BY <1>3, <1>4

LEMMA RestoreVerified ==
  ASSUME MInv, VerifiedInv, OneCommand, NEW o \in Operators, Restore(o)
  PROVE  VerifiedInv'
<1>1. /\ Present(job[o].aside) /\ job[o].aside \in Retained
      /\ fs'[job[o].aside] = None /\ fs'[Current] = fs[job[o].aside]
      /\ \A r \in Paths \ {Current, job[o].aside} : fs'[r] = fs[r]
      /\ wreck' = {}
  BY RestoreFacts DEF MInv
<1>2. \A q \in Operators : job'[q].pc = "idle"
  BY FinishJob DEF Restore, MInv, IInv
<1>3. \A p \in Kept : Present(p)' => Standing(fs'[p])
  BY <1>1, KindsOfPaths DEF VerifiedInv, Kept, Present
<1> QED BY <1>1, <1>2, <1>3 DEF VerifiedInv, Swapping, Rewriting

LEMMA RewriteVerified ==
  ASSUME MInv, VerifiedInv, OneCommand, NEW o \in Operators,
         WriteManifest(o) \/ RecordCheck(o)
  PROVE  VerifiedInv'
<1> DEFINE m == IF job[o].pc = "write" THEN Updated(job[o])
                ELSE [job[o].man EXCEPT !.check = job[o].check]
           c == fs[Current]
<1>1. /\ m \in Manifests /\ fs'[Current].man = m /\ Present(Current)'
      /\ fs'[Current].content = c.content /\ fs'[Current].rejected = c.rejected
      /\ \A r \in Paths : r # Current => fs'[r] = fs[r]
      /\ wreck' = wreck
  BY RewriteFactsOf DEF MInv
<1>2. \A q \in Operators :
        /\ q = o
        /\ job'[q].pc = "idle" \/ (job'[q].pc = "reread" /\ job'[q].kind = job[o].kind)
  BY GotoJob, FinishJob DEF WriteManifest, RecordCheck, MInv, IInv
<1>3. \A p \in Candidates : fs'[p] = fs[p]
  BY <1>1, KindsOfPaths
<1>4. CASE job[o].kind = "promote"
  <2>1. Validates(c, TRUE) /\ Present(Current) /\ job[o].man = c.man
    BY <1>4 DEF VerifiedInv, MInv, InStep, WriteManifest, RecordCheck, Rewriting
  <2>2. m.clean = c.man.clean /\ m.publicOnly = c.man.publicOnly /\ m.hash = c.man.hash
    <3>1. c.man \in Manifests
      BY <2>1, DirFacts, PresentDir, KindsOfPaths DEF Validates, MInv, IInv
    <3> QED BY <1>4, <2>1, <3>1 DEF Updated, Manifests
  <2>3. c \in Dirs /\ fs'[Current] \in Dirs
    BY <1>1, <2>1, PresentDir, NextIInv, KindsOfPaths DEF MInv, IInv, TypeOK, Next, Present
  <2>4. m # None
    BY <1>1
  <2>5. Validates(fs'[Current], TRUE)
    <3> HIDE DEF m, c
    <3> QED BY <1>1, <2>1, <2>2, <2>3, <2>4, SameVerdict
  <2>6. \A p \in Kept : Present(p)' => Standing(fs'[p])
    BY <1>1, <2>5, KindsOfPaths DEF VerifiedInv, Kept, Present, Standing
  <2> QED BY <1>1, <1>2, <1>3, <2>5, <2>6 DEF VerifiedInv, Present, Swapping, Rewriting
<1>5. CASE job[o].kind # "promote"
  <2>1. job[o].pc = "write"
    BY <1>5 DEF MInv, InStep, WriteManifest, RecordCheck
  <2>2. m.label = "ROLLED_BACK"
    BY <1>5, <2>1 DEF Updated, MInv, IInv, JobOK, Manifests
  <2>3. Standing(fs'[Current])
    BY <1>1, <2>2 DEF Standing
  <2>4. \A p \in Kept : Present(p)' => Standing(fs'[p])
    BY <1>1, <2>3, KindsOfPaths DEF VerifiedInv, Kept, Present
  <2> QED BY <1>1, <1>2, <1>3, <1>5, <2>4 DEF VerifiedInv, Present, Swapping, Rewriting
<1> QED BY <1>4, <1>5

LEMMA RecoverVerified ==
  ASSUME MInv, VerifiedInv, NEW p \in Paths, RecoverByHand(p)
  PROVE  VerifiedInv'
<1>1. /\ p \in wreck /\ p # Current /\ Present(p) /\ fs'[p] = None
      /\ fs'[Current] = IF p \in Candidates THEN [fs[p] EXCEPT !.displaced = last]
                        ELSE fs[p]
      /\ \A r \in Paths \ {Current, p} : fs'[r] = fs[r]
      /\ Present(Current)' /\ wreck' = {}
  BY RecoverFacts DEF MInv
<1>2. \A o \in Operators : job'[o].pc = "idle"
  BY DEF RecoverByHand, Quiescent
<1>3. Standing(fs'[Current])
  <2>1. CASE p \in Candidates
    <3>1. Validates(fs[p], TRUE)
      BY <1>1, <2>1 DEF VerifiedInv
    <3>2. fs[p] \in Dirs /\ fs'[Current] \in Dirs
      BY <1>1, PresentDir, NextIInv, KindsOfPaths DEF MInv, IInv, TypeOK, Next, Present
    <3>3. /\ fs'[Current].man = fs[p].man /\ fs'[Current].content = fs[p].content
          /\ fs'[Current].rejected = fs[p].rejected /\ fs[p].man # None
      BY <1>1, <2>1, <3>1, <3>2 DEF Dirs, Validates
    <3>4. Validates(fs'[Current], TRUE)
      BY <3>1, <3>2, <3>3, SameVerdict
    <3> QED BY <3>4 DEF Standing
  <2>2. CASE p \notin Candidates
    BY <1>1, <2>2, KindsOfPaths DEF VerifiedInv, Kept, MInv, WreckStands
  <2> QED BY <2>1, <2>2
<1>4. \A r \in Kept : Present(r)' => Standing(fs'[r])
  BY <1>1, <1>3, KindsOfPaths DEF VerifiedInv, Kept, Present
<1> QED BY <1>1, <1>2, <1>4 DEF VerifiedInv, Swapping, Rewriting

LEMMA DamageVerified ==
  ASSUME MInv, VerifiedInv, NEW p \in Paths, NEW x \in Corrupt, Damage(p, x)
  PROVE  VerifiedInv'
<1>1. /\ p \in Retained /\ fs'[p].content = x
      /\ \A r \in Paths : r # p => fs'[r] = fs[r]
      /\ wreck' = wreck /\ job' = job
  BY DamageFacts DEF MInv
<1>2. \A o \in Operators : job[o].pc = "idle"
  BY DEF Damage, Quiescent
<1>3. Standing(fs'[p])
  BY <1>1 DEF Standing
<1>4. \A r \in Kept : Present(r)' => Standing(fs'[r])
  BY <1>1, <1>3, KindsOfPaths DEF VerifiedInv, Kept, Present
<1>5. \A r \in Candidates : fs'[r] = fs[r]
  BY <1>1, KindsOfPaths
<1> QED BY <1>1, <1>2, <1>4, <1>5 DEF VerifiedInv, Present, Swapping, Rewriting

LEMMA UntouchedVerified ==
  ASSUME VerifiedInv, fs' = fs, job' = job, wreck' = wreck
  PROVE  VerifiedInv'
<1>1. \A p : Present(p)' <=> Present(p)
  BY DEF Present
<1>2. \A p : Standing(fs'[p]) <=> Standing(fs[p])
  OBVIOUS
<1> QED BY <1>1, <1>2 DEF VerifiedInv

LEMMA NextVerified == MInv /\ VerifiedInv /\ OneCommand /\ [Next]_vars => VerifiedInv'
<1> SUFFICES ASSUME MInv, VerifiedInv, OneCommand, [Next]_vars PROVE VerifiedInv'
  OBVIOUS
<1>1. ASSUME UNCHANGED vars \/ Tick PROVE VerifiedInv'
  <2>1. fs' = fs /\ job' = job /\ wreck' = wreck
    BY <1>1 DEF vars, Tick, historyVars
  <2> QED BY <2>1, UntouchedVerified
<1>2. ASSUME NEW o \in Operators,
             \/ \E src \in Paths : PromoteInspect(o, src)
             \/ PromoteStage(o) \/ PromoteValidate(o)
             \/ RollbackInspect(o) \/ RollbackValidate(o)
             \/ Observe(o) \/ Displace(o)
             \/ SwapIn(o) \/ SwapFails(o) \/ Restore(o) \/ RestoreFails(o)
             \/ ReadManifest(o) \/ WriteManifest(o)
             \/ RereadManifest(o) \/ RecordCheck(o)
             \/ Fail(o) \/ WriteBreaks(o) \/ Crash(o)
      PROVE  VerifiedInv'
  BY <1>2, PromoteInspectVerified, PromoteStageVerified, QuietVerified,
     DisplaceVerified, SwapInVerified, RestoreVerified, DieVerified, RewriteVerified,
     NoWriteBreaks
<1>3. ASSUME NEW p \in Paths, RecoverByHand(p) \/ \E x \in Corrupt : Damage(p, x)
      PROVE  VerifiedInv'
  BY <1>3, RecoverVerified, DamageVerified
<1> QED BY <1>1, <1>2, <1>3 DEF Next

(* With one command at a time, an index that a promotion put in place      *)
(* passes the start's verification, also when the promotion or a rollback  *)
(* to it was cut short, unless it was damaged.                             *)
THEOREM PromotedStarts == OneCommand => (Spec => []PromotedIsStartable)
<1> SUFFICES ASSUME OneCommand PROVE Spec => []PromotedIsStartable
  OBVIOUS
<1>1. Init => MInv /\ VerifiedInv
  BY InitIInv, InitMInv, InitVerified DEF MInv
<1>2. (MInv /\ VerifiedInv) /\ [Next]_vars => (MInv /\ VerifiedInv)'
  BY NextMInv, NextVerified
<1>3. MInv /\ VerifiedInv => PromotedIsStartable
  BY KindsOfPaths DEF VerifiedInv, Kept, Present, Standing, PromotedIsStartable
<1> QED BY <1>1, <1>2, <1>3, PTL DEF Spec
-----------------------------------------------------------------------------
(* The rollback that is offered undoes *)

(* A manifest that names a previous index has the hashes of what its       *)
(* directory displaced.                                                    *)
Recorded(d) ==
  d.man # None /\ d.man.prev # None
    => d.man.prevHash # None /\ d.man.prevHash = d.displaced

(* A candidate has not been promoted, and a promotion that is about to     *)
(* record what it displaced has it right.                                  *)
RecordInv ==
  /\ \A p \in Kept : Present(p) => Recorded(fs[p])
  /\ \A p \in Candidates \cup MountPaths :
       Present(p) /\ fs[p].man # None => fs[p].man.prev = None
  /\ \A o \in Operators :
       /\ job[o].pc = "stage" => job[o].source \in Candidates \cup MountPaths
       /\ job[o].kind = "promote" /\ job[o].pc \in {"read", "write"} /\ job[o].aside # None
            => job[o].hash # None /\ job[o].hash = fs[Current].displaced

LEMMA InitRecord == Init => RecordInv
<1> SUFFICES ASSUME Init PROVE RecordInv
  OBVIOUS
<1> PICK d \in InitialCurrent :
      fs = [p \in Paths |-> IF p = Current THEN d
                            ELSE IF p \in DOMAIN Shelf THEN Shelf[p] ELSE None]
  BY DEF Init
<1>1. Present(Current) => Recorded(fs[Current])
  BY VolumeAssumption, KindsOfPaths DEF Present, Recorded
<1>2. \A p \in Retained : ~Present(p)
  BY KindsOfPaths DEF Present
<1>3. \A p \in Candidates \cup MountPaths :
        Present(p) /\ fs[p].man # None => fs[p].man.prev = None
  BY VolumeAssumption, KindsOfPaths DEF Present
<1>4. \A o \in Operators : job[o].pc = "idle"
  BY DEF Init, Idle
<1> QED BY <1>1, <1>2, <1>3, <1>4 DEF RecordInv, Kept

(* Steps that leave the volume alone. *)
LEMMA QuietRecord ==
  ASSUME MInv, RecordInv, OneCommand, NEW o \in Operators,
         \/ PromoteValidate(o) \/ RollbackInspect(o) \/ RollbackValidate(o)
         \/ Observe(o) \/ SwapFails(o) \/ RestoreFails(o)
         \/ RereadManifest(o) \/ Fail(o) \/ Crash(o)
  PROVE  RecordInv'
<1>1. fs' = fs
  BY DEF PromoteValidate, RollbackInspect, RollbackValidate, Observe, SwapFails,
     RestoreFails, RereadManifest, Fail, Crash, historyVars
<1>2. /\ \A q \in Operators : q = o
      /\ job'[o].pc \notin {"read", "write", "stage"}
  <2>1. CASE PromoteValidate(o) \/ RollbackValidate(o)
    <3>1. Goto(o, "observe")
      BY <2>1 DEF PromoteValidate, RollbackValidate
    <3> QED BY <3>1, GotoJob DEF MInv, IInv
  <2>2. CASE RollbackInspect(o)
    <3> DEFINE j == [Idle EXCEPT !.pc = "validate", !.kind = "rollback",
                                 !.target = fs[Current].man.prev]
    <3>1. j.pc = "validate" /\ job' = [job EXCEPT ![o] = j]
      BY <2>2 DEF RollbackInspect, Idle
    <3> HIDE DEF j
    <3> QED BY <3>1, OnlyJob DEF MInv, IInv
  <2>3. CASE Observe(o)
    <3> DEFINE j == IF Present(Current)
                    THEN [job[o] EXCEPT !.pc = "displace", !.aside = AsidePath(job[o].kind),
                                        !.hash = fs[Current].content]
                    ELSE [job[o] EXCEPT !.pc = "swap"]
    <3>1. j.pc \in {"displace", "swap"} /\ job' = [job EXCEPT ![o] = j]
      BY <2>3 DEF Observe, MInv, IInv, TypeOK, Jobs
    <3> HIDE DEF j
    <3> QED BY <3>1, OnlyJob DEF MInv, IInv
  <2>4. CASE SwapFails(o)
    BY <2>4, GotoJob, FinishJob DEF SwapFails, MInv, IInv
  <2>5. CASE RereadManifest(o)
    <3> DEFINE j == [job[o] EXCEPT !.pc = "record", !.man = fs[Current].man]
    <3>1. j.pc = "record" /\ job' = [job EXCEPT ![o] = j]
      BY <2>5 DEF RereadManifest, MInv, IInv, TypeOK, Jobs
    <3> HIDE DEF j
    <3> QED BY <3>1, OnlyJob DEF MInv, IInv
  <2>6. CASE RestoreFails(o) \/ Fail(o) \/ Crash(o)
    BY <2>6, FinishJob DEF RestoreFails, Fail, Crash, MInv, IInv
  <2> QED BY <2>1, <2>2, <2>3, <2>4, <2>5, <2>6
<1>3. \A p : Recorded(fs'[p]) <=> Recorded(fs[p])
  BY <1>1
<1> QED BY <1>1, <1>2, <1>3 DEF RecordInv, Present

LEMMA ReadManifestRecord ==
  ASSUME MInv, RecordInv, OneCommand, NEW o \in Operators, ReadManifest(o)
  PROVE  RecordInv'
<1> DEFINE m == IF fs[Current].man = None THEN LegacyRecord(fs[Current].content)
                ELSE fs[Current].man
           j == [job[o] EXCEPT !.pc = "write", !.man = m]
<1>1. /\ j.kind = job[o].kind /\ j.aside = job[o].aside /\ j.hash = job[o].hash
      /\ j.pc = "write" /\ job[o].pc = "read" /\ job' = [job EXCEPT ![o] = j]
  <2>1. job[o].pc = "read"
    BY DEF ReadManifest
  <2>2. job' = [job EXCEPT ![o] = j]
    BY RecordRead DEF MInv
  <2>3. /\ j.kind = job[o].kind /\ j.aside = job[o].aside /\ j.hash = job[o].hash
        /\ j.pc = "write"
    BY DEF MInv, IInv, TypeOK, Jobs
  <2> QED BY <2>1, <2>2, <2>3
<1> HIDE DEF j, m
<1>2. \A q \in Operators : q = o /\ job'[q] = j
  BY <1>1, OnlyJob DEF MInv, IInv
<1>3. fs' = fs
  BY DEF ReadManifest
<1>4. \A p : Recorded(fs'[p]) <=> Recorded(fs[p])
  BY <1>3
<1> QED BY <1>1, <1>2, <1>3, <1>4 DEF RecordInv, Present

LEMMA PromoteInspectRecord ==
  ASSUME MInv, RecordInv, OneCommand, ~Repromote,
         NEW o \in Operators, NEW src \in Paths, PromoteInspect(o, src)
  PROVE  RecordInv'
<1> DEFINE m == fs[src].man
           dest == Candidate(m.build)
<1>1. PICK chk \in CheckOutcomes(fs[src].content) :
        job' = [job EXCEPT ![o] =
          [Idle EXCEPT !.pc = IF src = dest THEN "validate" ELSE "stage",
                       !.kind = "promote", !.source = src,
                       !.target = dest, !.man = m, !.check = chk]]
  BY DEF PromoteInspect
<1> DEFINE j == [Idle EXCEPT !.pc = IF src = dest THEN "validate" ELSE "stage",
                             !.kind = "promote", !.source = src,
                             !.target = dest, !.man = m, !.check = chk]
<1>2. /\ j.pc \notin {"read", "write"} /\ j.source = src
      /\ job' = [job EXCEPT ![o] = j]
  BY <1>1 DEF Idle
<1>3. src \in MountPaths \cup Candidates /\ fs' = fs
  BY DEF PromoteInspect
<1> HIDE DEF j, dest, m
<1>4. \A q \in Operators : q = o /\ job'[q] = j
  BY <1>2, OnlyJob DEF MInv, IInv
<1>5. \A p : Recorded(fs'[p]) <=> Recorded(fs[p])
  BY <1>3
<1> QED BY <1>2, <1>3, <1>4, <1>5 DEF RecordInv, Present

LEMMA PromoteStageRecord ==
  ASSUME MInv, RecordInv, OneCommand, NEW o \in Operators, PromoteStage(o)
  PROVE  RecordInv'
<1>1. /\ job[o].target \in Candidates /\ Present(job[o].source)
      /\ fs'[job[o].target] = fs[job[o].source]
      /\ \A p \in Paths : p # job[o].target => fs'[p] = fs[p]
  BY StageFacts DEF MInv
<1>2. \A q \in Operators : q = o /\ job'[q].pc = "validate"
  BY GotoJob DEF PromoteStage, MInv, IInv
<1>3. job[o].source \in Candidates \cup MountPaths
  BY DEF RecordInv, PromoteStage
<1>4. \A p \in Kept : fs'[p] = fs[p]
  BY <1>1, KindsOfPaths DEF Kept
<1>5. \A p \in Candidates \cup MountPaths : p # job[o].target => fs'[p] = fs[p]
  BY <1>1, KindsOfPaths
<1> QED BY <1>1, <1>2, <1>3, <1>4, <1>5 DEF RecordInv, Present

LEMMA DisplaceRecord ==
  ASSUME MInv, RecordInv, OneCommand, NEW o \in Operators, Displace(o)
  PROVE  RecordInv'
<1>1. job[o].aside \in Retained /\ Present(Current)
  BY DisplaceFree
<1>2. /\ fs'[Current] = None /\ fs'[job[o].aside] = fs[Current]
      /\ \A r \in Paths \ {Current, job[o].aside} : fs'[r] = fs[r]
  BY <1>1, KindsOfPaths, MovedFacts DEF Displace, MInv, IInv
<1>3. \A q \in Operators : q = o /\ job'[q].pc = "swap"
  BY GotoJob DEF Displace, MInv, IInv
<1>4. \A p \in Candidates \cup MountPaths : fs'[p] = fs[p]
  BY <1>1, <1>2, KindsOfPaths
<1>5. \A p \in Kept : Present(p)' => Recorded(fs'[p])
  BY <1>1, <1>2, KindsOfPaths DEF RecordInv, Kept, Present
<1> QED BY <1>3, <1>4, <1>5 DEF RecordInv, Present

LEMMA SwapInRecord ==
  ASSUME MInv, RecordInv, OneCommand, NEW o \in Operators, SwapIn(o)
  PROVE  RecordInv'
<1> DEFINE t == job[o].target
           a == job[o].aside
<1>1. /\ Present(t) /\ t \in Paths /\ t # Current /\ fs'[t] = None
      /\ fs'[Current] = IF job[o].kind = "promote"
                        THEN [fs[t] EXCEPT !.displaced = MovedAside(job[o])]
                        ELSE fs[t]
      /\ \A r \in Paths \ {Current, t} : fs'[r] = fs[r]
  BY SwapInFacts DEF MInv
<1>2. \A q \in Operators :
        /\ q = o /\ job'[q].pc = "read" /\ job'[q].kind = job[o].kind
        /\ job'[q].aside = a /\ job'[q].hash = job[o].hash
  BY GotoJob DEF SwapIn, MInv, IInv
<1>3. fs[t] \in Dirs
  BY <1>1, PresentDir DEF MInv, IInv
<1>4. CASE job[o].kind = "promote"
  <2>1. t \in Candidates
    BY <1>4, KindsOfPaths DEF MInv, InStep, SwapIn
  <2>2. /\ fs'[Current].man = fs[t].man
        /\ fs'[Current].displaced = MovedAside(job[o])
    BY <1>1, <1>3, <1>4 DEF Dirs
  <2>3. Recorded(fs'[Current])
    BY <1>1, <2>1, <2>2 DEF RecordInv, Recorded
  <2>4. a # None => job[o].hash # None /\ job[o].hash = fs'[Current].displaced
    <3> SUFFICES ASSUME a # None
                 PROVE  job[o].hash # None /\ job[o].hash = fs'[Current].displaced
      OBVIOUS
    <3>1. Present(a) /\ fs[a].content = job[o].hash
      BY DEF MInv, InStep, SwapIn
    <3>2. a \in Paths
      BY KindsOfPaths DEF MInv, IInv, TypeOK, Jobs
    <3>3. fs[a].content # None
      BY <3>1, <3>2 DEF MInv, Furnished
    <3> QED BY <2>2, <3>1, <3>3 DEF MovedAside
  <2>5. \A p \in Kept : Present(p)' => Recorded(fs'[p])
    BY <1>1, <2>1, <2>3, KindsOfPaths DEF RecordInv, Kept, Present
  <2>6. \A p \in Candidates \cup MountPaths : Present(p)' => fs'[p] = fs[p] /\ Present(p)
    BY <1>1, <2>1, KindsOfPaths DEF Present
  <2> QED BY <1>2, <2>4, <2>5, <2>6 DEF RecordInv
<1>5. CASE job[o].kind # "promote"
  <2>1. t \in Retained
    BY <1>5 DEF MInv, InStep, SwapIn
  <2>2. Recorded(fs'[Current])
    BY <1>1, <1>5, <2>1 DEF RecordInv, Kept
  <2>3. \A p \in Kept : Present(p)' => Recorded(fs'[p])
    BY <1>1, <2>2, KindsOfPaths DEF RecordInv, Kept, Present
  <2>4. \A p \in Candidates \cup MountPaths : fs'[p] = fs[p]
    BY <1>1, <2>1, KindsOfPaths
  <2> QED BY <1>2, <1>5, <2>3, <2>4 DEF RecordInv, Present
<1> QED BY <1>4, <1>5

LEMMA RestoreRecord ==
  ASSUME MInv, RecordInv, OneCommand, NEW o \in Operators, Restore(o)
  PROVE  RecordInv'
<1>1. /\ Present(job[o].aside) /\ job[o].aside \in Retained
      /\ fs'[job[o].aside] = None /\ fs'[Current] = fs[job[o].aside]
      /\ \A r \in Paths \ {Current, job[o].aside} : fs'[r] = fs[r]
  BY RestoreFacts DEF MInv
<1>2. \A q \in Operators : job'[q].pc = "idle"
  BY FinishJob DEF Restore, MInv, IInv
<1>3. \A p \in Kept : Present(p)' => Recorded(fs'[p])
  BY <1>1, KindsOfPaths DEF RecordInv, Kept, Present
<1>4. \A p \in Candidates \cup MountPaths : fs'[p] = fs[p]
  BY <1>1, KindsOfPaths
<1> QED BY <1>2, <1>3, <1>4 DEF RecordInv, Present

LEMMA RewriteRecord ==
  ASSUME MInv, RecordInv, OneCommand, NEW o \in Operators,
         WriteManifest(o) \/ RecordCheck(o)
  PROVE  RecordInv'
<1> DEFINE j == job[o]
           m == IF j.pc = "write" THEN Updated(j) ELSE [j.man EXCEPT !.check = j.check]
           c == fs[Current]
<1>1. /\ m \in Manifests /\ fs'[Current].man = m
      /\ fs'[Current].displaced = c.displaced
      /\ \A r \in Paths : r # Current => fs'[r] = fs[r]
  BY RewriteFactsOf DEF MInv
<1>2. \A q \in Operators : q = o /\ job'[q].pc \in {"idle", "reread"}
  BY GotoJob, FinishJob DEF WriteManifest, RecordCheck, MInv, IInv
<1>3. \A p \in Candidates \cup MountPaths : fs'[p] = fs[p]
  BY <1>1, KindsOfPaths
<1>4. /\ Present(Current) /\ j.man \in Manifests /\ Recorded(c)
      /\ j.pc \in {"write", "record"}
      /\ j.man = c.man \/ (j.pc = "write" /\ j.man = LegacyRecord(c.content))
  BY KindsOfPaths DEF MInv, IInv, JobOK, InStep, RecordInv, Kept, Rewriting,
     WriteManifest, RecordCheck
<1>5. Recorded(fs'[Current])
  <2>1. CASE j.pc = "write" /\ j.kind = "promote"
    <3>1. m.prev = j.aside /\ m.prevHash = j.hash
      BY <1>4, <2>1 DEF Updated, Manifests
    <3>2. j.aside # None => j.hash # None /\ j.hash = c.displaced
      BY <2>1 DEF RecordInv
    <3> HIDE DEF j, m, c
    <3> QED BY <1>1, <3>1, <3>2 DEF Recorded
  <2>2. CASE ~(j.pc = "write" /\ j.kind = "promote")
    <3>1. m.prev = j.man.prev /\ m.prevHash = j.man.prevHash
      BY <1>4, <2>2 DEF Updated, Manifests
    <3>2. j.man = c.man \/ j.man.prev = None
      BY <1>4 DEF LegacyRecord
    <3>3. j.man # None
      BY <1>4
    <3> HIDE DEF j, m, c
    <3> QED BY <1>1, <1>4, <3>1, <3>2, <3>3 DEF Recorded
  <2> QED BY <2>1, <2>2
<1>6. \A p \in Kept : Present(p)' => Recorded(fs'[p])
  BY <1>1, <1>5, KindsOfPaths DEF RecordInv, Kept, Present
<1> QED BY <1>2, <1>3, <1>6 DEF RecordInv, Present

LEMMA RecoverRecord ==
  ASSUME MInv, RecordInv, NEW p \in Paths, RecoverByHand(p)
  PROVE  RecordInv'
<1>1. /\ p \in wreck /\ p # Current /\ Present(p) /\ fs'[p] = None
      /\ fs'[Current] = IF p \in Candidates THEN [fs[p] EXCEPT !.displaced = last]
                        ELSE fs[p]
      /\ \A r \in Paths \ {Current, p} : fs'[r] = fs[r]
  BY RecoverFacts DEF MInv
<1>2. \A o \in Operators : job'[o].pc = "idle"
  BY DEF RecoverByHand, Quiescent
<1>3. Recorded(fs'[Current])
  <2>1. CASE p \in Candidates
    <3>1. fs[p] \in Dirs
      BY <1>1, PresentDir DEF MInv, IInv
    <3>2. fs'[Current].man = fs[p].man
      BY <1>1, <2>1, <3>1 DEF Dirs
    <3> QED BY <1>1, <2>1, <3>2 DEF RecordInv, Recorded
  <2>2. CASE p \notin Candidates
    BY <1>1, <2>2, KindsOfPaths DEF RecordInv, Kept, MInv, WreckStands
  <2> QED BY <2>1, <2>2
<1>4. \A r \in Kept : Present(r)' => Recorded(fs'[r])
  BY <1>1, <1>3, KindsOfPaths DEF RecordInv, Kept, Present
<1>5. \A r \in Candidates \cup MountPaths : Present(r)' => fs'[r] = fs[r] /\ Present(r)
  BY <1>1, KindsOfPaths DEF Present
<1> QED BY <1>2, <1>4, <1>5 DEF RecordInv

LEMMA DamageRecord ==
  ASSUME MInv, RecordInv, NEW p \in Paths, NEW x \in Corrupt, Damage(p, x)
  PROVE  RecordInv'
<1>1. /\ p \in Retained /\ Present(p)
      /\ fs'[p].man = fs[p].man /\ fs'[p].displaced = fs[p].displaced
      /\ \A r \in Paths : r # p => fs'[r] = fs[r]
      /\ job' = job
  BY DamageFacts DEF MInv
<1>2. \A o \in Operators : job[o].pc = "idle"
  BY DEF Damage, Quiescent
<1>3. Recorded(fs'[p])
  BY <1>1 DEF RecordInv, Kept, Recorded
<1>4. \A r \in Kept : Present(r)' => Recorded(fs'[r])
  BY <1>1, <1>3, KindsOfPaths DEF RecordInv, Kept, Present
<1>5. \A r \in Candidates \cup MountPaths : fs'[r] = fs[r]
  BY <1>1, KindsOfPaths
<1> QED BY <1>1, <1>2, <1>4, <1>5 DEF RecordInv, Present

LEMMA UntouchedRecord ==
  ASSUME RecordInv, fs' = fs, job' = job
  PROVE  RecordInv'
<1>1. \A p : Present(p)' <=> Present(p)
  BY DEF Present
<1>2. \A p : Recorded(fs'[p]) <=> Recorded(fs[p])
  OBVIOUS
<1> QED BY <1>1, <1>2 DEF RecordInv

LEMMA NextRecord ==
  MInv /\ RecordInv /\ OneCommand /\ ~Repromote /\ [Next]_vars => RecordInv'
<1> SUFFICES ASSUME MInv, RecordInv, OneCommand, ~Repromote, [Next]_vars PROVE RecordInv'
  OBVIOUS
<1>1. ASSUME UNCHANGED vars \/ Tick PROVE RecordInv'
  <2>1. fs' = fs /\ job' = job
    BY <1>1 DEF vars, Tick
  <2> QED BY <2>1, UntouchedRecord
<1>2. ASSUME NEW o \in Operators,
             \/ \E src \in Paths : PromoteInspect(o, src)
             \/ PromoteStage(o) \/ PromoteValidate(o)
             \/ RollbackInspect(o) \/ RollbackValidate(o)
             \/ Observe(o) \/ Displace(o)
             \/ SwapIn(o) \/ SwapFails(o) \/ Restore(o) \/ RestoreFails(o)
             \/ ReadManifest(o) \/ WriteManifest(o)
             \/ RereadManifest(o) \/ RecordCheck(o)
             \/ Fail(o) \/ WriteBreaks(o) \/ Crash(o)
      PROVE  RecordInv'
  BY <1>2, PromoteInspectRecord, PromoteStageRecord, QuietRecord, ReadManifestRecord,
     DisplaceRecord, SwapInRecord, RestoreRecord, RewriteRecord, NoWriteBreaks
<1>3. ASSUME NEW p \in Paths, RecoverByHand(p) \/ \E x \in Corrupt : Damage(p, x)
      PROVE  RecordInv'
  BY <1>3, RecoverRecord, DamageRecord
<1> QED BY <1>1, <1>2, <1>3 DEF Next

(* With one command at a time, and no index promoted a second time, the    *)
(* rollback that the CLI offers puts back what faiss_index displaced.      *)
THEOREM RollbackUndoes ==
  OneCommand /\ ~Repromote => (Spec => []OfferedRollbackIsUndo)
<1> SUFFICES ASSUME OneCommand, ~Repromote PROVE Spec => []OfferedRollbackIsUndo
  OBVIOUS
<1>1. Init => MInv /\ RecordInv
  BY InitIInv, InitMInv, InitRecord DEF MInv
<1>2. (MInv /\ RecordInv) /\ [Next]_vars => (MInv /\ RecordInv)'
  BY NextMInv, NextRecord
<1>3. MInv /\ RecordInv => OfferedRollbackIsUndo
  BY KindsOfPaths DEF RecordInv, Kept, Present, Recorded, OfferedRollbackIsUndo, MatchesRecord
<1> QED BY <1>1, <1>2, <1>3, PTL DEF Spec
-----------------------------------------------------------------------------
(* The service beside the volume *)

(* What each stage of a start has established.  What concerns the index    *)
(* holds as long as faiss_index is left undisturbed.                       *)
ServingInv ==
  /\ IInv
  /\ svc # "down" => setting \in Settings
  /\ svc \in {"half", "loaded", "up"} => SecretLoads(setting)
  /\ svc = "up" => AuthConfigured(setting)
  /\ undisturbed /\ Starting =>
       CurrentContent \in Contents /\ Kind[CurrentContent] = "public"
  /\ undisturbed /\ svc = "half" => vectors = CurrentContent
  /\ undisturbed /\ svc \in {"loaded", "up"} =>
       vectors \in Contents /\ metadata = vectors /\ Kind[vectors] = "public"

(* A step of the container leaves the volume alone, so that all that is    *)
(* proved of the lifecycle holds beside a service, too.                    *)
LEMMA ServingIsLifecycle == ServingSpec => Spec
<1>1. ServingInit => Init
  BY DEF ServingInit
<1>2. [ServingNext]_servingVars => [Next]_vars
  BY DEF ServingNext, servingVars, Maintenance, ServiceVerify, OllamaAnswers,
     ServiceLoadVectors, ServiceLoadMetadata, ServiceStartup, ServiceStop
<1> QED BY <1>1, <1>2, PTL DEF ServingSpec, Spec

LEMMA InitServing == ServingInit => ServingInv
BY InitIInv DEF ServingInit, ServingInv, Starting

(* What verification accepts is a PUBLIC-only index. *)
LEMMA AcceptedIsPublic ==
  ASSUME TypeOK, Validates(fs[Current], TRUE)
  PROVE  CurrentContent \in Contents /\ Kind[CurrentContent] = "public"
<1>1. fs[Current] \in Dirs /\ Present(Current)
  BY PathFacts DEF TypeOK, Validates, Present
<1> QED BY <1>1, DirFacts DEF CurrentContent, Validates

LEMMA NextServing == ServingInv /\ [ServingNext]_servingVars => ServingInv'
<1> SUFFICES ASSUME ServingInv, [ServingNext]_servingVars PROVE ServingInv'
  OBVIOUS
<1>1. IInv'
  <2>1. [Next]_vars
    BY DEF ServingNext, servingVars, Maintenance, ServiceVerify, OllamaAnswers,
       ServiceLoadVectors, ServiceLoadMetadata, ServiceStartup, ServiceStop
  <2> QED BY <2>1, NextIInv DEF ServingInv
<1>2. ASSUME fs' = fs PROVE CurrentContent' = CurrentContent
  BY <1>2 DEF CurrentContent, Present
<1>3. CASE Maintenance
  <2>1. /\ setting' = setting /\ svc' = svc /\ vectors' = vectors /\ metadata' = metadata
        /\ undisturbed' => undisturbed /\ (Starting => CurrentContent' = CurrentContent)
    BY <1>3 DEF Maintenance
  <2> QED BY <1>1, <2>1 DEF ServingInv, Starting
<1>4. ASSUME NEW s \in Settings, ServiceVerify(s) PROVE ServingInv'
  <2>1. fs' = fs /\ svc' \in {"waiting", "ready"} /\ setting' \in Settings
    BY <1>4 DEF ServiceVerify, vars
  <2>2. CurrentContent \in Contents /\ Kind[CurrentContent] = "public"
    BY <1>4, AcceptedIsPublic DEF ServiceVerify, VerifyIndex, ServingInv, IInv
  <2> QED BY <1>1, <1>2, <2>1, <2>2 DEF ServingInv
<1>5. CASE OllamaAnswers
  <2>1. /\ fs' = fs /\ svc = "waiting" /\ svc' = "ready" /\ setting' = setting
        /\ undisturbed' = undisturbed
    BY <1>5 DEF OllamaAnswers, vars
  <2> QED BY <1>1, <1>2, <2>1 DEF ServingInv, Starting
<1>6. CASE ServiceLoadVectors
  <2>1. /\ fs' = fs /\ svc = "ready" /\ setting' = setting /\ SecretLoads(setting)
        /\ vectors' = CurrentContent /\ undisturbed' = undisturbed
        /\ svc' = IF CurrentContent # None THEN "half" ELSE "loaded"
    BY <1>6 DEF ServiceLoadVectors, vars
  <2>2. undisturbed => CurrentContent \in Contents /\ Kind[CurrentContent] = "public"
    BY <2>1 DEF ServingInv, Starting
  <2> QED BY <1>1, <1>2, <2>1, <2>2 DEF ServingInv
<1>7. CASE ServiceLoadMetadata
  <2>1. /\ svc = "half" /\ svc' = "loaded" /\ metadata' = CurrentContent
        /\ setting' = setting /\ vectors' = vectors /\ undisturbed' = undisturbed
    BY <1>7 DEF ServiceLoadMetadata, vars
  <2> QED BY <1>1, <2>1 DEF ServingInv, Starting
<1>8. CASE ServiceStartup
  BY <1>1, <1>8 DEF ServingInv, ServiceStartup, Starting
<1>9. CASE ServiceStop
  BY <1>1, <1>9 DEF ServingInv, ServiceStop, Starting
<1>10. CASE UNCHANGED servingVars
  <2>1. fs' = fs /\ UNCHANGED serviceVars
    BY <1>10 DEF servingVars, vars
  <2> QED BY <1>1, <1>2, <2>1 DEF ServingInv, serviceVars, Starting
<1> QED BY <1>3, <1>4, <1>5, <1>6, <1>7, <1>8, <1>9, <1>10 DEF ServingNext

(* However many commands maintain the volume and whenever, a service that  *)
(* is up is in an accepted environment, and it holds the vectors and the   *)
(* metadata of one verified PUBLIC-only index unless the artifacts in      *)
(* faiss_index were exchanged between its verification and its load.       *)
THEOREM ServesOnlyVerified == ServingSpec => []ServesVerified
<1>1. ServingInit => ServingInv
  BY InitServing
<1>2. ServingInv /\ [ServingNext]_servingVars => ServingInv'
  BY NextServing
<1>3. ServingInv => ServesVerified
  BY SettingsAssumption DEF ServingInv, ServesVerified, SecretLoads, AuthConfigured
<1> QED BY <1>1, <1>2, <1>3, PTL DEF ServingSpec
=============================================================================
