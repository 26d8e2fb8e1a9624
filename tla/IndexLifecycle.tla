--------------------------- MODULE IndexLifecycle ---------------------------
(***************************************************************************)
(* The index directories of one data volume (/app/data) and everything     *)
(* that moves them: `promote_index.py promote` and `rollback` step by step *)
(* (index/lifecycle.py does the renames) and the operator's recovery by    *)
(* hand.  IndexServing adds the container that starts on faiss_index.      *)
(*                                                                         *)
(* A step is one filesystem mutation or one group of reads, because        *)
(* nothing in the code locks the volume: a second command, a crash or a    *)
(* container start may come between any two of them.                       *)
(*                                                                         *)
(* Data abstraction.  The vectors and metadata of an index are one element  *)
(* of Contents, which also stands for its artifact hashes and its build id; *)
(* Kind says what the validator finds in them.  A directory without either *)
(* (and with no hashes) has content None: write_manifest makes one when    *)
(* another command has moved faiss_index away.                             *)
(***************************************************************************)
EXTENDS Naturals

CONSTANTS
  Contents,         \* the distinct index artifacts (index.faiss + metadata.pkl)
  Kind,             \* what validation finds in each of them
  Published,        \* the contents whose every document is in the sitemap
  Operators,        \* concurrently running promote_index.py commands
  MountNames,       \* names of candidate directories outside the data volume
  Shelf,            \* the candidates there are to begin with: path -> directory
  InitialCurrent,   \* the faiss_index directories the volume may start with
  MaxTime,          \* bound on the clock, which counts seconds
  MaxCommands,      \* bound on the number of commands issued
  MaxRacing,        \* bound on that number when they overlap
  Repromote,        \* may a promote be pointed at a retained directory?
  Corrupt,          \* contents that damage to a retained directory can leave behind
  None              \* absent directory, missing manifest, null field

Kinds == {"public", "mixed", "legacy", "broken"}
Labels == {"CANDIDATE", "PROMOTED", "ROLLED_BACK"}
Checks == {"PASSED", "SKIPPED"}
Times == 0..MaxTime

Current      == <<"faiss_index", 0>>
Candidate(b) == <<"faiss_candidates", b>>
Previous(t)  == <<"faiss_previous", t>>
Rolled(t)    == <<"faiss_rolled", t>>
Mount(m)     == <<"mount", m>>

Builds == Contents \cup {None}      \* None: the record of a legacy index

Candidates == {Candidate(b) : b \in Builds}
Retained   == {Previous(t) : t \in Times} \cup {Rolled(t) : t \in Times}
MountPaths == {Mount(m) : m \in MountNames}
Paths      == {Current} \cup Candidates \cup Retained \cup MountPaths

(* build_manifest.json, reduced to the fields that steer the lifecycle. *)
Manifests ==
  [build      : Builds,
   clean      : BOOLEAN,                  \* build_status = CLEAN
   publicOnly : BOOLEAN,                  \* visibility_policy = PUBLIC_ONLY
   hash       : Contents \cup {None},     \* artifact_hashes, when recorded
   label      : Labels,                   \* promotion_status
   prev       : Retained \cup {None},     \* previous_index
   prevHash   : Contents \cup {None},     \* previous_index_artifact_hashes
   check      : Checks \cup {None}]       \* promotion_published_check

(* displaced is a history field: the content this directory replaced when  *)
(* it was last promoted.  No step of the code reads it.                    *)
Dirs ==
  [content   : Contents \cup {None},
   man       : Manifests \cup {None},
   rejected  : BOOLEAN,                   \* the REJECTED marker is present
   displaced : Contents \cup {None}]

Steps == {"stage", "validate", "observe", "displace", "swap", "restore",
          "read", "write", "reread", "record"}

Jobs ==
  [pc     : Steps \cup {"idle"},
   kind   : {"promote", "rollback", None},
   source : Paths \cup {None},            \* --source of a promote
   target : Paths \cup {None},            \* the directory to swap in
   aside  : Retained \cup {None},         \* where the current one is moved
   hash   : Contents \cup {None},         \* hashes of the current one
   man    : Manifests \cup {None},        \* the manifest last read
   check  : Checks \cup {None}]           \* outcome of the published check

ASSUME KindAssumption == Kind \in [Contents -> Kinds]
ASSUME NoneAssumption ==
  /\ None \notin Contents
  /\ None \notin Dirs
  /\ None \notin Manifests
  /\ None \notin Paths
ASSUME ShelfAssumption ==
  /\ DOMAIN Shelf \subseteq Candidates \cup MountPaths
  /\ \A p \in DOMAIN Shelf : Shelf[p] \in Dirs
ASSUME InitialAssumption == InitialCurrent \subseteq Dirs \cup {None}
ASSUME CorruptAssumption == Corrupt \subseteq Contents
ASSUME BoundAssumption == MaxTime \in Nat /\ MaxCommands \in Nat /\ MaxRacing \in 0..MaxCommands
ASSUME FlagAssumption == Repromote \in BOOLEAN

VARIABLES
  fs,           \* path -> directory or None
  job,          \* operator -> the state of its command
  clock,        \* the second that names retained directories
  commands,     \* history: how many commands were issued so far, and
                \*   whether each of them had the volume to itself
  owed,         \* history: every content that was ever in faiss_index, less
                \*   those damaged from outside since
  last,         \* history: the content most recently in faiss_index
  wreck         \* history: the directories that the last command to die in
                \*   the swap window leaves for the operator to choose from

vars == <<fs, job, clock, commands, owed, last, wreck>>
historyVars == <<owed, last, wreck>>

Idle == [pc |-> "idle", kind |-> None, source |-> None, target |-> None,
         aside |-> None, hash |-> None, man |-> None, check |-> None]

Present(p) == fs[p] # None

CurrentContent == IF Present(Current) THEN fs[Current].content ELSE None

Quiescent == \A o \in Operators : job[o].pc = "idle"
(* What a command that dies in the swap window leaves to recover from. *)
Wreck(j) == {j.target, j.aside} \ {None}
-----------------------------------------------------------------------------
(* Validation *)

(* validate_index_directory: what a promotion and a start accept. *)
Validates(d, requirePublic) ==
  /\ d # None
  /\ ~d.rejected
  /\ d.content # None
  /\ d.man # None
  /\ d.man.clean
  /\ d.man.hash # None => d.man.hash = d.content
  /\ Kind[d.content] \in {"public", "mixed"}
  /\ (requirePublic \/ d.man.publicOnly) => Kind[d.content] = "public"

(* ... with allow_legacy: what a rollback accepts. *)
ValidatesForRollback(d) ==
  IF d # None /\ ~d.rejected /\ d.man = None
  THEN d.content # None /\ Kind[d.content] # "broken"
  ELSE Validates(d, FALSE)

(* What a volume starts with: an index without a manifest, one that was     *)
(* rolled back to, or one that starts; and no manifest names an index that  *)
(* the lifecycle has yet to retain (a build writes previous_index: null).   *)
ASSUME VolumeAssumption ==
  /\ \A d \in InitialCurrent \ {None} :
       /\ d.content # None
       /\ d.man # None => /\ d.man.label = "ROLLED_BACK" \/ Validates(d, TRUE)
                          /\ d.man.prev = None
  /\ \A p \in DOMAIN Shelf :
       /\ Shelf[p].content # None
       /\ Shelf[p].man # None => Shelf[p].man.prev = None

(* A rename that replaces whatever is at its destination. *)
CanRename_Clobber(from, to) == Present(from)

(* A directory that write_manifest made and did not get to write into: it  *)
(* is empty, or holds an unfinished build_manifest.json.tmp.               *)
Vacant(d) == d.content = None /\ d.man = None

(* os.replace of a directory: it fails when the source is gone and when    *)
(* the destination exists and is not empty.                                *)
CanRename(from, to) == Present(from) /\ (Present(to) => Vacant(fs[to]))

Moved(from, to, d) == [fs EXCEPT ![to] = d, ![from] = None]

(* History bookkeeping of a step that puts content c into faiss_index. *)
BecomesCurrent(c) ==
  /\ owed' = owed \cup ({c} \ {None})
  /\ last' = c
  /\ wreck' = {}
-----------------------------------------------------------------------------
Init ==
  /\ \E d \in InitialCurrent :
       /\ fs = [p \in Paths |->
                  IF p = Current THEN d
                  ELSE IF p \in DOMAIN Shelf THEN Shelf[p] ELSE None]
       /\ owed = (IF d = None THEN {} ELSE {d.content} \ {None})
       /\ last = (IF d = None THEN None ELSE d.content)
  /\ job = [o \in Operators |-> Idle]
  /\ clock = 0
  /\ commands = [issued |-> 0, alone |-> TRUE]
  /\ wreck = {}

(* Nothing keeps an operator from issuing a command while another runs. *)
Issue(o) ==
  LET alone == commands.alone /\ Quiescent IN
  /\ job[o].pc = "idle"
  /\ commands.issued < (IF alone THEN MaxCommands ELSE MaxRacing)
  /\ commands' = [issued |-> commands.issued + 1, alone |-> alone]

Goto(o, step) == job' = [job EXCEPT ![o].pc = step]
Finish(o)     == job' = [job EXCEPT ![o] = Idle]

-----------------------------------------------------------------------------
(* promote_index.py promote *)

(* A gate that leaves PUBLIC-only to promote_candidate. *)
SourceAccepted_AnyVisibility(d) == Validates(d, FALSE)

(* cmd_promote and _stage_candidate validate with require_public_only. *)
SourceAccepted(d) == Validates(d, TRUE)

(* _published_check refuses an index with an unpublished document, unless  *)
(* the operator skips the check.                                           *)
CheckOutcomes(c) == IF c \in Published THEN Checks ELSE {"SKIPPED"}

(* cmd_promote up to staging: read the source's manifest, refuse an        *)
(* occupied destination, validate as PUBLIC-only, run the published check. *)
PromoteInspect(o, src) ==
  /\ Issue(o)
  /\ src \in MountPaths \cup Candidates \cup (IF Repromote THEN Retained ELSE {})
  /\ SourceAccepted(fs[src])
  /\ LET m    == fs[src].man
         dest == Candidate(m.build)
     IN /\ src # dest => ~Present(dest)
        /\ src = dest => m.hash = fs[src].content
        /\ \E chk \in CheckOutcomes(fs[src].content) :
             job' = [job EXCEPT ![o] =
               [Idle EXCEPT !.pc = IF src = dest THEN "validate" ELSE "stage",
                            !.kind = "promote", !.source = src,
                            !.target = dest, !.man = m, !.check = chk]]
  /\ UNCHANGED <<fs, clock, historyVars>>

(* _stage_candidate: the private partial copy is checked against the       *)
(* source and the manifest read before, validated, and renamed to dest.    *)
PromoteStage(o) ==
  LET j == job[o] IN
  /\ j.pc = "stage"
  /\ SourceAccepted(fs[j.source])
  /\ j.man.hash = fs[j.source].content
  /\ ~Present(j.target)
  /\ fs' = [fs EXCEPT ![j.target] = fs[j.source]]
  /\ Goto(o, "validate")
  /\ UNCHANGED <<clock, commands, historyVars>>

(* promote_candidate's own validation, which leaves PUBLIC-only to the manifest. *)
PromoteValidate(o) ==
  /\ job[o].pc = "validate" /\ job[o].kind = "promote"
  /\ Validates(fs[job[o].target], FALSE)
  /\ Goto(o, "observe")
  /\ UNCHANGED <<fs, clock, commands, historyVars>>
-----------------------------------------------------------------------------
(* promote_index.py rollback *)

(* cmd_rollback: the target is whatever the current manifest names. *)
RollbackInspect(o) ==
  LET cur == fs[Current] IN
  /\ Issue(o)
  /\ cur # None /\ cur.man # None /\ cur.man.prev # None
  /\ job' = [job EXCEPT ![o] =
       [Idle EXCEPT !.pc = "validate", !.kind = "rollback", !.target = cur.man.prev]]
  /\ UNCHANGED <<fs, clock, historyVars>>

(* A rollback that trusts the directory it is pointed at. *)
MatchesRecord_Trusting(d) == TRUE

(* The hash gate of rollback: the target is what the promotion retained. *)
MatchesRecord(d) ==
  LET cur == fs[Current] IN
  cur # None /\ cur.man # None /\ cur.man.prevHash # None
    => cur.man.prevHash = d.content

RollbackValidate(o) ==
  LET d == fs[job[o].target] IN
  /\ job[o].pc = "validate" /\ job[o].kind = "rollback"
  /\ ValidatesForRollback(d)
  /\ MatchesRecord(d)
  /\ Goto(o, "observe")
  /\ UNCHANGED <<fs, clock, commands, historyVars>>
-----------------------------------------------------------------------------
(* The swap both commands share *)

(* Where the displaced index goes: a name with one-second resolution. *)
AsidePath(kind) == IF kind = "promote" THEN Previous(clock) ELSE Rolled(clock)

(* current_dir.exists(), its hashes, and the name it will be moved to. *)
Observe(o) ==
  LET j == job[o] IN
  /\ j.pc = "observe"
  /\ job' = [job EXCEPT ![o] =
       IF Present(Current)
       THEN [j EXCEPT !.pc = "displace", !.aside = AsidePath(j.kind),
                      !.hash = fs[Current].content]
       ELSE [j EXCEPT !.pc = "swap"]]
  /\ UNCHANGED <<fs, clock, commands, historyVars>>

(* First rename: faiss_index -> faiss_previous/... or faiss_rolled/... *)
Displace(o) ==
  LET j == job[o] IN
  /\ j.pc = "displace"
  /\ CanRename(Current, j.aside)
  /\ fs' = Moved(Current, j.aside, fs[Current])
  /\ Goto(o, "swap")
  /\ UNCHANGED <<clock, commands, historyVars>>

(* What the command itself moved out of faiss_index. *)
MovedAside(j) == IF j.aside # None /\ Present(j.aside) THEN fs[j.aside].content ELSE None

(* Second rename: target -> faiss_index. *)
SwapIn(o) ==
  LET j == job[o]
      d == fs[j.target]
  IN
  /\ j.pc = "swap"
  /\ CanRename(j.target, Current)
  /\ fs' = Moved(j.target, Current,
                 IF j.kind = "promote" THEN [d EXCEPT !.displaced = MovedAside(j)]
                 ELSE d)
  /\ BecomesCurrent(d.content)
  /\ Goto(o, "read")
  /\ UNCHANGED <<clock, commands>>

(* A swap without the undo: the exception goes straight to the caller. *)
SwapFails_NoUndo(o) ==
  /\ job[o].pc = "swap"
  /\ Finish(o)
  /\ UNCHANGED <<fs, clock, commands, historyVars>>

(* The second rename fails with the process alive. *)
SwapFails(o) ==
  /\ job[o].pc = "swap"
  /\ IF job[o].aside # None THEN Goto(o, "restore") ELSE Finish(o)
  /\ UNCHANGED <<fs, clock, commands, historyVars>>

(* _swap_in's undo puts the displaced index back ... *)
Restore(o) ==
  LET j == job[o] IN
  /\ j.pc = "restore"
  /\ CanRename(j.aside, Current)
  /\ fs' = Moved(j.aside, Current, fs[j.aside])
  /\ BecomesCurrent(fs[j.aside].content)
  /\ Finish(o)
  /\ UNCHANGED <<clock, commands>>

(* ... or fails too: "NO current index", to be recovered by hand. *)
RestoreFails(o) ==
  /\ job[o].pc = "restore"
  /\ Finish(o)
  /\ wreck' = Wreck(job[o])
  /\ UNCHANGED <<fs, clock, commands, owed, last>>
-----------------------------------------------------------------------------
(* The manifest rewrites that follow the swap *)

(* The manifest a rollback writes into an index that never had one. *)
LegacyRecord(c) ==
  [build |-> None, clean |-> TRUE, publicOnly |-> FALSE, hash |-> c,
   label |-> "ROLLED_BACK", prev |-> None, prevHash |-> None, check |-> None]

ReadManifest(o) ==
  LET cur == fs[Current] IN
  /\ job[o].pc = "read"
  /\ job[o].kind = "promote" => cur # None /\ cur.man # None
  /\ job' = [job EXCEPT ![o].pc = "write",
                        ![o].man = IF cur # None /\ cur.man # None THEN cur.man
                                   ELSE LegacyRecord(CurrentContent)]
  /\ UNCHANGED <<fs, clock, commands, historyVars>>

(* A promotion that records the directory it promoted as its predecessor. *)
Updated_Source(j) ==
  IF j.kind = "promote"
  THEN [j.man EXCEPT !.label = "PROMOTED", !.prev = j.target, !.prevHash = j.hash]
  ELSE [j.man EXCEPT !.label = "ROLLED_BACK"]

(* What the rewrite records: a promotion points at what it moved aside, a  *)
(* rollback leaves the target's own record of its predecessor alone.       *)
Updated(j) ==
  IF j.kind = "promote"
  THEN [j.man EXCEPT !.label = "PROMOTED", !.prev = j.aside, !.prevHash = j.hash]
  ELSE [j.man EXCEPT !.label = "ROLLED_BACK"]

(* write_manifest (mkdir, then a file that is replaced atomically).  The   *)
(* directory is whatever is at faiss_index by then, and a new one without  *)
(* an index if a second command has just moved it away.                    *)
WithManifest(m) ==
  [fs EXCEPT ![Current] =
     IF Present(Current) THEN [@ EXCEPT !.man = m]
     ELSE [content |-> None, man |-> m, rejected |-> FALSE, displaced |-> None]]

(* A promotion goes on to record its check. *)
WriteManifest(o) ==
  /\ job[o].pc = "write"
  /\ fs' = WithManifest(Updated(job[o]))
  /\ IF job[o].kind = "promote" THEN Goto(o, "reread") ELSE Finish(o)
  /\ UNCHANGED <<clock, commands, historyVars>>

RereadManifest(o) ==
  /\ job[o].pc = "reread"
  /\ Present(Current) /\ fs[Current].man # None
  /\ job' = [job EXCEPT ![o].pc = "record", ![o].man = fs[Current].man]
  /\ UNCHANGED <<fs, clock, commands, historyVars>>

RecordCheck(o) ==
  /\ job[o].pc = "record"
  /\ fs' = WithManifest([job[o].man EXCEPT !.check = job[o].check])
  /\ Finish(o)
  /\ UNCHANGED <<clock, commands, historyVars>>
-----------------------------------------------------------------------------
(* Failures, time and the operator *)

(* Any other step raises (a refused check, a full disk, a lost race): the  *)
(* command reports it and ends.                                            *)
Fail(o) ==
  /\ job[o].pc \notin {"idle", "swap", "restore"}
  /\ Finish(o)
  /\ UNCHANGED <<fs, clock, commands, historyVars>>

(* write_manifest fails or dies after it has made the directory. *)
WriteBreaks(o) ==
  /\ job[o].pc \in {"write", "record"}
  /\ ~Present(Current)
  /\ fs' = WithManifest(None)
  /\ Finish(o)
  /\ UNCHANGED <<clock, commands, historyVars>>

(* SIGKILL or power loss between any two steps. *)
Crash(o) ==
  /\ job[o].pc # "idle"
  /\ Finish(o)
  /\ wreck' = (IF job[o].pc \in {"swap", "restore"} THEN Wreck(job[o]) ELSE wreck)
  /\ UNCHANGED <<fs, clock, commands, owed, last>>

Tick ==
  /\ clock < MaxTime
  /\ clock' = clock + 1
  /\ UNCHANGED <<fs, job, commands, historyVars>>

(* The documented recovery: mv the displaced directory back to undo, or    *)
(* the candidate (the rollback target) to finish.                          *)
RecoverByHand(p) ==
  /\ Quiescent
  /\ p \in wreck
  /\ Present(p) /\ ~Present(Current)
  /\ fs' = Moved(p, Current, IF p \in Candidates THEN [fs[p] EXCEPT !.displaced = last]
                             ELSE fs[p])
  /\ BecomesCurrent(fs[p].content)
  /\ UNCHANGED <<job, clock, commands>>

(* A retained directory is damaged from outside while no command runs:     *)
(* other artifacts under the same manifest.                                *)
Damage(p, x) ==
  /\ Quiescent
  /\ p \in Retained /\ Present(p)
  /\ fs[p].content \notin Corrupt \cup {None}
  /\ fs' = [fs EXCEPT ![p].content = x]
  /\ owed' = owed \ {fs[p].content}
  /\ UNCHANGED <<job, clock, commands, last, wreck>>
-----------------------------------------------------------------------------
Next ==
  \/ \E o \in Operators :
       \/ \E src \in Paths : PromoteInspect(o, src)
       \/ PromoteStage(o) \/ PromoteValidate(o)
       \/ RollbackInspect(o) \/ RollbackValidate(o)
       \/ Observe(o) \/ Displace(o)
       \/ SwapIn(o) \/ SwapFails(o) \/ Restore(o) \/ RestoreFails(o)
       \/ ReadManifest(o) \/ WriteManifest(o)
       \/ RereadManifest(o) \/ RecordCheck(o)
       \/ Fail(o) \/ WriteBreaks(o) \/ Crash(o)
  \/ \E p \in Paths : RecoverByHand(p) \/ \E x \in Corrupt : Damage(p, x)
  \/ Tick

Spec == Init /\ [][Next]_vars
-----------------------------------------------------------------------------
(* The lifecycle implements IndexStore: a store with at most one current   *)
(* index and a shelf of retained ones.                                     *)
RetainedContent == {fs[p].content : p \in {q \in Retained : Present(q)}} \ {None}

Store == INSTANCE IndexStore WITH current <- CurrentContent, retained <- RetainedContent
-----------------------------------------------------------------------------
(* Properties *)

(* The values the variables range over. *)
TypeOK ==
  /\ fs \in [Paths -> Dirs \cup {None}]
  /\ job \in [Operators -> Jobs]
  /\ clock \in Times
  /\ commands \in [issued : 0..MaxCommands, alone : BOOLEAN]
  /\ owed \subseteq Contents
  /\ last \in Contents \cup {None}
  /\ wreck \subseteq Paths

(* No index that ever served is destroyed: whatever was in faiss_index is  *)
(* still there or under faiss_previous or faiss_rolled, through crashes,   *)
(* failed undos and commands that race for the same names.                 *)
NoIndexLost ==
  \A c \in owed : \E p \in Retained \cup {Current} :
    Present(p) /\ fs[p].content = c

(* "An ordinary failure of the second rename is undone", and a crash in    *)
(* the window leaves "the old index intact under previous_root and the     *)
(* candidate intact where it was": whenever commands that had the volume   *)
(* to themselves leave no faiss_index, every directory the operator is     *)
(* told to choose from is still there.                                     *)
MissingCurrentIsRecoverable ==
  commands.alone /\ Quiescent /\ last # None /\ ~Present(Current)
    => wreck # {} /\ \A p \in wreck : Present(p)

(* The rollback that the CLI offers is an undo, as long as commands do not *)
(* overlap: when it would accept the directory that faiss_index names,     *)
(* that directory holds what faiss_index displaced.                        *)
OfferedRollbackIsUndo ==
  LET cur == fs[Current] IN
  commands.alone /\ Quiescent /\ cur # None /\ cur.man # None /\ cur.man.prev # None =>
    LET d == fs[cur.man.prev] IN
    ValidatesForRollback(d) /\ MatchesRecord(d) => d.content = cur.displaced

(* Whatever a promotion put in place would pass the start's verification,  *)
(* as long as commands do not overlap: also when the command died before   *)
(* it rewrote the manifest (and unless it was damaged on disk and moved    *)
(* back by hand, which validates nothing).                                 *)
PromotedIsStartable ==
  LET cur == fs[Current] IN
  commands.alone /\ cur # None /\ cur.man # None /\ cur.man.label # "ROLLED_BACK"
    /\ cur.content \notin Corrupt
    => Validates(cur, TRUE)

(* Every step of every command, crash and recovery is a step of IndexStore. *)
ImplementsStore == Store!Spec

(* lifecycle.py:183: between the swap and the manifest rewrite, "a crash   *)
(* there leaves a promoted directory still labelled CANDIDATE".            *)
CutShortIsCandidate ==
  \A o \in Operators :
    job[o].kind = "promote" /\ job[o].pc \in {"read", "write"}
      => fs[Current].man.label = "CANDIDATE"

=============================================================================
