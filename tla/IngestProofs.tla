---------------------------- MODULE IngestProofs ----------------------------
(***************************************************************************)
(* Proofs about Ingest, for any repositories, files, commits, pulls and    *)
(* texts.  The first half is DocDiscovery.  Its inductive invariant says   *)
(* three things of a pass in the middle of a repository: HEAD is never     *)
(* ahead of a file nor behind the revision that was read, so whatever the  *)
(* pass reads is no older than that revision (`Since`); the resolver holds *)
(* what some commit since then says; and as long as nobody pulls, that     *)
(* commit is HEAD (`Quiet`).  The second half, from FitInv on, is the      *)
(* chunker: what a loop may hold of a section (`Pieces`), the stack of     *)
(* headings (`StackInv`), and for the text that nothing of it is lost: the *)
(* ink of the chunks and of what is still to be cut is always that of the  *)
(* sections so far (`TextKept`), every heading so far heads a chunk or     *)
(* will (`HeadsCovered`), and what words are cut from is a part of its     *)
(* section (`WholeInv`).                                                   *)
(***************************************************************************)
EXTENDS Ingest, SubsequenceTheorems, SequenceTheorems, FiniteSetTheorems, TLAPS

Scanning == {"inventory", "manifest", "policy", "walk"}
Known == {"manifest", "policy", "walk"}

\* Files are ahead of HEAD, HEAD is ahead of the revision.
Ordered ==
    /\ \A r \in Repos : \A f \in Files : head[r] <= tree[r][f]
    /\ pc \in Scanning => rev <= head[repo]

\* The resolver holds what commits since the recorded revision say.
Since ==
    /\ pc \in Known =>
           \E i \in Ages(repo) : /\ rev <= i /\ inventory = history[repo][i].inventory
                                 /\ inventory # Malformed
    /\ pc \in {"policy", "walk"} =>
           \E i \in Ages(repo) : /\ rev <= i /\ withheld = history[repo][i].manifest
                                 /\ withheld # Malformed
    /\ pc = "walk" =>
           \E i \in Ages(repo) : /\ rev <= i /\ input = history[repo][i].policy
                                 /\ input # Malformed

\* Nobody pulls: all that was read is HEAD's.
Quiet ==
    pc \in Scanning /\ repo \notin overlapped =>
        /\ \A f \in Files : tree[repo][f] = head[repo]
        /\ rev \in {0, head[repo]}
        /\ pc \in Known => inventory = history[repo][head[repo]].inventory
        /\ pc \in {"policy", "walk"} => withheld = history[repo][head[repo]].manifest
        /\ pc = "walk" => input = history[repo][head[repo]].policy

IInv == TypeOK /\ Ordered /\ Since /\ Quiet /\ OneCommit /\ PublicSinceRevision
-----------------------------------------------------------------------------
(* Reading a checkout *)

LEMMA RangeOfAppend ==
    ASSUME NEW S, NEW s \in Seq(S), NEW x \in S
    PROVE  Range(Append(s, x)) = Range(s) \cup {x}
  <1> DEFINE longer == Append(s, x)
  <1>1. /\ Len(s) \in Nat /\ DOMAIN s = 1 .. Len(s) /\ DOMAIN longer = 1 .. Len(s) + 1
        /\ \A i \in 1 .. Len(s) : longer[i] = s[i]
        /\ longer[Len(s) + 1] = x
    OBVIOUS
  <1> HIDE DEF longer
  <1>2. Len(s) + 1 \in 1 .. Len(s) + 1 /\ 1 .. Len(s) + 1 = (1 .. Len(s)) \cup {Len(s) + 1}
    BY <1>1
  <1>3. Range(longer) = Range(s) \cup {x}
    BY <1>1, <1>2 DEF Range
  <1> QED
    BY <1>3 DEF longer

LEMMA CommitsOf ==
    ASSUME TypeOK, NEW r \in Repos, NEW i \in Ages(r)
    PROVE  history[r][i] \in Commit
  BY DiscoveryAssumption DEF TypeOK, Ages

\* A file of the current checkout is that of a commit since the revision.
LEMMA ReadsSince ==
    ASSUME TypeOK, Ordered, pc \in Scanning, NEW f \in Files
    PROVE  /\ repo \in Repos
           /\ tree[repo][f] \in Ages(repo)
           /\ rev <= tree[repo][f]
           /\ OnDisk(f) = Content(history[repo][tree[repo][f]], f)
  <1>1. repo \in Repos
    BY DEF TypeOK, Scanning
  <1>2. tree[repo][f] \in Ages(repo) /\ tree[repo][f] \in Nat /\ head[repo] \in Nat /\ rev \in Nat
    BY <1>1 DEF TypeOK
  <1>3. rev <= head[repo] /\ head[repo] <= tree[repo][f]
    BY <1>1 DEF Ordered
  <1> QED
    BY <1>1, <1>2, <1>3 DEF OnDisk

LEMMA PolicyContent ==
    ASSUME NEW c
    PROVE  /\ Content(c, "inventory") = c.inventory
           /\ Content(c, "manifest") = c.manifest
           /\ Content(c, "policy") = c.policy
  BY DEF Content, PolicyFiles

LEMMA PathContent ==
    ASSUME NEW c, NEW p \in Paths
    PROVE  Content(c, p) = c.text[p]
  BY DiscoveryAssumption DEF Content

\* What the resolver can answer, and when it answers PUBLIC.
LEMMA ResolveSays ==
    ASSUME NEW r \in Repos, NEW p \in Paths, NEW inv, NEW held, NEW dir,
           NEW ci \in Commit, NEW cm \in Commit, NEW cp \in Commit,
           inv = ci.inventory, inv # Malformed,
           held = cm.manifest, held # Malformed,
           dir = cp.policy, dir # Malformed
    PROVE  /\ Resolve(r, p, inv, held, dir) \in Visibilities
           /\ Resolve(r, p, inv, held, dir) = "PUBLIC" <=>
                  r = DocsRepo /\ SaysPublic(ci, p) /\ NotWithheld(cm, p) /\ InPublicBuild(cp, p)
  <1>1. inv \in [Paths -> Visibilities \cup {"unlisted"}]
    BY DEF Commit
  <1>2. held # Missing => held \in [Paths -> {"kept", "INTERNAL", "REVIEW_REQUIRED"}]
    BY DEF Commit
  <1>3. SaysPublic(ci, p) <=> inv[p] = "PUBLIC"
    BY DEF SaysPublic
  <1>4. NotWithheld(cm, p) <=> held # Missing /\ held[p] = "kept"
    BY DEF NotWithheld
  <1>5. InPublicBuild(cp, p) <=> dir # Missing /\ Under(dir, DirOf[p])
    BY DEF InPublicBuild
  <1> HIDE DEF Under
  <1>6. inv[p] \in Visibilities \cup {"unlisted"}
    BY <1>1
  <1>7. held # Missing => held[p] \in {"kept", "INTERNAL", "REVIEW_REQUIRED"}
    BY <1>2
  <1> QED
    BY <1>3, <1>4, <1>5, <1>6, <1>7 DEF Resolve, Visibilities
-----------------------------------------------------------------------------
(* One step of each action *)

LEMMA DiscoveryInit == Init => IInv
  <1> SUFFICES ASSUME Init PROVE IInv
    OBVIOUS
  <1>0. \A r \in Repos : 1 \in Ages(r)
    <2> TAKE r \in Repos
    <2>1. Len(history[r]) \in Nat /\ Len(history[r]) >= 1
      BY DiscoveryAssumption DEF Init
    <2> QED
      BY <2>1 DEF Ages
  <1>1. TypeOK
    BY <1>0 DEF Init, TypeOK
  <1>2. Ordered /\ Since /\ Quiet
    BY DEF Init, Ordered, Since, Quiet, Scanning, Known
  <1>3. OneCommit /\ PublicSinceRevision
    BY DEF Init, Range, OneCommit, PublicSinceRevision
  <1> QED
    BY <1>1, <1>2, <1>3 DEF IInv

\* What was recorded stays true: commits do not change, and a repository
\* that was overlapped by a pull remains so.
LEMMA RecordedStays ==
    ASSUME OneCommit, PublicSinceRevision, UNCHANGED <<history, docs>>, overlapped \subseteq overlapped'
    PROVE  OneCommit' /\ PublicSinceRevision'
  <1>1. OneCommit'
    BY DEF OneCommit, Range, Ages, Published, SaysPublic, NotWithheld, InPublicBuild
  <1>2. PublicSinceRevision'
    <2>1. Range(docs)' = Range(docs)
      BY DEF Range
    <2> QED
      BY <2>1 DEF PublicSinceRevision, Ages, SaysPublic, NotWithheld, InPublicBuild
  <1> QED
    BY <1>1, <1>2

\* The parts of the invariant about a pass between two repositories.
LEMMA NotScanning ==
    ASSUME pc' \notin Scanning
    PROVE  Since' /\ Quiet'
  BY DEF Since, Quiet, Scanning, Known

\* The next repository of the list.
LEMMA NextOfList ==
    ASSUME TypeOK, turn <= Len(Configured)
    PROVE  Configured[turn] \in Repos /\ turn + 1 \in 1 .. Len(Configured) + 1
  BY DiscoveryAssumption DEF TypeOK

LEMMA SkipRepoStep ==
    ASSUME IInv, SkipRepo
    PROVE  IInv'
  <1>1. TypeOK'
    <2>1. turn' \in 1 .. Len(Configured) + 1 /\ missing' \in Seq(Repos)
      BY NextOfList DEF IInv, TypeOK, SkipRepo
    <2> QED
      BY <2>1 DEF IInv, TypeOK, SkipRepo, checkout, resolver, Ages
  <1>2. pc' \notin Scanning
    BY DEF SkipRepo, Scanning
  <1>3. Ordered'
    BY <1>2 DEF IInv, Ordered, SkipRepo, checkout
  <1> QED
    BY <1>1, <1>2, <1>3, NotScanning, RecordedStays DEF IInv, SkipRepo, checkout

LEMMA EnterRepoStep ==
    ASSUME IInv, EnterRepo
    PROVE  IInv'
  <1> DEFINE r == Configured[turn]
  <1>0. r \in Repos /\ turn' \in 1 .. Len(Configured) + 1 /\ repo' = r
    BY NextOfList DEF IInv, EnterRepo
  <1> HIDE DEF r
  <1>1. head[r] \in Nat /\ rev' \in {head[r], 0}
    BY <1>0 DEF IInv, TypeOK, EnterRepo, GitRevision
  <1>2. TypeOK'
    <2>1. rev' \in Nat /\ repo' \in Repos /\ overlapped' \subseteq Repos
      BY <1>0, <1>1 DEF IInv, TypeOK, EnterRepo
    <2>2. discovered' \in Seq([repo : Repos, commit : Nat])
      BY <1>0, <1>1 DEF IInv, TypeOK, EnterRepo
    <2> QED
      BY <1>0, <2>1, <2>2 DEF IInv, TypeOK, EnterRepo, checkout, resolver, Ages
  <1>3. Ordered'
    BY <1>0, <1>1 DEF IInv, Ordered, EnterRepo, checkout
  <1>4. Since'
    BY DEF Since, EnterRepo, Known
  <1>5. Quiet'
    <2> SUFFICES ASSUME repo' \notin overlapped'
                 PROVE  \A f \in Files : tree[r][f] = head[r]
      BY <1>0, <1>1 DEF Quiet, EnterRepo, Known, checkout
    <2>1. ~ Pulling(r)
      BY <1>0 DEF EnterRepo
    <2> TAKE f \in Files
    <2>2. head[r] \in Nat /\ tree[r][f] \in Nat
      BY <1>0 DEF IInv, TypeOK
    <2> QED
      BY <1>0, <2>1, <2>2 DEF IInv, Ordered, Pulling
  <1>6. overlapped \subseteq overlapped' /\ UNCHANGED <<history, docs>>
    BY DEF EnterRepo, checkout
  <1> QED
    BY <1>2, <1>3, <1>4, <1>5, <1>6, RecordedStays DEF IInv

LEMMA ParseFailsStep ==
    ASSUME IInv, ParseFails
    PROVE  IInv'
  <1>1. TypeOK'
    BY DEF IInv, TypeOK, ParseFails, checkout, resolver, results, Ages
  <1>2. pc' \notin Scanning
    BY DEF ParseFails, Scanning
  <1>3. Ordered'
    BY <1>2 DEF IInv, Ordered, ParseFails, checkout
  <1> QED
    BY <1>1, <1>2, <1>3, NotScanning, RecordedStays DEF IInv, ParseFails, checkout, results

LEMMA ReadInventoryStep ==
    ASSUME IInv, ReadInventory
    PROVE  IInv'
  <1>1. TypeOK'
    BY DEF IInv, TypeOK, ReadInventory, checkout, results, Ages
  <1>2. Ordered'
    BY DEF IInv, Ordered, Scanning, ReadInventory, checkout
  <1>3. /\ repo \in Repos /\ tree[repo]["inventory"] \in Ages(repo)
        /\ rev <= tree[repo]["inventory"]
        /\ inventory' = history[repo][tree[repo]["inventory"]].inventory
        /\ inventory' # Malformed
    BY ReadsSince, PolicyContent DEF IInv, ReadInventory, Scanning, Files, PolicyFiles
  <1>4. Since'
    BY <1>3 DEF Since, ReadInventory, checkout, Ages, Known
  <1>5. Quiet'
    <2> SUFFICES ASSUME repo \notin overlapped
                 PROVE  Quiet'
      BY DEF Quiet, ReadInventory
    <2>1. (\A f \in Files : tree[repo][f] = head[repo]) /\ rev \in {0, head[repo]}
      BY DEF IInv, Quiet, ReadInventory, Scanning
    <2> QED
      BY <1>3, <2>1 DEF Quiet, ReadInventory, checkout, Files, PolicyFiles
  <1> QED
    BY <1>1, <1>2, <1>4, <1>5, RecordedStays DEF IInv, ReadInventory, checkout, results

LEMMA ReadManifestStep ==
    ASSUME IInv, ReadManifest
    PROVE  IInv'
  <1>1. TypeOK'
    BY DEF IInv, TypeOK, ReadManifest, checkout, results, Ages
  <1>2. Ordered'
    BY DEF IInv, Ordered, Scanning, ReadManifest, checkout
  <1>3. /\ repo \in Repos /\ tree[repo]["manifest"] \in Ages(repo)
        /\ rev <= tree[repo]["manifest"]
        /\ withheld' = history[repo][tree[repo]["manifest"]].manifest
        /\ withheld' # Malformed
    BY ReadsSince, PolicyContent DEF IInv, ReadManifest, Scanning, Files, PolicyFiles
  <1>4. Since'
    BY <1>3 DEF IInv, Since, ReadManifest, checkout, Ages, Known
  <1>5. Quiet'
    <2> SUFFICES ASSUME repo \notin overlapped
                 PROVE  Quiet'
      BY DEF Quiet, ReadManifest
    <2>1. /\ \A f \in Files : tree[repo][f] = head[repo]
          /\ rev \in {0, head[repo]}
          /\ inventory = history[repo][head[repo]].inventory
      BY DEF IInv, Quiet, ReadManifest, Scanning, Known
    <2> QED
      BY <1>3, <2>1 DEF Quiet, ReadManifest, checkout, Files, PolicyFiles
  <1> QED
    BY <1>1, <1>2, <1>4, <1>5, RecordedStays DEF IInv, ReadManifest, checkout, results

LEMMA ReadPolicyStep ==
    ASSUME IInv, ReadPolicy
    PROVE  IInv'
  <1>1. TypeOK'
    BY DiscoveryAssumption DEF IInv, TypeOK, ReadPolicy, checkout, results, Ages
  <1>2. Ordered'
    BY DEF IInv, Ordered, Scanning, ReadPolicy, checkout
  <1>3. /\ repo \in Repos /\ tree[repo]["policy"] \in Ages(repo)
        /\ rev <= tree[repo]["policy"]
        /\ input' = history[repo][tree[repo]["policy"]].policy
        /\ input' # Malformed
    BY ReadsSince, PolicyContent DEF IInv, ReadPolicy, Scanning, Files, PolicyFiles
  <1>4. Since'
    BY <1>3 DEF IInv, Since, ReadPolicy, checkout, Ages, Known
  <1>5. Quiet'
    <2> SUFFICES ASSUME repo \notin overlapped
                 PROVE  Quiet'
      BY DEF Quiet, ReadPolicy
    <2>1. /\ \A f \in Files : tree[repo][f] = head[repo]
          /\ rev \in {0, head[repo]}
          /\ inventory = history[repo][head[repo]].inventory
          /\ withheld = history[repo][head[repo]].manifest
      BY DEF IInv, Quiet, ReadPolicy, Scanning, Known
    <2> QED
      BY <1>3, <2>1 DEF Quiet, ReadPolicy, checkout, Files, PolicyFiles
  <1> QED
    BY <1>1, <1>2, <1>4, <1>5, RecordedStays DEF IInv, ReadPolicy, checkout, results

\* Steps of the walk that record nothing leave checkout and resolver alone.
LEMMA WalkStays ==
    ASSUME Ordered, Since, Quiet, UNCHANGED <<checkout, pc, repo, rev, resolver, overlapped>>
    PROVE  Ordered' /\ Since' /\ Quiet'
  <1>1. Ordered' /\ Since'
    BY DEF Ordered, Since, checkout, resolver, Ages
  <1>2. Quiet'
    BY DEF Quiet, checkout, resolver
  <1> QED
    BY <1>1, <1>2

LEMMA ListDirStep ==
    ASSUME IInv, NEW d \in Dirs, ListDir(d)
    PROVE  IInv'
  <1>1. TypeOK'
    <2>1. dirs' \subseteq Dirs /\ todo' \subseteq Paths
      BY DEF IInv, TypeOK, ListDir, Subdirs
    <2> QED
      BY <2>1 DEF IInv, TypeOK, ListDir, checkout, resolver, results, Ages
  <1> QED
    BY <1>1, WalkStays, RecordedStays DEF IInv, ListDir, checkout, results

LEMMA ReadFailsStep ==
    ASSUME IInv, NEW p \in Paths, ReadFails(p)
    PROVE  IInv'
  <1>1. TypeOK'
    <2>1. failures' \in Seq([repo : Repos, path : Paths])
      BY DEF IInv, TypeOK, ReadFails
    <2> QED
      BY <2>1 DEF IInv, TypeOK, ReadFails, checkout, resolver, Ages
  <1> QED
    BY <1>1, WalkStays, RecordedStays DEF IInv, ReadFails, checkout

LEMMA LeaveRepoStep ==
    ASSUME IInv, LeaveRepo
    PROVE  IInv'
  <1>1. TypeOK'
    BY DEF IInv, TypeOK, LeaveRepo, checkout, results, Ages
  <1>2. pc' \notin Scanning
    BY DEF LeaveRepo, Scanning
  <1>3. Ordered'
    BY <1>2 DEF IInv, Ordered, LeaveRepo, checkout
  <1> QED
    BY <1>1, <1>2, <1>3, NotScanning, RecordedStays DEF IInv, LeaveRepo, checkout, results

LEMMA FinishStep ==
    ASSUME IInv, Finish
    PROVE  IInv'
  <1>1. TypeOK'
    BY DEF IInv, TypeOK, Finish, checkout, resolver, results, Ages
  <1>2. pc' \notin Scanning
    BY DEF Finish, Scanning
  <1>3. Ordered'
    BY <1>2 DEF IInv, Ordered, Finish, checkout
  <1> QED
    BY <1>1, <1>2, <1>3, NotScanning, RecordedStays DEF IInv, Finish, checkout, results

\* A document is recorded with the text of its file and the class the
\* resolver gives it, both from commits since the recorded revision.
LEMMA ReadDocStep ==
    ASSUME IInv, NEW p \in Paths, ReadDoc(p)
    PROVE  IInv'
  <1> DEFINE visibility == Settled(Resolve(repo, p, inventory, withheld, input))
             d == [repo |-> repo, path |-> p, revision |-> rev,
                   visibility |-> visibility, text |-> OnDisk(p)]
             i == tree[repo][p]
  <1>1. /\ TypeOK /\ Ordered /\ Since /\ Quiet /\ OneCommit /\ PublicSinceRevision
        /\ pc = "walk" /\ repo \in Repos
    BY DEF IInv, TypeOK, ReadDoc
  <1>2. /\ i \in Ages(repo) /\ rev <= i /\ OnDisk(p) = history[repo][i].text[p]
        /\ rev \in Nat
    BY <1>1, ReadsSince, PathContent DEF Scanning, Files, TypeOK
  <1>3. history[repo][i].text[p] \in Texts \cup {"absent", "empty"}
    BY <1>1, <1>2, CommitsOf DEF Commit
  <1>4. PICK j \in Ages(repo) : /\ rev <= j /\ inventory = history[repo][j].inventory
                                /\ inventory # Malformed
    BY <1>1 DEF Since, Known
  <1>5. PICK k \in Ages(repo) : /\ rev <= k /\ withheld = history[repo][k].manifest
                                /\ withheld # Malformed
    BY <1>1 DEF Since
  <1>6. PICK n \in Ages(repo) : /\ rev <= n /\ input = history[repo][n].policy
                                /\ input # Malformed
    BY <1>1 DEF Since
  <1>7. /\ visibility \in Visibilities
        /\ visibility = "PUBLIC" <=> /\ repo = DocsRepo /\ SaysPublic(history[repo][j], p)
                                     /\ NotWithheld(history[repo][k], p)
                                     /\ InPublicBuild(history[repo][n], p)
    BY <1>1, <1>4, <1>5, <1>6, CommitsOf, ResolveSays DEF Settled
  <1> HIDE DEF visibility
  <1>8. /\ UNCHANGED <<checkout, internal, pc, turn, repo, rev, resolver, dirs, discovered, failures, missing, overlapped>>
        /\ todo' = todo \ {p}
        /\ \/ docs' = Append(docs, d) /\ UNCHANGED skipped /\ OnDisk(p) \in Texts
           \/ /\ UNCHANGED docs
              /\ skipped' = Append(skipped, [repo |-> repo, path |-> p, reason |-> ReasonToSkip(p, visibility)])
              /\ ReasonToSkip(p, visibility) \in {"empty", "review-required", "internal-excluded"}
    BY <1>2, <1>3 DEF ReadDoc, ReasonToSkip, visibility
  <1>9. TypeOK'
    <2>1. d \in Document \/ UNCHANGED docs
      BY <1>1, <1>2, <1>7, <1>8 DEF Document
    <2> DEFINE x == [repo |-> repo, path |-> p, reason |-> ReasonToSkip(p, visibility)]
               Skip == [repo : Repos, path : Paths, reason : {"empty", "review-required", "internal-excluded"}]
    <2>2. x \in Skip \/ UNCHANGED skipped
      BY <1>1, <1>8
    <2>4. docs \in Seq(Document) /\ skipped \in Seq(Skip)
      BY <1>1 DEF TypeOK
    <2>5. /\ docs' = Append(docs, d) \/ UNCHANGED docs
          /\ skipped' = Append(skipped, x) \/ UNCHANGED skipped
      BY <1>8
    <2>6. docs' \in Seq(Document) /\ skipped' \in Seq(Skip)
      <3> HIDE DEF d, x, Skip
      <3>1. ASSUME NEW S, NEW s \in Seq(S), NEW e \in S PROVE Append(s, e) \in Seq(S)
        OBVIOUS
      <3>2. docs' \in Seq(Document)
        BY <2>1, <2>4, <2>5, <3>1, Zenon
      <3>3. skipped' \in Seq(Skip)
        BY <2>2, <2>4, <2>5, <3>1, Zenon
      <3> QED
        BY <3>2, <3>3
    <2> QED
      BY <1>1, <1>8, <2>6 DEF TypeOK, checkout, resolver, Ages
  <1>10. Ordered' /\ Since' /\ Quiet'
    BY <1>1, <1>8, WalkStays
  <1>11. CASE UNCHANGED docs
    BY <1>1, <1>8, <1>9, <1>10, <1>11, RecordedStays DEF IInv, checkout
  <1>12. CASE docs' = Append(docs, d) /\ OnDisk(p) \in Texts
    <2>0. Range(docs') = Range(docs) \cup {d}
      <3>1. d \in Document /\ docs \in Seq(Document)
        BY <1>1, <1>2, <1>7, <1>12 DEF Document, TypeOK
      <3> HIDE DEF d
      <3> QED
        BY <1>12, <3>1, RangeOfAppend
    <2>1. OneCommit'
      <3>1. ASSUME d.repo \notin overlapped
            PROVE  /\ d.revision \in {0, i}
                   /\ d.text = history[d.repo][i].text[d.path]
                   /\ d.visibility = "PUBLIC" <=> Published(d.repo, history[d.repo][i], d.path)
        <4>1. /\ i = head[repo] /\ rev \in {0, i}
              /\ inventory = history[repo][i].inventory
              /\ withheld = history[repo][i].manifest
              /\ input = history[repo][i].policy
          BY <1>1, <3>1 DEF Quiet, Scanning, Known, Files
        <4>2. visibility = "PUBLIC" <=> Published(repo, history[repo][i], p)
          BY <1>1, <1>2, <1>4, <1>5, <1>6, <4>1, CommitsOf, ResolveSays DEF Published, visibility, Settled
        <4> QED
          BY <1>2, <4>1, <4>2
      <3> HIDE DEF d
      <3>2. ASSUME NEW e \in Range(docs'), e.repo \notin overlapped
            PROVE  \E h \in Ages(e.repo) :
                       /\ e.revision \in {0, h}
                       /\ e.text = history[e.repo][h].text[e.path]
                       /\ e.visibility = "PUBLIC" <=> Published(e.repo, history[e.repo][h], e.path)
        <4>1. CASE e = d
          BY <1>2, <3>1, <3>2, <4>1 DEF d
        <4>2. CASE e \in Range(docs)
          BY <1>1, <3>2, <4>2 DEF OneCommit
        <4> QED
          BY <2>0, <3>2, <4>1, <4>2
      <3> QED
        BY <3>2, <1>8 DEF OneCommit, checkout, Ages, Published, SaysPublic, NotWithheld, InPublicBuild
    <2>2. PublicSinceRevision'
      <3> DEFINE From(e) == {history[e.repo][h] : h \in {g \in Ages(e.repo) : e.revision <= g}}
                 Backed(e) ==
                     /\ \E c \in From(e) : e.text = c.text[e.path]
                     /\ e.visibility = "PUBLIC" =>
                            /\ e.repo = DocsRepo
                            /\ \E c \in From(e) : SaysPublic(c, e.path)
                            /\ \E c \in From(e) : NotWithheld(c, e.path)
                            /\ \E c \in From(e) : InPublicBuild(c, e.path)
      <3>1. \A e \in Range(docs) : Backed(e)
        BY <1>1 DEF PublicSinceRevision
      <3>2. {history[repo][i], history[repo][j], history[repo][k], history[repo][n]} \subseteq From(d)
        BY <1>2, <1>4, <1>5, <1>6
      <3>3. Backed(d)
        BY <1>2, <1>7, <3>2
      <3> HIDE DEF d, Backed
      <3>4. \A e \in Range(docs') : Backed(e)
        BY <2>0, <3>1, <3>3
      <3> QED
        BY <3>4, <1>8 DEF Backed, PublicSinceRevision, checkout, Ages, SaysPublic, NotWithheld, InPublicBuild
    <2> QED
      BY <1>9, <1>10, <2>1, <2>2 DEF IInv
  <1> QED
    BY <1>8, <1>11, <1>12
-----------------------------------------------------------------------------
(* A pull beside the pass *)

LEMMA PullFileStep ==
    ASSUME IInv, NEW r \in Repos, NEW f \in Files, PullFile(r, f)
    PROVE  IInv'
  <1>1. /\ head[r] \in Nat /\ head[r] + 1 \in Ages(r) /\ tree[r][f] = head[r]
        /\ tree' = [tree EXCEPT ![r][f] = head[r] + 1]
    BY DEF IInv, TypeOK, PullFile, Ages
  <1>2. \A s \in Repos : \A g \in Files :
            tree'[s][g] = IF s = r /\ g = f THEN head[r] + 1 ELSE tree[s][g]
    BY <1>1 DEF IInv, TypeOK
  <1>3. TypeOK'
    <2>1. tree' \in [Repos -> [Files -> Nat]]
      BY <1>1 DEF IInv, TypeOK
    <2>2. overlapped' \subseteq Repos
      BY DEF IInv, TypeOK, PullFile, Touch
    <2>3. \A s \in Repos : \A g \in Files : {head[s], tree'[s][g]} \subseteq Ages(s)
      BY <1>1, <1>2 DEF IInv, TypeOK
    <2> QED
      BY <2>1, <2>2, <2>3 DEF IInv, TypeOK, PullFile, resolver, results, Ages
  <1>4. Ordered'
    BY <1>1, <1>2 DEF IInv, TypeOK, Ordered, PullFile
  <1>5. Since'
    BY DEF IInv, Since, PullFile, resolver, Ages
  <1>6. Quiet'
    <2> SUFFICES ASSUME pc \in Scanning, repo \notin overlapped'
                 PROVE  Quiet'
      BY DEF Quiet, PullFile
    <2>1. repo # r /\ repo \notin overlapped /\ repo \in Repos
      BY DEF IInv, TypeOK, Scanning, PullFile, Touch
    <2> QED
      BY <1>2, <2>1 DEF IInv, Quiet, PullFile, resolver
  <1>7. overlapped \subseteq overlapped' /\ UNCHANGED <<history, docs>>
    BY DEF PullFile, Touch, results
  <1> QED
    BY <1>3, <1>4, <1>5, <1>6, <1>7, RecordedStays DEF IInv

LEMMA PullDoneStep ==
    ASSUME IInv, NEW r \in Repos, PullDone(r)
    PROVE  IInv'
  <1>1. /\ head[r] \in Nat /\ head[r] + 1 \in Ages(r)
        /\ head' = [head EXCEPT ![r] = head[r] + 1]
        /\ tree' = [tree EXCEPT ![r] = [f \in Files |-> head[r] + 1]]
    <2>1. head[r] \in Nat /\ head[r] < Len(history[r]) /\ Len(history[r]) \in Nat
      BY DiscoveryAssumption DEF IInv, TypeOK, PullDone
    <2> QED
      BY <2>1 DEF PullDone, Ages
  <1>2. /\ \A s \in Repos : head'[s] = IF s = r THEN head[r] + 1 ELSE head[s]
        /\ \A s \in Repos : \A g \in Files :
               tree'[s][g] = IF s = r THEN head[r] + 1 ELSE tree[s][g]
    BY <1>1 DEF IInv, TypeOK
  <1>3. TypeOK'
    <2>1. tree' \in [Repos -> [Files -> Nat]] /\ head' \in [Repos -> Nat]
      BY <1>1 DEF IInv, TypeOK
    <2>2. overlapped' \subseteq Repos
      BY DEF IInv, TypeOK, PullDone, Touch
    <2>3. \A s \in Repos : \A g \in Files : {head'[s], tree'[s][g]} \subseteq Ages(s)
      BY <1>1, <1>2 DEF IInv, TypeOK
    <2> QED
      BY <2>1, <2>2, <2>3 DEF IInv, TypeOK, PullDone, resolver, results, Ages
  <1>4. Ordered'
    <2>1. \A s \in Repos : \A g \in Files : head'[s] <= tree'[s][g]
      BY <1>1, <1>2 DEF IInv, TypeOK, Ordered
    <2>2. pc \in Scanning => rev <= head'[repo]
      <3> SUFFICES ASSUME pc \in Scanning PROVE rev <= head'[repo]
        OBVIOUS
      <3>1. repo \in Repos /\ rev \in Nat /\ rev <= head[repo] /\ head[repo] \in Nat
        BY DEF IInv, TypeOK, Ordered, Scanning
      <3> QED
        BY <1>2, <3>1
    <2> QED
      BY <2>1, <2>2 DEF Ordered, PullDone
  <1>5. Since'
    BY DEF IInv, Since, PullDone, resolver, Ages
  <1>6. Quiet'
    <2> SUFFICES ASSUME pc \in Scanning, repo \notin overlapped'
                 PROVE  Quiet'
      BY DEF Quiet, PullDone
    <2>1. repo # r /\ repo \notin overlapped /\ repo \in Repos
      BY DEF IInv, TypeOK, Scanning, PullDone, Touch
    <2> QED
      BY <1>2, <2>1 DEF IInv, Quiet, PullDone, resolver
  <1>7. overlapped \subseteq overlapped' /\ UNCHANGED <<history, docs>>
    BY DEF PullDone, Touch, results
  <1> QED
    BY <1>3, <1>4, <1>5, <1>6, <1>7, RecordedStays DEF IInv
-----------------------------------------------------------------------------
LEMMA DiscoveryStep == IInv /\ [DiscoveryNext]_vars => IInv'
  <1> SUFFICES ASSUME IInv, [DiscoveryNext]_vars PROVE IInv'
    OBVIOUS
  <1>1. CASE Scan
    BY <1>1, SkipRepoStep, EnterRepoStep, ParseFailsStep, ReadInventoryStep, ReadManifestStep,
       ReadPolicyStep, ListDirStep, ReadFailsStep, ReadDocStep, LeaveRepoStep, FinishStep DEF Scan
  <1>2. CASE Pull
    BY <1>2, PullFileStep, PullDoneStep DEF Pull
  <1>3. CASE UNCHANGED vars
    <2>1. TypeOK'
      BY <1>3 DEF IInv, TypeOK, vars, checkout, resolver, results, Ages
    <2> QED
      BY <1>3, <2>1, WalkStays, RecordedStays DEF IInv, vars, checkout, results
  <1> QED
    BY <1>1, <1>2, <1>3 DEF DiscoveryNext

LEMMA DiscoveryInvariant == DiscoverySpec => []IInv
  <1> QED
    BY DiscoveryInit, DiscoveryStep, PTL DEF DiscoverySpec

\* Every state of a pass is well-formed; in particular every document is
\* recorded under one of the three visibility classes.
THEOREM DiscoveryTypeCorrect == DiscoverySpec => []TypeOK
  <1>1. IInv => TypeOK
    BY DEF IInv
  <1> QED
    BY <1>1, DiscoveryInvariant, PTL

\* A checkout nobody pulls during the pass is indexed as one commit, PUBLIC
\* being exactly what that commit publishes.
THEOREM IndexedAsOneCommit == DiscoverySpec => []OneCommit
  <1>1. IInv => OneCommit
    BY DEF IInv
  <1> QED
    BY <1>1, DiscoveryInvariant, PTL

\* However pulls overlap the pass, a PUBLIC document was published, file by
\* file, by commits no older than the revision it is recorded under.
THEOREM PublicIsSinceRevision == DiscoverySpec => []PublicSinceRevision
  <1>1. IInv => PublicSinceRevision
    BY DEF IInv
  <1> QED
    BY <1>1, DiscoveryInvariant, PTL
-----------------------------------------------------------------------------
(* Every file once                                                         *)
(*                                                                         *)
(* Until a repository is left, the pass owes a record of each of its       *)
(* documents that os.walk has still to deliver: those of the directory     *)
(* just listed (todo) and those below a directory it has still to list     *)
(* (Ahead).  No directory to list is below another one, so a file is       *)
(* delivered once for each time its repository is entered.                 *)

Expected(r, p) == IF Candidate(r, p) THEN Found(r, p) ELSE 0

Accounted(r) == \A p \in Paths : Times(r, p) = Expected(r, p)

\* What the pass has to deliver of commit c.
Due(r, c, p) == Candidate(r, p) /\ c.text[p] # "absent"

Ahead(e) == \E d \in dirs : Under(d, e)

Frontier ==
    /\ \A a, b \in dirs : Under(a, b) => a = b
    /\ \A d \in dirs : Segments(d) \cap SkipDirs = {}

Walked(r, c) ==
    /\ Frontier
    /\ \A p \in todo : Due(r, c, p) /\ ~Ahead(DirOf[p])

Awaited(p) == pc = "walk" => p \in todo \/ Ahead(DirOf[p])

Owed(r, c) ==
    \A p \in Paths :
        Times(r, p) + (IF Due(r, c, p) /\ Awaited(p) THEN 1 ELSE 0) = Expected(r, p)

AInv ==
    /\ pc = "next" => repo = None
    /\ pc # "walk" => dirs = {} /\ todo = {}
    /\ pc = "walk" /\ repo \notin overlapped => Walked(repo, history[repo][head[repo]])
    /\ pc \in Scanning /\ repo \notin overlapped => Owed(repo, history[repo][head[repo]])
    /\ \A r \in Repos \ (overlapped \cup {repo}) : Accounted(r)
-----------------------------------------------------------------------------
(* Directories *)

\* d is under dir if it starts with the names of dir.
LEMMA UnderMeans ==
    ASSUME NEW dir \in Dirs, NEW d \in Dirs
    PROVE  Under(dir, d) <=> Len(dir) <= Len(d) /\ \A i \in 1 .. Len(dir) : dir[i] = d[i]
  <1>1. dir \in Seq(STRING) /\ d \in Seq(STRING) /\ Len(dir) \in Nat /\ Len(d) \in Nat
    BY DiscoveryAssumption
  <1> DEFINE s == SubSeq(d, 1, Len(dir))
  <1>2. ASSUME Len(dir) <= Len(d)
        PROVE  s \in Seq(STRING) /\ Len(s) = Len(dir) /\ \A i \in 1 .. Len(dir) : s[i] = d[i]
    <2>1. \A i \in 1 .. Len(dir) : d[i] \in STRING
      BY <1>1, <1>2
    <2> QED
      BY <1>1, <2>1, SubSeqProperties
  <1> HIDE DEF s
  <1>3. ASSUME Len(dir) <= Len(d), \A i \in 1 .. Len(dir) : dir[i] = d[i]
        PROVE  s = dir
    BY <1>1, <1>2, <1>3, SeqEqual
  <1> QED
    BY <1>2, <1>3 DEF Under, s

LEMMA UnderOrder ==
    ASSUME NEW a \in Dirs, NEW b \in Dirs, NEW c \in Dirs
    PROVE  /\ Under(a, a)
           /\ Under(a, b) /\ Under(b, c) => Under(a, c)
           /\ Under(a, b) /\ Len(a) = Len(b) => a = b
           /\ Under(a, c) /\ Under(b, c) => Under(a, b) \/ Under(b, a)
  <1>1. Len(a) \in Nat /\ Len(b) \in Nat /\ Len(c) \in Nat /\ a \in Seq(STRING) /\ b \in Seq(STRING)
    BY DiscoveryAssumption
  <1>2. Under(a, b) /\ Len(a) = Len(b) => a = b
    BY <1>1, UnderMeans, SeqEqual
  <1>3. Under(a, a)
    BY <1>1, UnderMeans
  <1>4. Under(a, b) /\ Under(b, c) => Under(a, c)
    BY <1>1, UnderMeans
  <1>5. Under(a, c) /\ Under(b, c) => Under(a, b) \/ Under(b, a)
    BY <1>1, UnderMeans
  <1> QED
    BY <1>2, <1>3, <1>4, <1>5

\* A directory strictly below d is under the one of d's that leads to it.
LEMMA Descend ==
    ASSUME NEW d \in Dirs, NEW e \in Dirs, Under(d, e), d # e
    PROVE  \E s \in Dirs : /\ Under(d, s) /\ Len(s) = Len(d) + 1 /\ Under(s, e)
                           /\ Segments(s) \subseteq Segments(e)
  <1>1. Len(d) \in Nat /\ Len(e) \in Nat /\ e \in Seq(STRING)
    BY DiscoveryAssumption
  <1>2. Len(d) + 1 <= Len(e)
    BY <1>1, UnderOrder DEF Under
  <1> DEFINE s == SubSeq(e, 1, Len(d) + 1)
  <1>3. s \in Dirs
    BY <1>1, <1>2, DiscoveryAssumption
  <1>4. Len(s) = Len(d) + 1 /\ \A i \in 1 .. Len(d) + 1 : s[i] = e[i]
    <2>1. \A i \in 1 .. Len(d) + 1 : e[i] \in STRING
      BY <1>1, <1>2
    <2> QED
      BY <1>1, <2>1, SubSeqProperties
  <1> HIDE DEF s
  <1>5. Under(s, e)
    BY <1>1, <1>2, <1>3, <1>4, UnderMeans
  <1>6. Under(d, s)
    BY <1>1, <1>3, <1>4, UnderMeans
  <1>7. Segments(s) \subseteq Segments(e)
    BY <1>1, <1>2, <1>4 DEF Segments
  <1> QED
    BY <1>3, <1>4, <1>5, <1>6, <1>7

\* The subdirectories that are walked.
LEMMA SubdirsOf ==
    ASSUME NEW d \in Dirs
    PROVE  /\ \A s \in Subdirs(d) : /\ s \in Dirs /\ Under(d, s) /\ Len(s) = Len(d) + 1
                                    /\ Segments(s) \cap SkipDirs \subseteq Segments(d) \cap SkipDirs
           /\ \A s \in Dirs : /\ Under(d, s) /\ Len(s) = Len(d) + 1
                              /\ Segments(s) \cap SkipDirs = {}
                              /\ Segments(d) \cap SkipSegments = {}
                              => s \in Subdirs(d)
  <1>1. ASSUME NEW s \in Dirs, Under(d, s), Len(s) = Len(d) + 1
        PROVE  /\ s[Len(s)] \in Segments(s)
               /\ Segments(s) = Segments(d) \cup {s[Len(s)]}
    <2>1. Len(d) \in Nat /\ \A i \in 1 .. Len(d) : s[i] = d[i]
      BY <1>1, UnderMeans, DiscoveryAssumption
    <2> QED
      BY <1>1, <2>1 DEF Segments
  <1>2. ASSUME NEW s \in Subdirs(d)
        PROVE  s \in Dirs /\ Under(d, s) /\ Len(s) = Len(d) + 1 /\ s[Len(s)] \notin SkipDirs
    BY <1>2 DEF Subdirs, ShouldWalkDir
  <1>3. ASSUME NEW s \in Dirs, Under(d, s), Len(s) = Len(d) + 1, s[Len(s)] \notin SkipDirs,
               Segments(d) \cap SkipSegments = {}
        PROVE  s \in Subdirs(d)
    BY <1>3 DEF Subdirs, ShouldWalkDir
  <1> QED
    BY <1>1, <1>2, <1>3

\* Listing a directory of the frontier: its files come next, and those below
\* it stay ahead.
LEMMA ListFrontier ==
    ASSUME dirs \subseteq Dirs, Frontier, NEW d \in dirs, dirs' = (dirs \ {d}) \cup Subdirs(d)
    PROVE  /\ Frontier'
           /\ \A e \in Dirs : Ahead(e)' => Ahead(e) /\ e # d
           /\ \A e \in Dirs : /\ Segments(e) \cap (SkipDirs \cup SkipSegments) = {}
                              /\ Ahead(e) /\ e # d
                              => Ahead(e)'
  <1>1. d \in Dirs /\ Len(d) \in Nat
    BY DiscoveryAssumption
  <1>2. \A s \in Subdirs(d) : s \in Dirs /\ Under(d, s) /\ Len(s) = Len(d) + 1
    BY <1>1, SubdirsOf
  <1>3. dirs' \subseteq Dirs
    BY <1>2
  <1>4. \A b \in dirs \ {d} : ~Under(b, d) /\ ~Under(d, b)
    BY DEF Frontier
  <1>5. ASSUME NEW s \in Subdirs(d) PROVE ~Under(s, d)
    BY <1>1, <1>2, <1>5 DEF Under
  <1>6. ASSUME NEW b \in dirs \ {d}, NEW s \in Subdirs(d) PROVE ~Under(b, s) /\ ~Under(s, b)
    <2>1. b \in Dirs /\ s \in Dirs /\ Under(d, s)
      BY <1>2, <1>6
    <2>2. ~Under(s, b)
      BY <1>1, <1>4, <2>1, UnderOrder
    <2>3. ~Under(b, s)
      BY <1>1, <1>4, <2>1, UnderOrder
    <2> QED
      BY <2>2, <2>3
  <1>7. \A s, t \in Subdirs(d) : Under(s, t) => s = t
    BY <1>2, UnderOrder
  <1>8. \A a, b \in dirs' : Under(a, b) => a = b
    BY <1>6, <1>7 DEF Frontier
  <1>9. \A a \in dirs' : Segments(a) \cap SkipDirs = {}
    BY <1>1, SubdirsOf DEF Frontier
  <1>10. ASSUME NEW e \in Dirs, Ahead(e)'
         PROVE  Ahead(e) /\ e # d
    <2>1. PICK a \in dirs' : Under(a, e)
      BY <1>10 DEF Ahead
    <2>2. CASE a \in dirs \ {d}
      BY <1>4, <2>1, <2>2 DEF Ahead
    <2>3. CASE a \in Subdirs(d)
      <3>1. Under(d, e)
        BY <1>1, <1>2, <2>1, <2>3, UnderOrder
      <3> QED
        BY <1>5, <2>1, <2>3, <3>1 DEF Ahead
    <2> QED
      BY <2>2, <2>3
  <1>11. ASSUME NEW e \in Dirs, Segments(e) \cap (SkipDirs \cup SkipSegments) = {}, Ahead(e), e # d
         PROVE  Ahead(e)'
    <2>1. PICK a \in dirs : Under(a, e)
      BY <1>11 DEF Ahead
    <2>2. CASE a # d
      BY <2>1, <2>2 DEF Ahead
    <2>3. CASE a = d
      <3>1. PICK s \in Dirs : /\ Under(d, s) /\ Len(s) = Len(d) + 1 /\ Under(s, e)
                              /\ Segments(s) \subseteq Segments(e)
        BY <1>1, <1>11, <2>1, <2>3, Descend
      <3>2. Segments(d) \subseteq Segments(s)
        <4>1. \A i \in 1 .. Len(d) : d[i] = s[i]
          BY <1>1, <3>1, UnderMeans
        <4> QED
          BY <1>1, <3>1, <4>1 DEF Segments
      <3>3. s \in Subdirs(d)
        BY <1>1, <1>11, <3>1, <3>2, SubdirsOf
      <3> QED
        BY <3>1, <3>3 DEF Ahead
    <2> QED
      BY <2>2, <2>3
  <1> QED
    BY <1>8, <1>9, <1>10, <1>11 DEF Frontier
-----------------------------------------------------------------------------
(* What is recorded of a file *)

LEMMA OneMore ==
    ASSUME NEW n \in Nat, NEW I \in SUBSET (1 .. n)
    PROVE  /\ Cardinality(I) \in Nat
           /\ Cardinality(I \cup {n + 1}) = Cardinality(I) + 1
  <1>1. IsFiniteSet(1 .. n)
    BY FS_Interval
  <1>2. IsFiniteSet(I)
    BY <1>1, FS_Subset
  <1>3. n + 1 \notin I
    OBVIOUS
  <1> QED
    BY <1>2, <1>3, FS_CardinalityType, FS_AddElement

LEMMA MentionsOfAppend ==
    ASSUME NEW S, NEW list \in Seq(S), NEW x, NEW r, NEW p
    PROVE  /\ Mentions(list, r, p) \in Nat
           /\ Mentions(Append(list, x), r, p)
                 = Mentions(list, r, p) + (IF x.repo = r /\ x.path = p THEN 1 ELSE 0)
  <1> DEFINE I == {n \in DOMAIN list : list[n].repo = r /\ list[n].path = p}
             longer == Append(list, x)
             J == {n \in DOMAIN longer : longer[n].repo = r /\ longer[n].path = p}
  <1>1. Len(list) \in Nat /\ DOMAIN list = 1 .. Len(list) /\ I \in SUBSET (1 .. Len(list))
    OBVIOUS
  <1>2. list \in Seq(S \cup {x})
    OBVIOUS
  <1>3. /\ DOMAIN longer = 1 .. Len(list) + 1
        /\ \A n \in 1 .. Len(list) : longer[n] = list[n]
        /\ longer[Len(list) + 1] = x
    BY <1>2
  <1> HIDE DEF longer
  <1>4. J = IF x.repo = r /\ x.path = p THEN I \cup {Len(list) + 1} ELSE I
    BY <1>1, <1>3
  <1>5. Mentions(list, r, p) = Cardinality(I) /\ Mentions(Append(list, x), r, p) = Cardinality(J)
    BY DEF Mentions, longer
  <1> HIDE DEF I, J
  <1>6. Cardinality(I) \in Nat /\ Cardinality(I \cup {Len(list) + 1}) = Cardinality(I) + 1
    BY <1>1, OneMore
  <1> QED
    BY <1>4, <1>5, <1>6

LEMMA CountsAreNumbers ==
    ASSUME TypeOK, NEW r, NEW p
    PROVE  Times(r, p) \in Nat /\ Found(r, p) \in Nat /\ Expected(r, p) \in Nat
  <1>1. /\ Mentions(docs, r, p) \in Nat /\ Mentions(skipped, r, p) \in Nat
        /\ Mentions(failures, r, p) \in Nat
    BY MentionsOfAppend DEF TypeOK
  <1> DEFINE I == {n \in DOMAIN discovered :
                      /\ discovered[n].repo = r
                      /\ history[r][discovered[n].commit].text[p] # "absent"}
  <1>2. Len(discovered) \in Nat /\ I \in SUBSET (1 .. Len(discovered))
    BY DEF TypeOK
  <1>3. Found(r, p) = Cardinality(I)
    BY DEF Found
  <1> HIDE DEF I
  <1>4. Found(r, p) \in Nat
    BY <1>2, <1>3, OneMore
  <1> QED
    BY <1>1, <1>4 DEF Times, Expected

\* Entering a repository, the pass finds once more what it holds then.
LEMMA FoundOnceMore ==
    ASSUME TypeOK, UNCHANGED history, NEW r \in Repos,
           discovered' = Append(discovered, [repo |-> r, commit |-> head[r]])
    PROVE  \A q, p : Found(q, p)' = Found(q, p) +
               (IF q = r /\ history[r][head[r]].text[p] # "absent" THEN 1 ELSE 0)
  <1> TAKE q, p
  <1> DEFINE x == [repo |-> r, commit |-> head[r]]
             Here(e) == e.repo = q /\ history[q][e.commit].text[p] # "absent"
             I == {n \in DOMAIN discovered : Here(discovered[n])}
             J == {n \in DOMAIN discovered' : Here(discovered'[n])}
  <1>1. /\ Len(discovered) \in Nat /\ DOMAIN discovered = 1 .. Len(discovered)
        /\ DOMAIN discovered' = 1 .. Len(discovered) + 1
        /\ \A n \in 1 .. Len(discovered) : discovered'[n] = discovered[n]
        /\ discovered'[Len(discovered) + 1] = x
    BY DEF TypeOK
  <1>2. Here(x) <=> q = r /\ history[r][head[r]].text[p] # "absent"
    OBVIOUS
  <1>3. Found(q, p) = Cardinality(I) /\ Found(q, p)' = Cardinality(J)
    BY DEF Found
  <1> HIDE DEF x, Here
  <1>4. J = IF Here(x) THEN I \cup {Len(discovered) + 1} ELSE I
    BY <1>1
  <1>5. I \in SUBSET (1 .. Len(discovered))
    BY <1>1
  <1> HIDE DEF I, J
  <1>6. Cardinality(I) \in Nat /\ Cardinality(I \cup {Len(discovered) + 1}) = Cardinality(I) + 1
    BY <1>1, <1>5, OneMore
  <1> QED
    BY <1>2, <1>3, <1>4, <1>6

LEMMA SameTimes ==
    ASSUME UNCHANGED <<docs, skipped, failures>>
    PROVE  \A r, p : Times(r, p)' = Times(r, p)
  BY DEF Times, Mentions

LEMMA SameFound ==
    ASSUME UNCHANGED <<history, discovered>>
    PROVE  \A r, p : Found(r, p)' = Found(r, p) /\ Expected(r, p)' = Expected(r, p)
  BY DEF Found, Expected, Candidate

LEMMA SameAccounts ==
    ASSUME UNCHANGED <<history, docs, discovered, skipped, failures>>
    PROVE  \A r : Accounted(r)' <=> Accounted(r)
  <1>1. \A r, p : Times(r, p)' = Times(r, p) /\ Expected(r, p)' = Expected(r, p)
    BY SameTimes, SameFound
  <1> QED
    BY <1>1 DEF Accounted

\* A step that reads file p records one thing of it and nothing of others.
LEMMA RecordsOne ==
    ASSUME TypeOK, NEW p \in Paths, ReadFails(p) \/ ReadDoc(p)
    PROVE  \A r, q : Times(r, q)' = Times(r, q) + (IF r = repo /\ q = p THEN 1 ELSE 0)
  <1> TAKE r, q
  <1>1. /\ Mentions(docs, r, q) \in Nat /\ Mentions(skipped, r, q) \in Nat
        /\ Mentions(failures, r, q) \in Nat
    BY MentionsOfAppend DEF TypeOK
  <1>2. /\ docs \in Seq(Document) /\ failures \in Seq([repo : Repos, path : Paths])
        /\ skipped \in Seq([repo : Repos, path : Paths,
                            reason : {"empty", "review-required", "internal-excluded"}])
    BY DEF TypeOK
  <1>3. CASE ReadFails(p)
    <2>1. Mentions(failures', r, q) = Mentions(failures, r, q) + (IF r = repo /\ q = p THEN 1 ELSE 0)
      <3> DEFINE x == [repo |-> repo, path |-> p]
      <3>1. failures' = Append(failures, x) /\ x.repo = repo /\ x.path = p
        BY <1>3 DEF ReadFails
      <3> HIDE DEF x
      <3> QED
        BY <1>2, <3>1, MentionsOfAppend
    <2>2. UNCHANGED <<docs, skipped>>
      BY <1>3 DEF ReadFails
    <2> QED
      BY <1>1, <2>1, <2>2 DEF Times
  <1>4. CASE ReadDoc(p)
    <2> DEFINE visibility == Settled(Resolve(repo, p, inventory, withheld, input))
               d == [repo |-> repo, path |-> p, revision |-> rev,
                     visibility |-> visibility, text |-> OnDisk(p)]
               x == [repo |-> repo, path |-> p, reason |-> ReasonToSkip(p, visibility)]
    <2>1. /\ UNCHANGED failures
          /\ \/ docs' = Append(docs, d) /\ UNCHANGED skipped
             \/ skipped' = Append(skipped, x) /\ UNCHANGED docs
      BY <1>4 DEF ReadDoc
    <2>2. d.repo = repo /\ d.path = p /\ x.repo = repo /\ x.path = p
      OBVIOUS
    <2> HIDE DEF d, x
    <2>3. CASE docs' = Append(docs, d) /\ UNCHANGED skipped
      <3>1. Mentions(docs', r, q) = Mentions(docs, r, q) + (IF r = repo /\ q = p THEN 1 ELSE 0)
        BY <1>2, <2>2, <2>3, MentionsOfAppend
      <3> QED
        BY <1>1, <2>1, <2>3, <3>1 DEF Times
    <2>4. CASE skipped' = Append(skipped, x) /\ UNCHANGED docs
      <3>1. Mentions(skipped', r, q) = Mentions(skipped, r, q) + (IF r = repo /\ q = p THEN 1 ELSE 0)
        BY <1>2, <2>2, <2>4, MentionsOfAppend
      <3> QED
        BY <1>1, <2>1, <2>4, <3>1 DEF Times
    <2> QED
      BY <2>1, <2>3, <2>4
  <1> QED
    BY <1>3, <1>4
-----------------------------------------------------------------------------
(* Steps of the accounting *)

LEMMA AInvInit == Init => AInv
  <1> SUFFICES ASSUME Init PROVE AInv
    OBVIOUS
  <1>1. repo = None /\ pc = "next" /\ dirs = {} /\ todo = {}
    BY DEF Init
  <1>2. \A r, p : Mentions(<<>>, r, p) = 0
    BY FS_EmptySet DEF Mentions
  <1>3. \A r, p : Times(r, p) = 0
    BY <1>2 DEF Times, Init
  <1>4. \A r, p : Found(r, p) = 0
    <2>1. discovered = <<>>
      BY DEF Init
    <2> QED
      BY <2>1, FS_EmptySet DEF Found
  <1>5. \A r : Accounted(r)
    BY <1>3, <1>4 DEF Accounted, Expected
  <1> QED
    BY <1>1, <1>5 DEF AInv, Scanning

\* Steps that record nothing.
LEMMA Passing ==
    ASSUME AInv, UNCHANGED <<history, repo, docs, discovered, skipped, failures>>,
           overlapped \subseteq overlapped'
    PROVE  \A r \in Repos \ (overlapped' \cup {repo'}) : Accounted(r)'
  BY SameAccounts DEF AInv

LEMMA SkipRepoAccounted ==
    ASSUME AInv, SkipRepo
    PROVE  AInv'
  <1>1. /\ pc = "next" /\ pc' = pc
        /\ UNCHANGED <<history, repo, overlapped, docs, discovered, skipped, failures, dirs, todo>>
    BY DEF SkipRepo, checkout
  <1> QED
    BY <1>1, Passing DEF AInv, Scanning

\* From here on the pass owes a record of each document of the repository.
LEMMA EnterRepoAccounted ==
    ASSUME IInv, AInv, EnterRepo
    PROVE  AInv'
  <1>1. PICK r \in Repos : r = Configured[turn]
    BY NextOfList DEF IInv, EnterRepo
  <1>2. /\ pc = "next" /\ pc' = "inventory" /\ repo' = r
        /\ discovered' = Append(discovered, [repo |-> r, commit |-> head[r]])
        /\ overlapped \subseteq overlapped'
        /\ UNCHANGED <<history, head, docs, skipped, failures, dirs, todo>>
    BY <1>1 DEF EnterRepo, checkout
  <1>3. repo = None /\ repo \notin Repos /\ dirs = {} /\ todo = {}
    BY <1>2, DiscoveryAssumption DEF AInv
  <1>4. \A s \in Repos \ overlapped : Accounted(s)
    BY <1>3 DEF AInv
  <1>5. /\ \A q, p : Times(q, p)' = Times(q, p)
        /\ \A q, p : Found(q, p)' = Found(q, p) +
               (IF q = r /\ history[r][head[r]].text[p] # "absent" THEN 1 ELSE 0)
        /\ \A q, p : Found(q, p) \in Nat
    BY <1>2, SameTimes, FoundOnceMore, CountsAreNumbers DEF IInv
  <1>6. ASSUME NEW s \in Repos \ (overlapped' \cup {repo'})
        PROVE  Accounted(s)'
    <2>1. s # r /\ Accounted(s)
      BY <1>2, <1>4
    <2>2. \A p : Times(s, p)' = Times(s, p) /\ Found(s, p)' = Found(s, p)
      BY <1>5, <2>1
    <2>3. \A p : Expected(s, p)' = Expected(s, p)
      BY <2>2 DEF Expected, Candidate
    <2> QED
      BY <2>1, <2>2, <2>3 DEF Accounted
  <1>7. ASSUME r \notin overlapped'
        PROVE  Owed(r, history[r][head[r]])'
    <2> DEFINE c == history[r][head[r]]
    <2>1. Accounted(r)
      BY <1>2, <1>4, <1>7
    <2>2. ASSUME NEW p \in Paths
          PROVE  /\ Times(r, p)' = (IF Candidate(r, p) THEN Found(r, p) ELSE 0)
                 /\ Expected(r, p)' = (IF Candidate(r, p) THEN Found(r, p)' ELSE 0)
      <3>1. Times(r, p)' = Times(r, p)
        BY <1>5
      <3>2. Times(r, p) = (IF Candidate(r, p) THEN Found(r, p) ELSE 0)
        BY <2>1 DEF Accounted, Expected
      <3>3. Candidate(r, p)' <=> Candidate(r, p)
        BY DEF Candidate
      <3>4. Expected(r, p)' = (IF Candidate(r, p)' THEN Found(r, p)' ELSE 0)
        BY DEF Expected
      <3> QED
        BY <3>1, <3>2, <3>3, <3>4
    <2>3. \A p \in Paths : Due(r, c, p) <=> Candidate(r, p) /\ c.text[p] # "absent"
      BY DEF Due
    <2>4. ASSUME NEW p \in Paths
          PROVE  Times(r, p)' + (IF Due(r, c, p) THEN 1 ELSE 0) = Expected(r, p)'
      BY <1>5, <2>2, <2>3, <2>4
    <2>5. c' = c /\ \A p : Awaited(p)'
      BY <1>2 DEF Awaited
    <2> QED
      BY <2>4, <2>5 DEF Owed, Due, Candidate
  <1>8. Owed(repo, history[repo][head[repo]])' <=> Owed(r, history[r][head[r]])'
    BY <1>2 DEF Owed, Times, Expected, Found, Due, Candidate, Mentions
  <1> QED
    BY <1>2, <1>3, <1>6, <1>7, <1>8 DEF AInv

LEMMA ResolverAccounted ==
    ASSUME AInv, ParseFails \/ ReadInventory \/ ReadManifest
    PROVE  AInv'
  <1>1. /\ pc \in {"inventory", "manifest", "policy"} /\ pc' \in {"failed", "manifest", "policy"}
        /\ UNCHANGED <<history, head, repo, overlapped, docs, discovered, skipped, failures, dirs, todo>>
    BY DEF ParseFails, ReadInventory, ReadManifest, checkout, results
  <1>2. ASSUME repo \notin overlapped
        PROVE  Owed(repo, history[repo][head[repo]])'
    <2>1. PICK c : c = history[repo][head[repo]]
      OBVIOUS
    <2>2. Owed(repo, c)
      BY <1>1, <1>2, <2>1 DEF AInv, Scanning
    <2>3. /\ \A p : Times(repo, p)' = Times(repo, p) /\ Expected(repo, p)' = Expected(repo, p)
          /\ \A p : Awaited(p) /\ Awaited(p)'
      BY <1>1, SameTimes, SameFound DEF Awaited, Times, Expected, Found, Candidate, Mentions
    <2>4. Owed(repo, c)'
      BY <1>1, <2>2, <2>3 DEF Owed, Due, Candidate
    <2>5. history[repo][head[repo]]' = c
      BY <1>1, <2>1
    <2> QED
      BY <2>4, <2>5
  <1> QED
    BY <1>1, <1>2, Passing DEF AInv, Scanning

LEMMA ReadPolicyAccounted ==
    ASSUME IInv, AInv, ReadPolicy
    PROVE  AInv'
  <1>1. /\ pc = "policy" /\ pc' = "walk" /\ dirs' = {<<>>} /\ todo' = {}
        /\ UNCHANGED <<history, head, repo, overlapped, docs, discovered, skipped, failures>>
    BY DEF ReadPolicy, checkout, results, AInv
  <1>2. \A e \in Dirs : Under(<<>>, e)
    <2>1. <<>> \in Dirs /\ Len(<<>>) = 0
      BY DiscoveryAssumption
    <2> QED
      BY <2>1, UnderMeans, DiscoveryAssumption
  <1>3. \A p \in Paths : Awaited(p) /\ Awaited(p)'
    BY <1>1, <1>2, DiscoveryAssumption DEF Awaited, Ahead
  <1>4. ASSUME repo \notin overlapped
        PROVE  (Walked(repo, history[repo][head[repo]]) /\ Owed(repo, history[repo][head[repo]]))'
    <2>1. PICK c : c = history[repo][head[repo]]
      OBVIOUS
    <2>2. Owed(repo, c)
      BY <1>1, <1>4, <2>1 DEF AInv, Scanning
    <2>3. \A p : Times(repo, p)' = Times(repo, p) /\ Expected(repo, p)' = Expected(repo, p)
      BY <1>1, SameTimes, SameFound DEF Times, Expected, Found, Candidate, Mentions
    <2>4. Owed(repo, c)'
      BY <1>1, <1>3, <2>2, <2>3 DEF Owed, Due, Candidate
    <2>5. Walked(repo, c)'
      BY <1>1 DEF Walked, Frontier, Segments
    <2>6. history[repo][head[repo]]' = c
      BY <1>1, <2>1
    <2> QED
      BY <2>4, <2>5, <2>6
  <1> QED
    BY <1>1, <1>4, Passing DEF AInv

LEMMA ListDirAccounted ==
    ASSUME IInv, AInv, NEW d \in Dirs, ListDir(d)
    PROVE  AInv'
  <1>1. /\ pc = "walk" /\ pc' = "walk" /\ todo = {} /\ d \in dirs
        /\ dirs' = (dirs \ {d}) \cup Subdirs(d)
        /\ todo' = {p \in Paths : DirOf[p] = d /\ ShouldSelectFile(repo, p) /\ OnDisk(p) # "absent"}
        /\ UNCHANGED <<history, head, repo, overlapped, docs, discovered, skipped, failures>>
    BY DEF ListDir, checkout, results
  <1>2. ASSUME repo \notin overlapped
        PROVE  (Walked(repo, history[repo][head[repo]]) /\ Owed(repo, history[repo][head[repo]]))'
    <2>1. PICK c : c = history[repo][head[repo]]
      OBVIOUS
    <2>2. Walked(repo, c) /\ Owed(repo, c)
      BY <1>1, <1>2, <2>1 DEF AInv, Scanning
    <2>3. \A p \in Paths : OnDisk(p) = c.text[p]
      BY <1>1, <1>2, <2>1, PathContent DEF OnDisk, IInv, Quiet, Scanning, Files
    <2>4. dirs \subseteq Dirs /\ \A p \in Paths : DirOf[p] \in Dirs
      BY DiscoveryAssumption DEF IInv, TypeOK
    <2>5. /\ Frontier'
          /\ \A e \in Dirs : Ahead(e)' => Ahead(e) /\ e # d
          /\ \A e \in Dirs : /\ Segments(e) \cap (SkipDirs \cup SkipSegments) = {}
                             /\ Ahead(e) /\ e # d
                             => Ahead(e)'
      BY <1>1, <2>2, <2>4, ListFrontier DEF Walked
    <2>6. Ahead(d)
      BY <1>1, UnderOrder DEF Ahead
    <2>7. Segments(d) \cap SkipDirs = {}
      BY <1>1, <2>2 DEF Walked, Frontier
    <2>8. \A p \in Paths : p \in todo' <=> DirOf[p] = d /\ Due(repo, c, p)
      BY <1>1, <2>3, <2>7 DEF ShouldSelectFile, Due, Candidate
    <2>9. \A p \in todo' : Due(repo, c, p) /\ ~Ahead(DirOf[p])'
      BY <1>1, <2>4, <2>5, <2>8
    <2>10. \A p \in Paths : Due(repo, c, p) => (Awaited(p)' <=> Awaited(p))
      BY <1>1, <2>4, <2>5, <2>6, <2>8 DEF Due, Candidate, Awaited
    <2>11. \A p : Times(repo, p)' = Times(repo, p) /\ Expected(repo, p)' = Expected(repo, p)
      BY <1>1, SameTimes, SameFound DEF Times, Expected, Found, Candidate, Mentions
    <2>12. Owed(repo, c)'
      BY <1>1, <2>2, <2>10, <2>11 DEF Owed, Due, Candidate
    <2>13. Walked(repo, c)'
      BY <1>1, <2>5, <2>9 DEF Walked, Due, Candidate
    <2>14. history[repo][head[repo]]' = c
      BY <1>1, <2>1
    <2> QED
      BY <2>12, <2>13, <2>14
  <1> QED
    BY <1>1, <1>2, Passing DEF AInv

\* A file of the directory just listed is recorded, and awaited no longer.
LEMMA ReadAccounted ==
    ASSUME IInv, AInv, NEW p \in Paths, ReadFails(p) \/ ReadDoc(p)
    PROVE  AInv'
  <1>1. /\ pc = "walk" /\ pc' = "walk" /\ p \in todo /\ todo' = todo \ {p} /\ repo \in Repos
        /\ UNCHANGED <<history, head, repo, overlapped, dirs, discovered>>
    BY DEF ReadFails, ReadDoc, checkout, IInv, TypeOK
  <1>2. \A r, q : /\ Times(r, q)' = Times(r, q) + (IF r = repo /\ q = p THEN 1 ELSE 0)
                 /\ Times(r, q) \in Nat /\ Expected(r, q) \in Nat
                 /\ Expected(r, q)' = Expected(r, q)
    BY <1>1, RecordsOne, CountsAreNumbers, SameFound DEF IInv
  <1>3. \A r \in Repos \ (overlapped' \cup {repo'}) : Accounted(r)'
    BY <1>1, <1>2 DEF AInv, Accounted
  <1>4. ASSUME repo \notin overlapped
        PROVE  (Walked(repo, history[repo][head[repo]]) /\ Owed(repo, history[repo][head[repo]]))'
    <2>1. PICK c : c = history[repo][head[repo]]
      OBVIOUS
    <2>2. Walked(repo, c) /\ Owed(repo, c)
      BY <1>1, <1>4, <2>1 DEF AInv, Scanning
    <2>3. Due(repo, c, p) /\ ~Ahead(DirOf[p])
      BY <1>1, <2>2 DEF Walked
    <2>4. \A e : Ahead(e)' <=> Ahead(e)
      BY <1>1 DEF Ahead
    <2>5. \A q : Awaited(q)' <=> Awaited(q) /\ q # p
      BY <1>1, <2>3, <2>4 DEF Awaited
    <2>6. Awaited(p)
      BY <1>1 DEF Awaited
    <2>7. PICK r \in Repos : r = repo
      BY <1>1
    <2>8. ASSUME NEW q \in Paths
          PROVE  Times(r, q)' + (IF Due(r, c, q) /\ Awaited(q)' THEN 1 ELSE 0) = Expected(r, q)'
      <3>1. Times(r, q) + (IF Due(r, c, q) /\ Awaited(q) THEN 1 ELSE 0) = Expected(r, q)
        BY <2>2, <2>7 DEF Owed
      <3>2. /\ Times(r, q)' = Times(r, q) + (IF q = p THEN 1 ELSE 0)
            /\ Expected(r, q)' = Expected(r, q) /\ Times(r, q) \in Nat
        BY <1>2, <2>7
      <3>3. Due(r, c, p)
        BY <2>3, <2>7
      <3> QED
        BY <2>5, <2>6, <3>1, <3>2, <3>3
    <2>11. Owed(r, c)'
      BY <2>8 DEF Owed, Due, Candidate
    <2>12. repo' = r
      BY <1>1, <2>7
    <2>9. Walked(repo, c)'
      BY <1>1, <2>2, <2>4 DEF Walked, Frontier, Due, Candidate
    <2>10. history[repo][head[repo]]' = c
      BY <1>1, <2>1
    <2>13. Owed(repo, c)'
      BY <2>11, <2>12 DEF Owed, Times, Expected, Found, Due, Candidate, Mentions
    <2> QED
      BY <2>9, <2>10, <2>13
  <1> QED
    BY <1>1, <1>3, <1>4 DEF AInv

\* A repository is left when nothing more of it is awaited.
LEMMA LeaveRepoAccounted ==
    ASSUME IInv, AInv, LeaveRepo
    PROVE  AInv'
  <1>1. /\ pc = "walk" /\ pc' = "next" /\ todo = {} /\ dirs = {} /\ repo' = None
        /\ UNCHANGED <<history, overlapped, docs, discovered, skipped, failures, dirs, todo>>
    BY DEF LeaveRepo, checkout, results
  <1>2. repo \notin overlapped => Accounted(repo)
    <2>1. \A p : ~Awaited(p)
      BY <1>1 DEF Awaited, Ahead
    <2>2. repo \notin overlapped => Owed(repo, history[repo][head[repo]])
      BY <1>1 DEF AInv, Scanning
    <2>3. \A p : Times(repo, p) + 0 = Times(repo, p)
      BY CountsAreNumbers DEF IInv
    <2> QED
      BY <2>1, <2>2, <2>3 DEF Owed, Accounted
  <1>3. \A r \in Repos \ overlapped : Accounted(r)
    BY <1>2 DEF AInv
  <1>4. \A r \in Repos \ (overlapped' \cup {repo'}) : Accounted(r)'
    BY <1>1, <1>3, SameAccounts
  <1> QED
    BY <1>1, <1>4 DEF AInv, Scanning

LEMMA FinishAccounted ==
    ASSUME AInv, Finish
    PROVE  AInv'
  <1>1. /\ pc = "next" /\ pc' = "done"
        /\ UNCHANGED <<history, repo, overlapped, docs, discovered, skipped, failures, dirs, todo>>
    BY DEF Finish, checkout, results
  <1> QED
    BY <1>1, Passing DEF AInv, Scanning

\* A pull of the repository being read ends the claim about it; a pull of
\* another one changes nothing the pass has to account for.
LEMMA PullAccounted ==
    ASSUME IInv, AInv, Pull \/ UNCHANGED vars
    PROVE  AInv'
  <1>1. /\ UNCHANGED <<history, repo, docs, discovered, skipped, failures, pc, dirs, todo>>
        /\ overlapped \subseteq overlapped'
    BY DEF Pull, PullFile, PullDone, Touch, results, vars, checkout
  <1>2. ASSUME pc \in Scanning, repo \notin overlapped'
        PROVE  head'[repo] = head[repo]
    <2>1. repo \in Repos /\ head \in [Repos -> Nat]
      BY <1>2 DEF IInv, TypeOK, Scanning
    <2>2. CASE \E r \in Repos : PullDone(r)
      <3>1. PICK r \in Repos : /\ head' = [head EXCEPT ![r] = @ + 1]
                               /\ repo = r => r \in overlapped'
        BY <2>2 DEF PullDone, Touch
      <3> QED
        BY <1>2, <2>1, <3>1
    <2>3. CASE UNCHANGED head
      BY <2>3
    <2> QED
      BY <2>2, <2>3 DEF Pull, PullFile, vars, checkout
  <1>3. \A p : Times(repo, p)' = Times(repo, p) /\ Expected(repo, p)' = Expected(repo, p)
    BY <1>1, SameTimes, SameFound DEF Times, Expected, Found, Candidate, Mentions
  <1>4. ASSUME pc \in Scanning, repo \notin overlapped'
        PROVE  Owed(repo, history[repo][head[repo]])'
    <2>1. PICK c : c = history[repo][head[repo]]
      OBVIOUS
    <2>2. Owed(repo, c)
      BY <1>1, <1>4, <2>1 DEF AInv
    <2>3. Owed(repo, c)'
      BY <1>1, <1>3, <2>2 DEF Owed, Due, Candidate, Awaited, Ahead
    <2>4. history[repo][head[repo]]' = c
      BY <1>1, <1>2, <1>4, <2>1
    <2> QED
      BY <2>3, <2>4
  <1>5. ASSUME pc = "walk", repo \notin overlapped'
        PROVE  Walked(repo, history[repo][head[repo]])'
    <2>1. PICK c : c = history[repo][head[repo]]
      OBVIOUS
    <2>2. Walked(repo, c)
      BY <1>1, <1>5, <2>1 DEF AInv
    <2>3. Walked(repo, c)'
      BY <1>1, <2>2 DEF Walked, Frontier, Ahead, Due, Candidate
    <2>4. history[repo][head[repo]]' = c
      BY <1>1, <1>2, <1>5, <2>1 DEF Scanning
    <2> QED
      BY <2>3, <2>4
  <1> QED
    BY <1>1, <1>4, <1>5, Passing DEF AInv

LEMMA AccountingStep == IInv /\ AInv /\ [DiscoveryNext]_vars => AInv'
  <1> SUFFICES ASSUME IInv, AInv, [DiscoveryNext]_vars PROVE AInv'
    OBVIOUS
  <1>1. CASE Scan
    BY <1>1, SkipRepoAccounted, EnterRepoAccounted, ResolverAccounted, ReadPolicyAccounted,
       ListDirAccounted, ReadAccounted, LeaveRepoAccounted, FinishAccounted DEF Scan
  <1>2. CASE Pull \/ UNCHANGED vars
    BY <1>2, PullAccounted
  <1> QED
    BY <1>1, <1>2 DEF DiscoveryNext

\* Of a checkout nobody pulls during the pass, every document the source
\* policy selects is indexed, skipped for a reason or a failure, exactly
\* once for each time its repository is configured and found, and no other
\* file is mentioned: discover_documents' lists.
THEOREM EachFileOnce == DiscoverySpec => []EveryFileAccounted
  <1>1. AInv => EveryFileAccounted
    <2> SUFFICES ASSUME AInv, NEW r \in Repos \ (overlapped \cup {repo}), NEW p \in Paths
                 PROVE  Times(r, p) = IF Candidate(r, p) THEN Found(r, p) ELSE 0
      BY DEF EveryFileAccounted
    <2>1. Times(r, p) = Expected(r, p)
      BY DEF AInv, Accounted
    <2> QED
      BY <2>1 DEF Expected
  <1> QED
    BY <1>1, AInvInit, AccountingStep, DiscoveryInvariant, PTL DEF DiscoverySpec
-----------------------------------------------------------------------------
(* The chunker *)

USE LengthAssumption

Alphabet == Characters \cup Headers

Chunk == [crumb : Seq(Nat), body : Seq(Alphabet)]

ChunkTypes ==
    /\ text \in Seq(Alphabet)
    /\ next \in HeadsOf(text) \cup {0, Len(text) + 1}
    /\ stack \in Seq(Nat)
    /\ chunks \in Seq(Chunk)
    /\ phase \in {"sections", "paragraphs", "words"}
    /\ {tail, joined, rest} \subseteq Seq(Alphabet)
    /\ size \in Int

OneParagraph(s) == Breaks(s) = {}

\* What the inner loops have of a section.
Pieces ==
    /\ phase = "sections" => tail = <<>>
    /\ phase # "paragraphs" => joined = <<>>
    /\ phase = "words" /\ Budget(stack) > 0 => OneParagraph(rest)
    /\ Budget(stack) <= 0 => tail = <<>> /\ joined = <<>>
    /\ joined # <<>> => size = RealLen(joined) /\ size <= Budget(stack)

FitInv == ChunkTypes /\ Pieces /\ ChunksFit

\* The stack: headings in order, of which no other one is between the last
\* and the next section.
StackInv ==
    /\ \A n \in DOMAIN stack : stack[n] \in HeadsOf(text) /\ stack[n] < next
    /\ \A m, n \in DOMAIN stack : m < n => stack[m] < stack[n]
    /\ \A j \in HeadsOf(text) : j < next => stack # <<>> /\ j <= stack[Len(stack)]
    /\ WellNested(text) => \A n \in DOMAIN stack : Level(text[stack[n]]) = n
    /\ WellNested(text) /\ stack # <<>> => IsChain(text, stack)
-----------------------------------------------------------------------------

\* Min and Max are CHOOSEn: they exist for sets of naturals.
LEMMA MinFacts ==
    ASSUME NEW S \in SUBSET Nat, S # {}
    PROVE  Min(S) \in S /\ \A i \in S : Min(S) <= i
<1>1. PICK m \in S : \A i \in S : <<i, m>> \notin OpToRel(<, Nat)
    BY NatLessThanWellFounded, WFMin
<1>2. \A i \in S : ~(i < m)
    BY <1>1 DEF OpToRel
<1>3. \A i \in S : m <= i
    BY <1>2
<1> QED BY <1>3 DEF Min

LEMMA MaxFacts ==
    ASSUME NEW S \in SUBSET Nat, S # {}, NEW b \in Nat, \A i \in S : i <= b
    PROVE  Max(S) \in S /\ \A i \in S : i <= Max(S)
<1> DEFINE T == {b - i : i \in S}
<1>1. T \in SUBSET Nat /\ T # {}
    OBVIOUS
<1>2. Min(T) \in T /\ \A j \in T : Min(T) <= j
    BY <1>1, MinFacts
<1>3. PICK m \in S : Min(T) = b - m
    BY <1>2
<1>4. ASSUME NEW i \in S PROVE i <= m
    <2>1. b - m <= b - i
        BY <1>2, <1>3
    <2> QED BY <2>1
<1> QED BY <1>4 DEF Max

\* A part of a string.
LEMMA PartOfString ==
    ASSUME NEW S, NEW s \in Seq(S), NEW a \in 1 .. Len(s) + 1, NEW b \in 0 .. Len(s)
    PROVE  /\ SubSeq(s, a, b) \in Seq(S)
           /\ Len(SubSeq(s, a, b)) = IF a <= b THEN b - a + 1 ELSE 0
           /\ \A i \in 1 .. Len(SubSeq(s, a, b)) : SubSeq(s, a, b)[i] = s[a + i - 1]
<1>1. \A i \in a .. b : s[i] \in S
    OBVIOUS
<1>2. a \in Int /\ b \in Int
    OBVIOUS
<1> QED BY <1>1, <1>2, SubSeqProperties

\* A part of a paragraph is one.
LEMMA PartOfParagraph ==
    ASSUME NEW S, NEW s \in Seq(S), NEW a \in 1 .. Len(s) + 1, NEW b \in 0 .. Len(s), OneParagraph(s)
    PROVE  OneParagraph(SubSeq(s, a, b))
<1> DEFINE p == SubSeq(s, a, b)
<1>1. /\ p \in Seq(S) /\ Len(p) = (IF a <= b THEN b - a + 1 ELSE 0)
      /\ \A i \in 1 .. Len(p) : p[i] = s[a + i - 1]
    BY PartOfString
<1> HIDE DEF p
<1>2. Len(s) \in Nat /\ a \in Nat /\ b \in Nat /\ b <= Len(s)
    OBVIOUS
<1>3. ASSUME NEW i \in 1 .. Len(p) - 1, p[i] = "n", p[i + 1] = "n"
      PROVE  FALSE
    <2>1. i \in 1 .. Len(p) /\ i + 1 \in 1 .. Len(p) /\ i \in Nat
        BY <1>1
    <2>2. p[i] = s[a + i - 1] /\ p[i + 1] = s[a + (i + 1) - 1]
        BY <1>1, <2>1
    <2>3. a + i - 1 \in 1 .. Len(s) - 1 /\ a + (i + 1) - 1 = (a + i - 1) + 1
        BY <1>1, <1>2, <2>1
    <2>4. s[a + i - 1] = "n" /\ s[(a + i - 1) + 1] = "n"
        BY <1>3, <2>2, <2>3
    <2> QED BY <2>3, <2>4 DEF OneParagraph, Breaks
<1> QED BY <1>3 DEF OneParagraph, Breaks, p

\* What lstrip cuts off is of the set.
LEMMA LeftStripFacts ==
    ASSUME NEW S, NEW s \in Seq(S), NEW set
    PROVE  \E k \in 1 .. Len(s) + 1 :
               /\ LeftStrip(s, set) = SubSeq(s, k, Len(s))
               /\ \A i \in 1 .. k - 1 : s[i] \in set
               /\ k <= Len(s) => s[k] \notin set
<1> DEFINE K == {i \in DOMAIN s : s[i] \notin set} \cup {Len(s) + 1}
<1>1. K \in SUBSET (1 .. Len(s) + 1) /\ K \in SUBSET Nat /\ K # {} /\ Len(s) \in Nat
    OBVIOUS
<1>2. \A i \in 1 .. Len(s) : s[i] \in set \/ i \in K
    OBVIOUS
<1>3. \A i \in K : i = Len(s) + 1 \/ s[i] \notin set
    OBVIOUS
<1>4. LeftStrip(s, set) = SubSeq(s, Min(K), Len(s))
    BY DEF LeftStrip
<1> HIDE DEF K
<1>5. Min(K) \in K /\ \A i \in K : Min(K) <= i
    BY <1>1, MinFacts
<1> DEFINE m == Min(K)
<1>6. m \in K /\ m \in Nat /\ (\A i \in K : m <= i) /\ m = Min(K)
    BY <1>1, <1>5
<1> HIDE DEF m
<1>7. \A i \in 1 .. m - 1 : s[i] \in set
    BY <1>1, <1>2, <1>6
<1>8. m \in 1 .. Len(s) + 1 /\ (m <= Len(s) => s[m] \notin set)
    BY <1>1, <1>3, <1>6
<1> QED BY <1>4, <1>6, <1>7, <1>8

LEMMA RightStripFacts ==
    ASSUME NEW S, NEW s \in Seq(S), NEW set
    PROVE  \E k \in 0 .. Len(s) :
               /\ RightStrip(s, set) = SubSeq(s, 1, k)
               /\ \A i \in k + 1 .. Len(s) : s[i] \in set
               /\ k > 0 => s[k] \notin set
<1> DEFINE K == {i \in DOMAIN s : s[i] \notin set} \cup {0}
<1>1. K \in SUBSET (0 .. Len(s)) /\ K \in SUBSET Nat /\ K # {} /\ Len(s) \in Nat /\ \A i \in K : i <= Len(s)
    OBVIOUS
<1>2. \A i \in 1 .. Len(s) : s[i] \in set \/ i \in K
    OBVIOUS
<1>3. \A i \in K : i = 0 \/ s[i] \notin set
    OBVIOUS
<1>4. RightStrip(s, set) = SubSeq(s, 1, Max(K))
    BY DEF RightStrip
<1> HIDE DEF K
<1>5. Max(K) \in K /\ \A i \in K : i <= Max(K)
    BY <1>1, MaxFacts
<1> DEFINE m == Max(K)
<1>6. m \in K /\ m \in Nat /\ (\A i \in K : i <= m) /\ m = Max(K)
    BY <1>1, <1>5
<1> HIDE DEF m
<1>7. \A i \in m + 1 .. Len(s) : s[i] \in set
    BY <1>1, <1>2, <1>6
<1>8. m \in 0 .. Len(s) /\ (m > 0 => s[m] \notin set)
    BY <1>1, <1>3, <1>6
<1> QED BY <1>4, <1>6, <1>7, <1>8
-----------------------------------------------------------------------------
(* Lengths *)

\* A set moved along the integers has as many members.
LEMMA ShiftedSet ==
    ASSUME NEW T \in SUBSET Int, IsFiniteSet(T), NEW U \in SUBSET Int, NEW d \in Int,
           \A i \in T : i + d \in U, \A u \in U : u - d \in T
    PROVE  IsFiniteSet(U) /\ Cardinality(U) = Cardinality(T)
<1> DEFINE f == [i \in T |-> i + d]
<1>1. f \in [T -> U]
    OBVIOUS
<1>2. \A u \in U : \E i \in T : f[i] = u
    <2> SUFFICES ASSUME NEW u \in U PROVE f[u - d] = u /\ u - d \in T
        OBVIOUS
    <2> QED OBVIOUS
<1>3. \A i, j \in T : f[i] = f[j] => i = j
    OBVIOUS
<1> HIDE DEF f
<1>4. f \in Surjection(T, U) /\ f \in Injection(T, U)
    BY <1>1, <1>2, <1>3 DEF Surjection, Injection, IsInjective
<1> QED BY <1>4, FS_Surjection

\* Fences can be counted, so a string has a length.
LEMMA FencesAreFinite ==
    ASSUME NEW S, NEW s \in Seq(S)
    PROVE  /\ Fences(s) \in SUBSET Nat /\ IsFiniteSet(Fences(s)) /\ Cardinality(Fences(s)) \in Nat
           /\ RealLen(s) \in Int
           /\ Fences(s) = {} => RealLen(s) = Len(s)
<1>1. Fences(s) \in SUBSET (1 .. Len(s)) /\ Len(s) \in Nat
    BY DEF Fences
<1>2. IsFiniteSet(1 .. Len(s))
    BY <1>1, FS_Interval
<1>3. IsFiniteSet(Fences(s))
    BY <1>1, <1>2, FS_Subset
<1>4. Cardinality(Fences(s)) \in Nat
    BY <1>3, FS_CardinalityType
<1>5. Fences(s) = {} => Cardinality(Fences(s)) = 0
    BY FS_EmptySet
<1>6. FenceLen - 2 \in Int
    BY LengthAssumption
<1> QED BY <1>1, <1>3, <1>4, <1>5, <1>6 DEF RealLen

\* Blanks that are cut off at the ends are no part of a fence.
LEMMA FencesOfPart ==
    ASSUME NEW S, NEW s \in Seq(S), NEW a \in 1 .. Len(s) + 1, NEW b \in 0 .. Len(s),
           \A i \in 1 .. Len(s) : i < a \/ i > b => s[i] \in Blank
    PROVE  /\ Fences(s) = {i + (a - 1) : i \in Fences(SubSeq(s, a, b))}
           /\ RealLen(SubSeq(s, a, b)) <= RealLen(s)
<1> DEFINE p == SubSeq(s, a, b)
<1>1. /\ p \in Seq(S) /\ Len(p) = (IF a <= b THEN b - a + 1 ELSE 0)
      /\ \A i \in 1 .. Len(p) : p[i] = s[a + i - 1]
    BY PartOfString
<1>2. a \in Int /\ b \in Int /\ Len(s) \in Nat /\ Len(p) \in Nat /\ Len(p) <= Len(s)
    BY <1>1
<1> HIDE DEF p
<1>3. \A i \in Fences(p) : i + (a - 1) \in Fences(s)
    BY <1>1, <1>2 DEF Fences
<1>4. ASSUME NEW j \in Fences(s) PROVE j - (a - 1) \in Fences(p)
    <2>1. j \in 1 .. Len(s) - 1 /\ s[j] = "<" /\ s[j + 1] = ">"
        BY DEF Fences
    <2>2. s[j] \notin Blank /\ s[j + 1] \notin Blank
        BY <2>1 DEF Blank
    <2>3. a <= j /\ j + 1 <= b
        BY <1>2, <2>1, <2>2
    <2>4. j - (a - 1) \in 1 .. Len(p) - 1
        BY <1>1, <1>2, <2>1, <2>3
    <2>5. p[j - (a - 1)] = s[j] /\ p[j - (a - 1) + 1] = s[j + 1]
        BY <1>1, <1>2, <2>1, <2>4
    <2> QED BY <2>1, <2>4, <2>5 DEF Fences
<1>5. Fences(s) \in SUBSET Nat /\ Fences(p) \in SUBSET Nat /\ IsFiniteSet(Fences(p))
    BY <1>1, FencesAreFinite
<1>6. Fences(s) = {i + (a - 1) : i \in Fences(p)}
    BY <1>2, <1>3, <1>4, <1>5
<1>7. Cardinality(Fences(s)) = Cardinality(Fences(p))
    <2>1. a - 1 \in Int /\ Fences(s) \in SUBSET Int /\ Fences(p) \in SUBSET Int
        BY <1>2, <1>5
    <2> QED BY <1>3, <1>4, <1>5, <2>1, ShiftedSet
<1>8. RealLen(p) <= RealLen(s)
    <2> DEFINE extra == Cardinality(Fences(s)) * (FenceLen - 2)
    <2>1. extra \in Int
        BY FencesAreFinite, LengthAssumption
    <2>2. RealLen(s) = Len(s) + extra /\ RealLen(p) = Len(p) + extra
        BY <1>7 DEF RealLen
    <2> HIDE DEF extra
    <2> QED BY <1>2, <2>1, <2>2
<1> QED BY <1>6, <1>8 DEF p

\* Stripping never makes a string longer.
LEMMA StripShortens ==
    ASSUME NEW S, NEW s \in Seq(S)
    PROVE  /\ RightStrip(s, Blank) \in Seq(S) /\ RealLen(RightStrip(s, Blank)) <= RealLen(s)
           /\ Strip(s) \in Seq(S) /\ RealLen(Strip(s)) <= RealLen(s)
<1>1. ASSUME NEW t \in Seq(S)
      PROVE  RightStrip(t, Blank) \in Seq(S) /\ RealLen(RightStrip(t, Blank)) <= RealLen(t)
    <2>1. PICK k \in 0 .. Len(t) : /\ RightStrip(t, Blank) = SubSeq(t, 1, k)
                                   /\ \A i \in k + 1 .. Len(t) : t[i] \in Blank
        BY RightStripFacts
    <2>2. 1 \in 1 .. Len(t) + 1
        OBVIOUS
    <2>3. \A i \in 1 .. Len(t) : i < 1 \/ i > k => t[i] \in Blank
        BY <2>1
    <2>4. SubSeq(t, 1, k) \in Seq(S)
        BY <2>2, PartOfString
    <2>5. RealLen(SubSeq(t, 1, k)) <= RealLen(t)
        BY <2>2, <2>3, FencesOfPart
    <2> QED BY <2>1, <2>4, <2>5
<1>2. LeftStrip(s, Blank) \in Seq(S) /\ RealLen(LeftStrip(s, Blank)) <= RealLen(s)
    <2>1. PICK k \in 1 .. Len(s) + 1 : /\ LeftStrip(s, Blank) = SubSeq(s, k, Len(s))
                                       /\ \A i \in 1 .. k - 1 : s[i] \in Blank
        BY LeftStripFacts
    <2>2. Len(s) \in 0 .. Len(s)
        OBVIOUS
    <2>3. \A i \in 1 .. Len(s) : i < k \/ i > Len(s) => s[i] \in Blank
        BY <2>1
    <2>4. SubSeq(s, k, Len(s)) \in Seq(S)
        BY <2>2, PartOfString
    <2>5. RealLen(SubSeq(s, k, Len(s))) <= RealLen(s)
        BY <2>2, <2>3, FencesOfPart
    <2> QED BY <2>1, <2>4, <2>5
<1>3. Strip(s) \in Seq(S) /\ RealLen(Strip(s)) <= RealLen(LeftStrip(s, Blank))
    BY <1>1, <1>2 DEF Strip
<1>4. {RealLen(s), RealLen(LeftStrip(s, Blank)), RealLen(Strip(s))} \subseteq Int
    BY <1>2, <1>3, FencesAreFinite
<1> QED BY <1>1, <1>2, <1>3, <1>4

\* Joined by a blank line, strings have their lengths and two.
LEMMA JoinedLength ==
    ASSUME NEW S, NEW s \in Seq(S), NEW t \in Seq(S), "n" \in S
    PROVE  /\ s \o <<"n", "n">> \o t \in Seq(S)
           /\ RealLen(s \o <<"n", "n">> \o t) = RealLen(s) + 2 + RealLen(t)
<1> DEFINE j == s \o <<"n", "n">> \o t
           d == Len(s) + 2
           T == {i + d : i \in Fences(t)}
<1>1. /\ j \in Seq(S) /\ Len(j) = Len(s) + 2 + Len(t)
      /\ \A i \in 1 .. Len(s) : j[i] = s[i]
      /\ j[Len(s) + 1] = "n" /\ j[Len(s) + 2] = "n"
      /\ \A i \in 1 .. Len(t) : j[i + d] = t[i]
    OBVIOUS
<1>2. Len(s) \in Nat /\ Len(t) \in Nat /\ d \in Nat
    OBVIOUS
<1> HIDE DEF j
<1>3. \A i \in Fences(s) : i \in Fences(j)
    <2> SUFFICES ASSUME NEW i \in Fences(s) PROVE i \in Fences(j)
        OBVIOUS
    <2>1. i \in 1 .. Len(s) - 1 /\ s[i] = "<" /\ s[i + 1] = ">"
        BY DEF Fences
    <2>2. i \in 1 .. Len(j) - 1 /\ j[i] = s[i] /\ j[i + 1] = s[i + 1]
        BY <1>1, <1>2, <2>1
    <2> QED BY <2>1, <2>2 DEF Fences
<1>4. \A i \in Fences(t) : i + d \in Fences(j)
    <2> SUFFICES ASSUME NEW i \in Fences(t) PROVE i + d \in Fences(j)
        OBVIOUS
    <2>1. i \in 1 .. Len(t) - 1 /\ t[i] = "<" /\ t[i + 1] = ">"
        BY DEF Fences
    <2>2. i + d \in 1 .. Len(j) - 1 /\ j[i + d] = t[i] /\ j[i + 1 + d] = t[i + 1] /\ i + 1 + d = i + d + 1
        BY <1>1, <1>2, <2>1
    <2> QED BY <2>1, <2>2 DEF Fences
<1>5. \A i \in Fences(j) : i \in Fences(s) \/ i - d \in Fences(t)
    <2> SUFFICES ASSUME NEW i \in Fences(j) PROVE i \in Fences(s) \/ i - d \in Fences(t)
        OBVIOUS
    <2>1. i \in 1 .. Len(s) + 1 + Len(t) /\ j[i] = "<" /\ j[i + 1] = ">"
        BY <1>1, <1>2 DEF Fences
    <2>2. i \notin {Len(s), Len(s) + 1, Len(s) + 2}
        BY <1>1, <1>2, <2>1
    <2>3. CASE i < Len(s)
        <3>1. i \in 1 .. Len(s) - 1 /\ s[i] = "<" /\ s[i + 1] = ">"
            BY <1>1, <1>2, <2>1, <2>3
        <3> QED BY <3>1 DEF Fences
    <2>4. CASE i > d
        <3>1. i - d \in 1 .. Len(t) - 1 /\ i - d \in 1 .. Len(t) /\ i - d + 1 \in 1 .. Len(t)
            BY <1>2, <2>1, <2>4
        <3>2. t[i - d] = j[i - d + d] /\ t[i - d + 1] = j[i - d + 1 + d]
            BY <1>1, <3>1
        <3>3. i - d + d = i /\ i - d + 1 + d = i + 1
            BY <1>2, <2>1
        <3> QED BY <2>1, <3>1, <3>2, <3>3 DEF Fences
    <2> QED BY <1>2, <2>1, <2>2, <2>3, <2>4
<1>6. /\ Fences(s) \in SUBSET Nat /\ IsFiniteSet(Fences(s)) /\ Cardinality(Fences(s)) \in Nat
      /\ Fences(t) \in SUBSET Nat /\ IsFiniteSet(Fences(t)) /\ Cardinality(Fences(t)) \in Nat
      /\ Fences(j) \in SUBSET Nat
    BY <1>1, FencesAreFinite
<1>7. Fences(j) = Fences(s) \cup T
    BY <1>2, <1>3, <1>4, <1>5, <1>6
<1>8. Fences(s) \cap T = {}
    <2>1. \A i \in Fences(s) : i <= Len(s)
        BY <1>2 DEF Fences
    <2> QED BY <1>2, <1>6, <2>1
<1>9. IsFiniteSet(T) /\ Cardinality(T) = Cardinality(Fences(t))
    <2>1. T \in SUBSET Int /\ Fences(t) \in SUBSET Int /\ d \in Int
        BY <1>2, <1>6
    <2>2. (\A i \in Fences(t) : i + d \in T) /\ (\A u \in T : u - d \in Fences(t))
        BY <1>2, <1>6
    <2> HIDE DEF T, d
    <2> QED BY <1>6, <2>1, <2>2, ShiftedSet
<1> HIDE DEF T
<1>10. Cardinality(Fences(j)) = Cardinality(Fences(s)) + Cardinality(Fences(t))
    <2>1. Cardinality(Fences(s) \cup T) = Cardinality(Fences(s)) + Cardinality(T) - Cardinality({})
        BY <1>6, <1>8, <1>9, FS_Union
    <2> QED BY <1>6, <1>7, <1>9, <2>1, FS_EmptySet
<1>11. RealLen(j) = RealLen(s) + 2 + RealLen(t)
    <2> DEFINE m == Cardinality(Fences(s))
               n == Cardinality(Fences(t))
               f == FenceLen - 2
    <2>1. m \in Nat /\ n \in Nat /\ f \in Int
        BY <1>6, LengthAssumption
    <2>2. /\ RealLen(s) = Len(s) + m * f /\ RealLen(t) = Len(t) + n * f
          /\ RealLen(j) = Len(s) + 2 + Len(t) + (m + n) * f
        BY <1>1, <1>10 DEF RealLen
    <2> HIDE DEF m, n, f
    <2>3. (m + n) * f = m * f + n * f /\ m * f \in Int /\ n * f \in Int
        BY <2>1
    <2> QED BY <1>2, <2>2, <2>3
<1> QED BY <1>1, <1>11 DEF j

\* What strip leaves is no longer, and one paragraph if it was.
LEMMA StripParts ==
    ASSUME NEW S, NEW s \in Seq(S)
    PROVE  /\ Len(RightStrip(s, Blank)) <= Len(s) /\ Len(Strip(s)) <= Len(s)
           /\ OneParagraph(s) => OneParagraph(RightStrip(s, Blank)) /\ OneParagraph(Strip(s))
<1>1. ASSUME NEW t \in Seq(S)
      PROVE  /\ Len(RightStrip(t, Blank)) <= Len(t)
             /\ OneParagraph(t) => OneParagraph(RightStrip(t, Blank))
    <2>1. PICK k \in 0 .. Len(t) : RightStrip(t, Blank) = SubSeq(t, 1, k)
        BY RightStripFacts
    <2>2. 1 \in 1 .. Len(t) + 1
        OBVIOUS
    <2>3. Len(SubSeq(t, 1, k)) = (IF 1 <= k THEN k - 1 + 1 ELSE 0)
        BY <2>2, PartOfString
    <2>4. Len(SubSeq(t, 1, k)) <= Len(t)
        BY <2>3
    <2>5. OneParagraph(t) => OneParagraph(SubSeq(t, 1, k))
        BY <2>2, PartOfParagraph
    <2> QED BY <2>1, <2>4, <2>5
<1>2. /\ LeftStrip(s, Blank) \in Seq(S) /\ Len(LeftStrip(s, Blank)) <= Len(s)
      /\ OneParagraph(s) => OneParagraph(LeftStrip(s, Blank))
    <2>1. PICK k \in 1 .. Len(s) + 1 : LeftStrip(s, Blank) = SubSeq(s, k, Len(s))
        BY LeftStripFacts
    <2>2. Len(s) \in 0 .. Len(s)
        OBVIOUS
    <2>3. /\ SubSeq(s, k, Len(s)) \in Seq(S)
          /\ Len(SubSeq(s, k, Len(s))) = (IF k <= Len(s) THEN Len(s) - k + 1 ELSE 0)
        BY <2>2, PartOfString
    <2>4. Len(SubSeq(s, k, Len(s))) <= Len(s)
        BY <2>3
    <2>5. OneParagraph(s) => OneParagraph(SubSeq(s, k, Len(s)))
        BY <2>2, PartOfParagraph
    <2> QED BY <2>1, <2>3, <2>4, <2>5
<1>3. PICK u \in Seq(S) : u = LeftStrip(s, Blank)
    BY <1>2
<1>4. Len(RightStrip(u, Blank)) <= Len(u) /\ (OneParagraph(u) => OneParagraph(RightStrip(u, Blank)))
    BY <1>1
<1>5. RightStrip(u, Blank) \in Seq(S)
    BY <1>3, StripShortens
<1>6. Strip(s) = RightStrip(u, Blank)
    BY <1>3 DEF Strip
<1> QED BY <1>1, <1>2, <1>3, <1>4, <1>5, <1>6
-----------------------------------------------------------------------------
(* Sections *)

\* The next heading, or the end of the text.
LEMMA NextHeadFacts ==
    ASSUME text \in Seq(Alphabet), NEW i \in 0 .. Len(text)
    PROVE  /\ NextHead(i) \in HeadsOf(text) \cup {Len(text) + 1}
           /\ NextHead(i) \in i + 1 .. Len(text) + 1
           /\ \A j \in HeadsOf(text) : j > i => j >= NextHead(i)
<1> DEFINE K == {j \in HeadsOf(text) : j > i} \cup {Len(text) + 1}
<1>1. /\ K \in SUBSET Nat /\ K # {} /\ Len(text) \in Nat
      /\ K \subseteq i + 1 .. Len(text) + 1 /\ K \subseteq HeadsOf(text) \cup {Len(text) + 1}
      /\ \A j \in HeadsOf(text) : j > i => j \in K
    BY DEF HeadsOf
<1>2. NextHead(i) = Min(K)
    BY DEF NextHead
<1> HIDE DEF K
<1>3. Min(K) \in K /\ \A j \in K : Min(K) <= j
    BY <1>1, MinFacts
<1> DEFINE m == Min(K)
<1>4. m \in K /\ \A j \in K : m <= j
    BY <1>3
<1> HIDE DEF m
<1>5. \A j \in HeadsOf(text) : j > i => j >= m
    BY <1>1, <1>4
<1>6. NextHead(i) = m
    BY <1>2 DEF m
<1> QED BY <1>1, <1>4, <1>5, <1>6

LEMMA BodyIsPart ==
    ASSUME text \in Seq(Alphabet), NEW i \in 0 .. Len(text)
    PROVE  Body(text, i) = SubSeq(text, i + 1, NextHead(i) - 1) /\ Body(text, i) \in Seq(Alphabet)
<1>1. Body(text, i) = SubSeq(text, i + 1, NextHead(i) - 1)
    BY DEF Body, NextHead
<1>2. i + 1 \in 1 .. Len(text) + 1 /\ NextHead(i) - 1 \in 0 .. Len(text)
    BY NextHeadFacts
<1> QED BY <1>1, <1>2, PartOfString

\* The stack under which a section stands: some of the one before, its
\* heading last.
LEMMA PushFacts ==
    ASSUME text \in Seq(Alphabet), stack \in Seq(Nat), NEW i \in HeadsOf(text)
    PROVE  \E k \in 0 .. Len(stack) :
               /\ k = IF Level(text[i]) - 1 <= Len(stack) THEN Level(text[i]) - 1 ELSE Len(stack)
               /\ Push(i) \in Seq(Nat) /\ Len(Push(i)) = k + 1
               /\ \A n \in 1 .. k : Push(i)[n] = stack[n]
               /\ Push(i)[k + 1] = i
<1>1. i \in Nat \ {0} /\ text[i] \in Headers
    BY DEF HeadsOf
<1>2. Level(text[i]) \in 1 .. 3
    BY <1>1 DEF Headers, Level
<1> DEFINE l == Level(text[i]) - 1
           k == IF l <= Len(stack) THEN l ELSE Len(stack)
<1>3. l \in Nat /\ Len(stack) \in Nat
    BY <1>2
<1> HIDE DEF l
<1>4. k \in 0 .. Len(stack) /\ k \in {l, Len(stack)} /\ \A j \in {l, Len(stack)} : k <= j
    BY <1>3
<1>5. Min({l, Len(stack)}) = k
    <2> HIDE DEF k
    <2>1. /\ Min({l, Len(stack)}) \in {l, Len(stack)}
          /\ \A j \in {l, Len(stack)} : Min({l, Len(stack)}) <= j
        BY <1>3, MinFacts
    <2> DEFINE m == Min({l, Len(stack)})
    <2>2. m \in {l, Len(stack)} /\ m <= k /\ k <= m
        BY <1>4, <2>1
    <2> HIDE DEF m
    <2>3. m = k
        BY <1>3, <1>4, <2>2
    <2> QED BY <2>3 DEF m
<1> HIDE DEF k
<1>6. Push(i) = Append(SubSeq(stack, 1, k), i)
    BY <1>1, <1>5 DEF Push, l
<1> DEFINE p == SubSeq(stack, 1, k)
<1>7. p \in Seq(Nat) /\ Len(p) = k /\ \A n \in 1 .. k : p[n] = stack[n]
    BY <1>4
<1> HIDE DEF p
<1>8. Append(p, i) \in Seq(Nat) /\ Len(Append(p, i)) = k + 1
      /\ (\A n \in 1 .. k : Append(p, i)[n] = stack[n]) /\ Append(p, i)[k + 1] = i
    BY <1>1, <1>4, <1>7
<1>9. Push(i) = Append(p, i)
    BY <1>6 DEF p
<1> QED BY <1>4, <1>8, <1>9 DEF k, l
-----------------------------------------------------------------------------
(* Chunks fit *)

\* The budget under a crumb, and the room a piece has, which is never zero.
LEMMA BudgetFacts ==
    ASSUME NEW crumb \in Seq(Nat)
    PROVE  /\ PrefixLen(crumb) \in Nat /\ Budget(crumb) \in Int /\ MaxChars \in Nat \ {0}
           /\ Budget(crumb) = MaxChars - PrefixLen(crumb)
           /\ Room(crumb) \in Nat \ {0}
           /\ Budget(crumb) > 0 => Room(crumb) = Budget(crumb)
           /\ Budget(crumb) <= 0 => Room(crumb) = MaxChars
<1>1. MaxChars \in Nat \ {0} /\ HeaderLen + 1 \in Nat /\ Len(crumb) \in Nat
    BY LengthAssumption
<1>2. PrefixLen(crumb) \in Nat
    BY <1>1 DEF PrefixLen
<1> QED BY <1>1, <1>2 DEF Budget, Room

\* Whatever fills a chunk for one of the reasons given, the chunk fits.
LEMMA PutFits ==
    ASSUME NEW crumb \in Seq(Nat), NEW body \in Seq(Alphabet),
           chunks \in Seq(Chunk), ChunksFit,
           \/ RealLen(body) <= Budget(crumb)
           \/ Budget(crumb) <= 0
           \/ body = <<>>
           \/ Len(body) <= Budget(crumb) /\ OneParagraph(body)
    PROVE  /\ Put(crumb, body) \in Seq(Chunk)
           /\ \A n \in DOMAIN Put(crumb, body) : Fits(Put(crumb, body)[n])
<1> DEFINE b == IF crumb = <<>> THEN Strip(body) ELSE RightStrip(body, Blank)
           c == [crumb |-> crumb, body |-> b]
<1>1. /\ b \in Seq(Alphabet) /\ RealLen(b) <= RealLen(body) /\ Len(b) <= Len(body)
      /\ OneParagraph(body) => OneParagraph(b)
    BY StripShortens, StripParts
<1>2. Put(crumb, body) \in {chunks, Append(chunks, c)}
    BY DEF Put
<1>3. c.crumb = crumb /\ c.body = b /\ (b \in Seq(Alphabet) => c \in Chunk)
    BY DEF Chunk
<1> HIDE DEF b
<1>4. c \in Chunk
    BY <1>1, <1>3
<1>5. /\ RealLen(b) \in Int /\ RealLen(body) \in Int /\ Len(b) \in Nat /\ Len(body) \in Nat
      /\ Fences(b) = {} => RealLen(b) = Len(b)
    BY <1>1, FencesAreFinite
<1>6. PrefixLen(crumb) \in Nat /\ MaxChars \in Nat /\ Budget(crumb) \in Int /\ Budget(crumb) = MaxChars - PrefixLen(crumb)
    BY BudgetFacts
<1>7. \/ PrefixLen(crumb) + RealLen(b) <= MaxChars
      \/ Budget(crumb) <= 0
      \/ b = <<>>
      \/ Fences(b) # {} /\ Breaks(b) = {}
    <2>1. CASE RealLen(body) <= Budget(crumb)
        BY <1>1, <1>5, <1>6, <2>1
    <2>2. CASE Budget(crumb) <= 0
        BY <2>2
    <2>3. CASE body = <<>>
        <3>1. Len(b) = 0
            BY <1>1, <1>5, <2>3
        <3> QED BY <1>1, <3>1
    <2>4. CASE Len(body) <= Budget(crumb) /\ OneParagraph(body)
        <3>1. Breaks(b) = {}
            BY <1>1, <2>4 DEF OneParagraph
        <3>2. CASE Fences(b) = {}
            BY <1>1, <1>5, <1>6, <2>4, <3>2
        <3> QED BY <3>1, <3>2
    <2> QED BY <2>1, <2>2, <2>3, <2>4
<1>8. Fits(c)
    BY <1>3, <1>7 DEF Fits
<1> HIDE DEF c
<1>9. \A n \in DOMAIN chunks : Fits(chunks[n])
    BY DEF ChunksFit
<1>10. Append(chunks, c) \in Seq(Chunk) /\ \A n \in DOMAIN Append(chunks, c) : Fits(Append(chunks, c)[n])
    <2>1. /\ Append(chunks, c) \in Seq(Chunk) /\ DOMAIN Append(chunks, c) = 1 .. Len(chunks) + 1
          /\ \A n \in 1 .. Len(chunks) : Append(chunks, c)[n] = chunks[n]
          /\ Append(chunks, c)[Len(chunks) + 1] = c
        BY <1>4
    <2> QED BY <1>8, <1>9, <2>1
<1> QED BY <1>2, <1>9, <1>10

\* What a section to enter has: a place, a crumb, a body.
LEMMA EnterFacts ==
    ASSUME ChunkTypes, Enter
    PROVE  /\ next \in 0 .. Len(text) /\ Push(next) \in Seq(Nat)
           /\ next' \in HeadsOf(text) \cup {Len(text) + 1} /\ next' > next
           /\ Body(text, next) \in Seq(Alphabet) /\ Strip(Body(text, next)) \in Seq(Alphabet)
<1>1. next \in 0 .. Len(text) /\ next \in HeadsOf(text) \cup {0}
    BY DEF ChunkTypes, Enter, HeadsOf
<1>2. next' = NextHead(next) /\ text \in Seq(Alphabet) /\ stack \in Seq(Nat)
    BY DEF ChunkTypes, Enter
<1>3. next' \in HeadsOf(text) \cup {Len(text) + 1} /\ next' > next
    BY <1>1, <1>2, NextHeadFacts
<1>4. Push(next) \in Seq(Nat)
    <2>1. CASE next = 0
        BY <1>2, <2>1 DEF Push
    <2>2. CASE next \in HeadsOf(text)
        BY <1>2, <2>2, PushFacts
    <2> QED BY <1>1, <2>1, <2>2
<1>5. Body(text, next) \in Seq(Alphabet)
    BY <1>1, <1>2, BodyIsPart
<1>6. Strip(Body(text, next)) \in Seq(Alphabet)
    BY <1>5, StripShortens
<1> QED BY <1>1, <1>3, <1>4, <1>5, <1>6

\* The first paragraph of a string, and what follows it.
LEMMA ParagraphFacts ==
    ASSUME tail \in Seq(Alphabet)
    PROVE  /\ ParagraphEnd(tail) \in 0 .. Len(tail)
           /\ ParagraphEnd(tail) < Len(tail) => tail[ParagraphEnd(tail) + 1] = "n"
           /\ Paragraph \in Seq(Alphabet) /\ OneParagraph(Paragraph)
           /\ SubSeq(tail, ParagraphEnd(tail) + 1, Len(tail)) \in Seq(Alphabet)
           /\ LeftStrip(SubSeq(tail, ParagraphEnd(tail) + 1, Len(tail)), {"n"}) \in Seq(Alphabet)
<1> DEFINE K == Breaks(tail) \cup {Len(tail) + 1}
<1>1. /\ K \in SUBSET Nat /\ K # {} /\ K \subseteq 1 .. Len(tail) + 1 /\ Len(tail) \in Nat
      /\ Breaks(tail) \subseteq K
      /\ \A i \in K : i <= Len(tail) => tail[i] = "n"
    BY DEF Breaks
<1>2. ParagraphEnd(tail) = Min(K) - 1
    BY DEF ParagraphEnd
<1> HIDE DEF K
<1>3. Min(K) \in K /\ \A j \in K : Min(K) <= j
    BY <1>1, MinFacts
<1> DEFINE e == Min(K) - 1
<1>4. /\ e \in 0 .. Len(tail) /\ \A i \in Breaks(tail) : e < i
      /\ e < Len(tail) => tail[e + 1] = "n"
    <2> DEFINE m == Min(K)
    <2>1. m \in K /\ \A j \in K : m <= j
        BY <1>3
    <2>2. e = m - 1
        OBVIOUS
    <2> HIDE DEF m, e
    <2>3. m \in 1 .. Len(tail) + 1 /\ e \in 0 .. Len(tail)
        BY <1>1, <2>1, <2>2
    <2>5. ASSUME NEW i \in Breaks(tail) PROVE e < i
        <3>1. i \in K /\ i \in Nat
            BY <1>1
        <3> QED BY <2>1, <2>2, <2>3, <3>1
    <2>4. e + 1 = m /\ (e < Len(tail) => m <= Len(tail))
        BY <1>1, <2>1, <2>2
    <2> QED BY <1>1, <2>1, <2>3, <2>4, <2>5
<1>5. ParagraphEnd(tail) = e
    BY <1>2
<1> HIDE DEF e
<1>6. 1 \in 1 .. Len(tail) + 1 /\ e + 1 \in 1 .. Len(tail) + 1 /\ Len(tail) \in 0 .. Len(tail)
    BY <1>1, <1>4
<1> DEFINE p == SubSeq(tail, 1, e)
           q == SubSeq(tail, e + 1, Len(tail))
<1>7. p \in Seq(Alphabet) /\ Len(p) = (IF 1 <= e THEN e - 1 + 1 ELSE 0) /\ \A i \in 1 .. Len(p) : p[i] = tail[1 + i - 1]
    BY <1>4, <1>6, PartOfString
<1>8. q \in Seq(Alphabet)
    BY <1>4, <1>6, PartOfString
<1>9. Paragraph = p
    BY <1>5 DEF Paragraph
<1>10. SubSeq(tail, ParagraphEnd(tail) + 1, Len(tail)) = q
    BY <1>5
<1> HIDE DEF p, q
<1>11. OneParagraph(p)
    <2> SUFFICES ASSUME NEW i \in 1 .. Len(p) - 1, p[i] = "n", p[i + 1] = "n"
                 PROVE  FALSE
        BY DEF OneParagraph, Breaks
    <2>1. Len(p) = e /\ i \in 1 .. Len(p) /\ i + 1 \in 1 .. Len(p) /\ i < e /\ i \in Nat
        BY <1>1, <1>4, <1>7
    <2>2. p[i] = tail[i] /\ p[i + 1] = tail[i + 1]
        BY <1>7, <2>1
    <2>3. i \in Breaks(tail)
        BY <1>1, <1>4, <2>1, <2>2 DEF Breaks
    <2> QED BY <1>1, <1>4, <2>1, <2>3
<1>12. LeftStrip(q, {"n"}) \in Seq(Alphabet)
    <2>1. PICK k \in 1 .. Len(q) + 1 : LeftStrip(q, {"n"}) = SubSeq(q, k, Len(q))
        BY <1>8, LeftStripFacts
    <2>2. Len(q) \in 0 .. Len(q)
        BY <1>8
    <2> QED BY <1>8, <2>1, <2>2, PartOfString
<1> QED BY <1>4, <1>5, <1>7, <1>8, <1>9, <1>10, <1>11, <1>12

\* The next lemmas: one per action, that FitInv holds after it.
LEMMA FlushFits ==
    ASSUME FitInv
    PROVE  Flush \in Seq(Chunk) /\ \A n \in DOMAIN Flush : Fits(Flush[n])
<1>1. /\ chunks \in Seq(Chunk) /\ ChunksFit /\ stack \in Seq(Nat) /\ joined \in Seq(Alphabet)
      /\ joined # <<>> => RealLen(joined) <= Budget(stack)
    BY DEF FitInv, ChunkTypes, Pieces
<1>2. CASE joined = <<>>
    BY <1>1, <1>2 DEF Flush, ChunksFit
<1>3. CASE joined # <<>>
    <2>1. /\ Put(stack, joined) \in Seq(Chunk)
          /\ \A n \in DOMAIN Put(stack, joined) : Fits(Put(stack, joined)[n])
        BY <1>1, <1>3, PutFits
    <2> QED BY <1>3, <2>1 DEF Flush
<1> QED BY <1>2, <1>3

LEMMA TakeWholeFits ==
    ASSUME FitInv, TakeWhole
    PROVE  FitInv'
<1>1. ChunkTypes /\ Pieces /\ ChunksFit /\ Enter
    BY DEF FitInv, TakeWhole
<1> DEFINE crumb == Push(next)
           body == Strip(Body(text, next))
<1>2. /\ crumb \in Seq(Nat) /\ body \in Seq(Alphabet)
      /\ next' \in HeadsOf(text) \cup {Len(text) + 1}
    BY <1>1, EnterFacts
<1>3. Whole(crumb, body) /\ chunks' = Put(crumb, body) /\ stack' = crumb
      /\ UNCHANGED <<phase, tail, rest, text, joined, size>> /\ phase = "sections"
    BY DEF TakeWhole, Enter
<1> HIDE DEF crumb, body
<1>4. \/ RealLen(body) <= Budget(crumb)
      \/ Budget(crumb) <= 0
      \/ body = <<>>
      \/ Len(body) <= Budget(crumb) /\ OneParagraph(body)
    <2>1. RealLen(body) \in Int
        BY <1>2, FencesAreFinite
    <2>2. PrefixLen(crumb) \in Nat /\ MaxChars \in Nat /\ Budget(crumb) = MaxChars - PrefixLen(crumb)
        BY <1>2, BudgetFacts
    <2> QED BY <1>3, <2>1, <2>2 DEF Whole
<1>5. chunks \in Seq(Chunk)
    BY <1>1 DEF ChunkTypes
<1>6. chunks' \in Seq(Chunk) /\ \A n \in DOMAIN chunks' : Fits(chunks'[n])
    BY <1>1, <1>2, <1>3, <1>4, <1>5, PutFits
<1>7. ChunkTypes'
    BY <1>1, <1>2, <1>3, <1>6 DEF ChunkTypes, HeadsOf
<1>8. Pieces'
    BY <1>1, <1>3 DEF Pieces
<1> QED BY <1>6, <1>7, <1>8 DEF FitInv, ChunksFit

LEMMA TakePartsFit ==
    ASSUME FitInv, TakeWords \/ TakeParagraphs
    PROVE  FitInv'
<1>1. ChunkTypes /\ Pieces /\ ChunksFit /\ Enter
    BY DEF FitInv, TakeWords, TakeParagraphs
<1>2. /\ Push(next) \in Seq(Nat) /\ Strip(Body(text, next)) \in Seq(Alphabet)
      /\ next' \in HeadsOf(text) \cup {Len(text) + 1}
    BY <1>1, EnterFacts
<1>3. /\ stack' = Push(next) /\ phase = "sections" /\ UNCHANGED <<text, joined, size, chunks>>
      /\ \/ phase' = "words" /\ Budget(stack') <= 0 /\ rest' = Strip(Body(text, next)) /\ tail' = tail
         \/ phase' = "paragraphs" /\ Budget(stack') > 0 /\ tail' = Strip(Body(text, next)) /\ rest' = rest
    BY DEF TakeWords, TakeParagraphs, Enter
<1>4. joined = <<>> /\ tail = <<>>
    BY <1>1, <1>3 DEF Pieces
<1>5. ChunkTypes'
    BY <1>1, <1>2, <1>3 DEF ChunkTypes, HeadsOf
<1>6. Budget(stack') \in Int
    BY <1>2, <1>3, BudgetFacts
<1>7. Pieces'
    BY <1>3, <1>4, <1>6 DEF Pieces
<1> QED BY <1>1, <1>3, <1>5, <1>7 DEF FitInv, ChunksFit

LEMMA AdvanceFits ==
    ASSUME FitInv, SkipBlank \/ CutParagraph \/ StartPiece \/ JoinParagraph
    PROVE  FitInv'
<1>1. ChunkTypes /\ Pieces /\ ChunksFit /\ Advance
    BY DEF FitInv, SkipBlank, CutParagraph, StartPiece, JoinParagraph
<1>2. /\ phase = "paragraphs" /\ tail # <<>> /\ UNCHANGED <<text, next, stack>>
      /\ tail' = LeftStrip(SubSeq(tail, ParagraphEnd(tail) + 1, Len(tail)), {"n"})
    BY <1>1 DEF Advance
<1>3. tail \in Seq(Alphabet) /\ joined \in Seq(Alphabet) /\ stack \in Seq(Nat) /\ size \in Int
    BY <1>1 DEF ChunkTypes
<1>4. Paragraph \in Seq(Alphabet) /\ OneParagraph(Paragraph) /\ tail' \in Seq(Alphabet)
    BY <1>2, <1>3, ParagraphFacts
<1>5. ParaLen = RealLen(Paragraph) /\ ParaLen \in Int
    BY <1>4, FencesAreFinite DEF ParaLen
<1>6. Budget(stack) \in Int /\ Budget(stack) > 0
    BY <1>1, <1>2, <1>3, BudgetFacts DEF Pieces
<1>7. Flush \in Seq(Chunk) /\ \A n \in DOMAIN Flush : Fits(Flush[n])
    BY FlushFits
<1>8. CASE SkipBlank
    <2>1. UNCHANGED <<chunks, phase, joined, size, rest>>
        BY <1>8 DEF SkipBlank
    <2>2. ChunkTypes'
        BY <1>1, <1>2, <1>4, <2>1 DEF ChunkTypes, HeadsOf
    <2>3. Pieces'
        BY <1>1, <1>2, <1>6, <2>1 DEF Pieces
    <2> QED BY <1>1, <2>1, <2>2, <2>3 DEF FitInv, ChunksFit
<1>9. CASE CutParagraph
    <2>1. chunks' = Flush /\ joined' = <<>> /\ size' = 0 /\ rest' = Paragraph /\ phase' = "words"
        BY <1>9 DEF CutParagraph
    <2>2. ChunkTypes'
        BY <1>1, <1>2, <1>4, <1>7, <2>1 DEF ChunkTypes, HeadsOf
    <2>3. Pieces'
        BY <1>2, <1>4, <1>6, <2>1 DEF Pieces
    <2> QED BY <1>7, <2>1, <2>2, <2>3 DEF FitInv, ChunksFit
<1>10. CASE StartPiece
    <2>1. /\ chunks' = Flush /\ joined' = Paragraph /\ size' = ParaLen /\ UNCHANGED <<phase, rest>>
          /\ ParaLen <= Budget(stack)
        BY <1>10 DEF StartPiece
    <2>2. ChunkTypes'
        BY <1>1, <1>2, <1>4, <1>5, <1>7, <2>1 DEF ChunkTypes, HeadsOf
    <2>3. Pieces'
        BY <1>2, <1>5, <1>6, <2>1 DEF Pieces
    <2> QED BY <1>7, <2>1, <2>2, <2>3 DEF FitInv, ChunksFit
<1>11. CASE JoinParagraph
    <2>1. UNCHANGED <<chunks, phase, rest>> /\ ParaLen <= Budget(stack)
        BY <1>11 DEF JoinParagraph
    <2>2. joined' \in Seq(Alphabet) /\ size' \in Int /\ size' = RealLen(joined') /\ size' <= Budget(stack)
        <3>1. CASE joined = <<>> /\ joined' = Paragraph /\ size' = ParaLen
            BY <1>4, <1>5, <2>1, <3>1
        <3>2. CASE /\ joined # <<>> /\ size + 2 + ParaLen <= Budget(stack)
                   /\ joined' = joined \o <<"n", "n">> \o Paragraph
                   /\ size' = size + 2 + ParaLen
            <4>1. "n" \in Alphabet
                BY DEF Alphabet, Characters, Blank
            <4>2. /\ joined \o <<"n", "n">> \o Paragraph \in Seq(Alphabet)
                  /\ RealLen(joined \o <<"n", "n">> \o Paragraph) = RealLen(joined) + 2 + RealLen(Paragraph)
                BY <1>3, <1>4, <4>1, JoinedLength
            <4>3. size = RealLen(joined)
                BY <1>1, <3>2 DEF Pieces
            <4> QED BY <1>3, <1>5, <3>2, <4>2, <4>3
        <3> QED BY <1>11, <3>1, <3>2 DEF JoinParagraph
    <2>3. ChunkTypes'
        BY <1>1, <1>2, <1>4, <2>1, <2>2 DEF ChunkTypes, HeadsOf
    <2>4. Pieces'
        BY <1>2, <1>6, <2>1, <2>2 DEF Pieces
    <2> QED BY <1>1, <2>1, <2>3, <2>4 DEF FitInv, ChunksFit
<1> QED BY <1>8, <1>9, <1>10, <1>11

LEMMA EndSectionFits ==
    ASSUME FitInv, EndSection
    PROVE  FitInv'
<1>1. ChunkTypes /\ Pieces
    BY DEF FitInv
<1>2. /\ chunks' = Flush /\ joined' = <<>> /\ size' = 0 /\ phase' = "sections"
      /\ tail = <<>> /\ UNCHANGED <<text, next, stack, tail, rest>>
    BY DEF EndSection
<1>3. Flush \in Seq(Chunk) /\ \A n \in DOMAIN Flush : Fits(Flush[n])
    BY FlushFits
<1>4. ChunkTypes'
    BY <1>1, <1>2, <1>3 DEF ChunkTypes, HeadsOf
<1>5. Pieces'
    BY <1>2 DEF Pieces
<1> QED BY <1>2, <1>3, <1>4, <1>5 DEF FitInv, ChunksFit

\* Where words are cut: before a space, or when there is none at the limit.
LEMMA WordBoundaryFacts ==
    ASSUME NEW s, NEW max \in Nat, max > 0
    PROVE  /\ WordBoundary(s, max) \in 1 .. max
           /\ \/ WordBoundary(s, max) = max /\ \A i \in 2 .. max : s[i] # "_"
              \/ s[WordBoundary(s, max) + 1] = "_" /\ WordBoundary(s, max) < max
<1> DEFINE K == {i \in 2 .. max : s[i] = "_"}
<1>1. K \in SUBSET Nat /\ K \in SUBSET (2 .. max)
    <2>1. K \subseteq 2 .. max
        OBVIOUS
    <2>2. 2 .. max \subseteq Nat
        OBVIOUS
    <2> HIDE DEF K
    <2> QED BY <2>1, <2>2
<1>2. \A i \in K : s[i] = "_"
    OBVIOUS
<1>3. K = {} => \A i \in 2 .. max : s[i] # "_"
    OBVIOUS
<1>4. WordBoundary(s, max) = IF K = {} THEN max ELSE Max(K) - 1
    BY DEF WordBoundary
<1> HIDE DEF K
<1>5. CASE K = {}
    <2>1. WordBoundary(s, max) = max
        BY <1>4, <1>5
    <2>2. max \in 1 .. max
        OBVIOUS
    <2> QED BY <1>3, <1>5, <2>1, <2>2
<1>6. CASE K # {}
    <2>1. \A i \in K : i <= max
        BY <1>1
    <2>2. Max(K) \in K
        BY <1>1, <1>6, <2>1, MaxFacts
    <2> DEFINE m == Max(K)
    <2>3. m \in K /\ WordBoundary(s, max) = m - 1
        BY <1>4, <1>6, <2>2
    <2> HIDE DEF m
    <2>4. m \in 2 .. max
        BY <1>1, <2>3
    <2>5. m - 1 \in 1 .. max /\ m - 1 < max /\ m - 1 + 1 = m
        BY <2>4
    <2>6. s[m] = "_"
        BY <1>2, <2>3
    <2> QED BY <2>3, <2>5, <2>6
<1> QED BY <1>5, <1>6

LEMMA CutWordsFits ==
    ASSUME FitInv, CutWords
    PROVE  FitInv'
<1>1. ChunkTypes /\ Pieces /\ ChunksFit
    BY DEF FitInv
<1> DEFINE cut == WordBoundary(rest, Room(stack))
           piece == SubSeq(rest, 1, cut)
           after == SubSeq(rest, cut + 1, Len(rest))
<1>2. /\ phase = "words" /\ Len(rest) > Room(stack)
      /\ chunks' = Put(stack, piece) /\ rest' = LeftStrip(after, {"_"})
      /\ UNCHANGED <<text, next, stack, phase, tail, joined, size>>
    BY DEF CutWords
<1>3. rest \in Seq(Alphabet) /\ stack \in Seq(Nat) /\ chunks \in Seq(Chunk) /\ Len(rest) \in Nat
    BY <1>1 DEF ChunkTypes
<1>4. /\ Budget(stack) \in Int /\ Room(stack) \in Nat \ {0}
      /\ Budget(stack) > 0 => Room(stack) = Budget(stack)
    BY <1>3, BudgetFacts
<1>5. cut \in 1 .. Room(stack)
    <2>1. Room(stack) \in Nat /\ Room(stack) > 0
        BY <1>4
    <2> QED BY <2>1, WordBoundaryFacts
<1> HIDE DEF cut
<1>6. 1 \in 1 .. Len(rest) + 1 /\ cut \in 0 .. Len(rest) /\ cut + 1 \in 1 .. Len(rest) + 1 /\ Len(rest) \in 0 .. Len(rest)
    <2> DEFINE room == Room(stack)
    <2>1. room \in Nat /\ Len(rest) > room /\ cut \in 1 .. room
        BY <1>2, <1>4, <1>5
    <2> HIDE DEF room
    <2> QED BY <1>3, <2>1
<1>7. /\ piece \in Seq(Alphabet) /\ Len(piece) = (IF 1 <= cut THEN cut - 1 + 1 ELSE 0)
      /\ \A i \in 1 .. Len(piece) : piece[i] = rest[1 + i - 1]
    BY <1>3, <1>6, PartOfString
<1>8. /\ after \in Seq(Alphabet) /\ Len(after) = (IF cut + 1 <= Len(rest) THEN Len(rest) - (cut + 1) + 1 ELSE 0)
      /\ \A i \in 1 .. Len(after) : after[i] = rest[cut + 1 + i - 1]
    BY <1>3, <1>6, PartOfString
<1> HIDE DEF piece, after
<1>9. Len(piece) = cut /\ \A i \in 1 .. Len(piece) : i \in 1 .. Len(rest) /\ piece[i] = rest[i]
    BY <1>6, <1>7
<1>10. PICK k \in 1 .. Len(after) + 1 : LeftStrip(after, {"_"}) = SubSeq(after, k, Len(after))
    BY <1>8, LeftStripFacts
<1>11. Len(after) \in 0 .. Len(after)
    BY <1>8
<1>12. /\ rest' \in Seq(Alphabet) /\ Len(rest') = (IF k <= Len(after) THEN Len(after) - k + 1 ELSE 0)
       /\ \A i \in 1 .. Len(rest') : rest'[i] = after[k + i - 1]
    <2> DEFINE p == SubSeq(after, k, Len(after))
    <2>1. /\ p \in Seq(Alphabet) /\ Len(p) = (IF k <= Len(after) THEN Len(after) - k + 1 ELSE 0)
          /\ \A i \in 1 .. Len(p) : p[i] = after[k + i - 1]
        BY <1>8, <1>11, PartOfString
    <2>2. rest' = p
        BY <1>2, <1>10
    <2> HIDE DEF p
    <2> QED BY <2>1, <2>2
<1>13. OneParagraph(rest) => OneParagraph(piece) /\ OneParagraph(rest')
    <2>1. OneParagraph(rest) => OneParagraph(piece)
        BY <1>3, <1>6, PartOfParagraph DEF piece
    <2>2. OneParagraph(rest) => OneParagraph(after)
        BY <1>3, <1>6, PartOfParagraph DEF after
    <2>3. OneParagraph(after) => OneParagraph(SubSeq(after, k, Len(after)))
        BY <1>8, <1>11, PartOfParagraph
    <2> QED BY <1>2, <1>10, <2>1, <2>2, <2>3
<1>14. Budget(stack) > 0 => OneParagraph(rest)
    BY <1>1, <1>2 DEF Pieces
<1>15. \/ RealLen(piece) <= Budget(stack)
       \/ Budget(stack) <= 0
       \/ piece = <<>>
       \/ Len(piece) <= Budget(stack) /\ OneParagraph(piece)
    <2>1. CASE Budget(stack) > 0
        <3>1. Len(piece) <= Budget(stack)
            BY <1>4, <1>5, <1>9, <2>1
        <3>2. OneParagraph(piece)
            BY <1>13, <1>14, <2>1
        <3> QED BY <3>1, <3>2
    <2> QED BY <1>4, <2>1
<1>16. chunks' \in Seq(Chunk) /\ \A n \in DOMAIN chunks' : Fits(chunks'[n])
    BY <1>1, <1>2, <1>3, <1>7, <1>15, PutFits
<1>17. Budget(stack) > 0 => OneParagraph(rest')
    BY <1>13, <1>14
<1>18. ChunkTypes'
    BY <1>1, <1>2, <1>12, <1>16 DEF ChunkTypes, HeadsOf
<1>19. Pieces'
    BY <1>1, <1>2, <1>17 DEF Pieces
<1> QED BY <1>16, <1>18, <1>19 DEF FitInv, ChunksFit

LEMMA LastWordsFit ==
    ASSUME FitInv, LastWords
    PROVE  FitInv'
<1>1. ChunkTypes /\ Pieces /\ ChunksFit
    BY DEF FitInv
<1>2. /\ phase = "words" /\ Len(rest) <= Room(stack) /\ rest' = <<>> /\ phase' = "paragraphs"
      /\ chunks' = (IF rest = <<>> THEN chunks ELSE Put(stack, rest))
      /\ UNCHANGED <<text, next, stack, tail, joined, size>>
    BY DEF LastWords
<1>3. rest \in Seq(Alphabet) /\ stack \in Seq(Nat) /\ chunks \in Seq(Chunk)
    BY <1>1 DEF ChunkTypes
<1>4. /\ Budget(stack) \in Int /\ Room(stack) \in Nat \ {0}
      /\ Budget(stack) > 0 => Room(stack) = Budget(stack)
    BY <1>3, BudgetFacts
<1>5. \/ RealLen(rest) <= Budget(stack)
      \/ Budget(stack) <= 0
      \/ rest = <<>>
      \/ Len(rest) <= Budget(stack) /\ OneParagraph(rest)
    BY <1>1, <1>2, <1>3, <1>4 DEF Pieces
<1>6. Put(stack, rest) \in Seq(Chunk) /\ \A n \in DOMAIN Put(stack, rest) : Fits(Put(stack, rest)[n])
    BY <1>1, <1>3, <1>5, PutFits
<1>7. chunks' \in Seq(Chunk) /\ \A n \in DOMAIN chunks' : Fits(chunks'[n])
    BY <1>1, <1>2, <1>3, <1>6 DEF ChunksFit
<1>8. ChunkTypes'
    BY <1>1, <1>2, <1>7 DEF ChunkTypes, HeadsOf
<1>9. Pieces'
    BY <1>1, <1>2 DEF Pieces
<1> QED BY <1>7, <1>8, <1>9 DEF FitInv, ChunksFit

LEMMA ChunkStepFits ==
    ASSUME FitInv, ChunkStep
    PROVE  FitInv'
BY TakeWholeFits, TakePartsFit, AdvanceFits, EndSectionFits, CutWordsFits, LastWordsFit DEF ChunkStep
-----------------------------------------------------------------------------
(* The stack *)

\* The stack is right when there is none,
LEMMA StackAtStart ==
    ASSUME next \in {0, 1}, stack = <<>>, text \in Seq(Alphabet), next = 0 \/ text = <<>>
    PROVE  StackInv
<1>1. \A j \in HeadsOf(text) : j \in 1 .. Len(text)
    BY DEF HeadsOf
<1>2. text = <<>> => Len(text) = 0
    OBVIOUS
<1>3. Len(text) \in Nat
    OBVIOUS
<1>4. ~ \E j \in HeadsOf(text) : j < next
    BY <1>1, <1>2, <1>3
<1>5. DOMAIN stack = {}
    OBVIOUS
<1> QED BY <1>4, <1>5 DEF StackInv

\* In a well nested text the headings on the stack have the levels 1, 2, ...,
\* so that a heading finds its level's place on it.
LEMMA LevelOfPush ==
    ASSUME text \in Seq(Alphabet), stack \in Seq(Nat), StackInv, WellNested(text),
           next \in HeadsOf(text)
    PROVE  Level(text[next]) - 1 \in 0 .. Len(stack)
<1>1. next \in Nat /\ text[next] \in Headers /\ Len(stack) \in Nat
    BY DEF HeadsOf
<1>2. Level(text[next]) \in 1 .. 3
    BY <1>1 DEF Headers, Level
<1>3. CASE text[next] = "h1"
    <2>1. Level(text[next]) = 1
        BY <1>3 DEF Level
    <2> QED BY <1>1, <2>1
<1>4. CASE text[next] # "h1"
    <2>1. PICK j \in HeadsOf(text) :
              /\ j < next /\ Level(text[next]) <= Level(text[j]) + 1
              /\ \A k \in HeadsOf(text) : k <= j \/ k >= next
        BY <1>4 DEF WellNested
    <2>2. j \in Nat
        BY DEF HeadsOf
    <2>3. stack # <<>> /\ j <= stack[Len(stack)]
        BY <2>1 DEF StackInv
    <2>4. Len(stack) \in DOMAIN stack
        BY <2>3
    <2> DEFINE last == stack[Len(stack)]
    <2>5. last \in HeadsOf(text) /\ last < next /\ Level(text[last]) = Len(stack) /\ j <= last
        BY <2>3, <2>4 DEF StackInv
    <2>6. last \in Nat
        BY <2>4
    <2> HIDE DEF last
    <2>7. last <= j
        BY <1>1, <2>1, <2>2, <2>5, <2>6
    <2>8. last = j
        BY <2>2, <2>5, <2>6, <2>7
    <2>9. Level(text[next]) <= Len(stack) + 1
        BY <2>1, <2>5, <2>8
    <2> QED BY <1>1, <1>2, <2>9
<1> QED BY <1>3, <1>4

\* and stays right when a section is entered.
LEMMA EnterStack ==
    ASSUME ChunkTypes, StackInv, Enter
    PROVE  StackInv'
<1>1. /\ text \in Seq(Alphabet) /\ stack \in Seq(Nat) /\ text' = text /\ Len(text) \in Nat
      /\ next \in 0 .. Len(text) /\ next \in HeadsOf(text) \cup {0}
      /\ stack' = Push(next) /\ next' = NextHead(next)
    BY DEF ChunkTypes, Enter, HeadsOf
<1>2. next' > next /\ next' \in Nat /\ \A j \in HeadsOf(text) : j < next' => j <= next
    <2>1. /\ NextHead(next) \in next + 1 .. Len(text) + 1
          /\ \A j \in HeadsOf(text) : j > next => j >= NextHead(next)
        BY <1>1, NextHeadFacts
    <2>2. \A j \in HeadsOf(text) : j \in Nat
        BY <1>1 DEF HeadsOf
    <2> QED BY <1>1, <2>1, <2>2
<1>3. HeadsOf(text') = HeadsOf(text) /\ (WellNested(text') <=> WellNested(text))
    BY <1>1
<1>4. CASE next = 0
    <2>1. DOMAIN stack = {}
        <3>1. SUFFICES ASSUME NEW n \in DOMAIN stack PROVE FALSE
            OBVIOUS
        <3>2. stack[n] \in HeadsOf(text) /\ stack[n] < 0
            BY <1>4 DEF StackInv
        <3> QED BY <1>1, <3>2 DEF HeadsOf
    <2>2. stack = <<>>
        BY <1>1, <2>1
    <2>3. stack' = <<>>
        BY <1>1, <1>4, <2>2 DEF Push
    <2>4. ~ \E j \in HeadsOf(text) : j < next'
        BY <1>1, <1>2, <1>4 DEF HeadsOf
    <2> QED BY <1>3, <2>3, <2>4 DEF StackInv
<1>5. CASE next \in HeadsOf(text)
    <2>1. PICK k \in 0 .. Len(stack) :
              /\ k = IF Level(text[next]) - 1 <= Len(stack) THEN Level(text[next]) - 1 ELSE Len(stack)
              /\ Push(next) \in Seq(Nat) /\ Len(Push(next)) = k + 1
              /\ \A n \in 1 .. k : Push(next)[n] = stack[n]
              /\ Push(next)[k + 1] = next
        BY <1>1, <1>5, PushFacts
    <2>2. /\ stack' \in Seq(Nat) /\ Len(stack') = k + 1 /\ DOMAIN stack' = 1 .. k + 1
          /\ \A n \in 1 .. k : stack'[n] = stack[n]
          /\ stack'[k + 1] = next
        BY <1>1, <2>1
    <2>3. DOMAIN stack = 1 .. Len(stack) /\ Len(stack) \in Nat /\ 1 .. k \subseteq DOMAIN stack /\ k \in Nat
        BY <1>1
    <2>4. \A n \in 1 .. k : stack'[n] \in HeadsOf(text) /\ stack'[n] < next /\ stack'[n] \in Nat
        BY <1>1, <2>2, <2>3 DEF StackInv
    <2>5. \A n \in DOMAIN stack' : stack'[n] \in HeadsOf(text) /\ stack'[n] < next'
        <3> SUFFICES ASSUME NEW n \in DOMAIN stack' PROVE stack'[n] \in HeadsOf(text) /\ stack'[n] < next'
            OBVIOUS
        <3>1. n \in 1 .. k \/ n = k + 1
            BY <2>2, <2>3
        <3> QED BY <1>1, <1>2, <1>5, <2>2, <2>4, <3>1
    <2>6. \A m, n \in DOMAIN stack' : m < n => stack'[m] < stack'[n]
        <3> SUFFICES ASSUME NEW m \in DOMAIN stack', NEW n \in DOMAIN stack', m < n
                     PROVE  stack'[m] < stack'[n]
            OBVIOUS
        <3>1. m \in 1 .. k /\ (n \in 1 .. k \/ n = k + 1)
            BY <2>2, <2>3
        <3>2. n \in 1 .. k => stack[m] < stack[n]
            BY <2>3, <3>1 DEF StackInv
        <3> QED BY <2>2, <2>4, <3>1, <3>2
    <2>7. stack' # <<>> /\ stack'[Len(stack')] = next
        BY <2>2, <2>3
    <2>8. ASSUME WellNested(text)
          PROVE  /\ \A n \in DOMAIN stack' : Level(text[stack'[n]]) = n
                 /\ IsChain(text, stack')
        <3>1. k = Level(text[next]) - 1
            BY <1>1, <1>5, <2>1, <2>8, LevelOfPush
        <3>2. Level(text[next]) \in 1 .. 3
            BY <1>5 DEF HeadsOf, Headers, Level
        <3>3. k + 1 = Level(text[next])
            BY <2>3, <3>1, <3>2
        <3>4. \A n \in 1 .. k : Level(text[stack[n]]) = n
            BY <2>3, <2>8 DEF StackInv
        <3>5. \A n \in DOMAIN stack' : Level(text[stack'[n]]) = n
            <4> SUFFICES ASSUME NEW n \in DOMAIN stack' PROVE Level(text[stack'[n]]) = n
                OBVIOUS
            <4>1. n \in 1 .. k \/ n = k + 1
                BY <2>2, <2>3
            <4> QED BY <2>2, <3>3, <3>4, <4>1
        <3>6. ASSUME NEW j \in Ancestry(text, next) PROVE \E n \in DOMAIN stack' : stack'[n] = j
            <4>1. CASE j = next
                BY <2>2, <2>3, <4>1
            <4>2. CASE j # next
                <5>1. /\ j \in HeadsOf(text) /\ j \in Nat /\ j < next
                      /\ \A i \in HeadsOf(text) : j < i /\ i <= next => Level(text[j]) < Level(text[i])
                    BY <1>1, <4>2 DEF Ancestry, HeadsOf
                <5>2. stack # <<>> /\ j <= stack[Len(stack)]
                    BY <5>1 DEF StackInv
                <5>3. Len(stack) \in DOMAIN stack
                    BY <2>3, <5>2
                <5>4. stack[Len(stack)] < next /\ stack[Len(stack)] \in Nat
                    BY <1>1, <5>3 DEF StackInv
                <5>5. j \in Ancestry(text, stack[Len(stack)])
                    <6>1. \A i \in HeadsOf(text) : i <= stack[Len(stack)] => i <= next
                        BY <1>1, <5>4 DEF HeadsOf
                    <6> QED BY <5>1, <5>2, <6>1 DEF Ancestry
                <5>6. IsChain(text, stack)
                    BY <2>8, <5>2 DEF StackInv
                <5>7. PICK n \in DOMAIN stack : stack[n] = j
                    BY <5>5, <5>6 DEF IsChain
                <5>8. Level(text[j]) = n
                    BY <2>8, <5>7 DEF StackInv
                <5>9. Level(text[j]) < Level(text[next])
                    BY <1>1, <1>5, <5>1
                <5>10. n \in 1 .. k
                    BY <2>3, <3>3, <5>8, <5>9
                <5> QED BY <2>2, <2>3, <5>7, <5>10
            <4> QED BY <4>1, <4>2
        <3>7. ASSUME NEW n \in DOMAIN stack' PROVE stack'[n] \in Ancestry(text, next)
            <4>1. CASE n = k + 1
                <5>1. ~ \E i \in HeadsOf(text) : next < i /\ i <= next
                    BY <1>1 DEF HeadsOf
                <5> QED BY <1>1, <1>5, <2>2, <4>1, <5>1 DEF Ancestry
            <4>2. CASE n \in 1 .. k
                <5> DEFINE j == stack[n]
                <5>1. stack'[n] = j /\ j \in HeadsOf(text) /\ j < next /\ j \in Nat
                    BY <2>2, <2>4, <4>2
                <5>2. Level(text[j]) = n /\ n < Level(text[next])
                    BY <2>3, <3>3, <3>4, <4>2
                <5>3. stack # <<>> /\ Len(stack) \in DOMAIN stack /\ IsChain(text, stack)
                    BY <2>3, <2>8, <4>2 DEF StackInv
                <5>4. j \in Ancestry(text, stack[Len(stack)])
                    BY <2>3, <4>2, <5>3 DEF IsChain
                <5> HIDE DEF j
                <5>5. ASSUME NEW i \in HeadsOf(text), j < i, i <= next
                      PROVE  Level(text[j]) < Level(text[i])
                    <6>1. CASE i = next
                        BY <5>2, <6>1
                    <6>2. CASE i # next
                        <7>1. i < next
                            BY <1>1, <5>5, <6>2 DEF HeadsOf
                        <7>2. i <= stack[Len(stack)]
                            BY <7>1 DEF StackInv
                        <7> QED BY <5>4, <5>5, <7>2 DEF Ancestry
                    <6> QED BY <6>1, <6>2
                <5> QED BY <1>1, <5>1, <5>5 DEF Ancestry
            <4> QED BY <2>2, <2>3, <4>1, <4>2
        <3>8. {stack'[n] : n \in DOMAIN stack'} = Ancestry(text, stack'[Len(stack')])
            BY <2>7, <3>6, <3>7
        <3>9. IsChain(text, stack')
            BY <2>6, <3>8 DEF IsChain
        <3> QED BY <3>5, <3>9
    <2>9. \A j \in HeadsOf(text) : j < next' => stack' # <<>> /\ j <= stack'[Len(stack')]
        BY <1>2, <2>7
    <2> QED BY <1>1, <1>3, <2>5, <2>6, <2>8, <2>9 DEF StackInv
<1> QED BY <1>1, <1>4, <1>5

\* What Put appends stands under the crumb it is given.
LEMMA PutCrumb ==
    ASSUME chunks \in Seq(Chunk), NEW crumb \in Seq(Nat), NEW body, body \in Seq(Alphabet)
    PROVE  \A n \in DOMAIN Put(crumb, body) :
               \/ n \in DOMAIN chunks /\ Put(crumb, body)[n] = chunks[n]
               \/ Put(crumb, body)[n].crumb = crumb
<1> DEFINE b == IF crumb = <<>> THEN Strip(body) ELSE RightStrip(body, Blank)
           c == [crumb |-> crumb, body |-> b]
<1>1. Put(crumb, body) \in {chunks, Append(chunks, c)}
    BY DEF Put
<1>2. c.crumb = crumb
    OBVIOUS
<1> HIDE DEF c
<1>3. /\ DOMAIN Append(chunks, c) = 1 .. Len(chunks) + 1
      /\ \A n \in 1 .. Len(chunks) : Append(chunks, c)[n] = chunks[n]
      /\ Append(chunks, c)[Len(chunks) + 1] = c
      /\ DOMAIN chunks = 1 .. Len(chunks) /\ Len(chunks) \in Nat
    OBVIOUS
<1> QED BY <1>1, <1>2, <1>3

\* Every step that enters no section keeps the stack, and whatever appends a
\* chunk appends it under the stack.
LEMMA StepsPut ==
    ASSUME FitInv, ChunkStep
    PROVE  /\ Enter \/ UNCHANGED <<text, next, stack>>
           /\ text' = text
           /\ \/ chunks' = chunks
              \/ \E body \in Seq(Alphabet) : chunks' = Put(stack', body)
<1>1. /\ ChunkTypes /\ joined \in Seq(Alphabet) /\ rest \in Seq(Alphabet) /\ stack \in Seq(Nat)
      /\ text \in Seq(Alphabet)
    BY DEF FitInv, ChunkTypes
<1>2. CASE TakeWhole
    <2>1. Enter /\ stack' = Push(next) /\ chunks' = Put(Push(next), Strip(Body(text, next))) /\ text' = text
        BY <1>2 DEF TakeWhole, Enter
    <2>2. Strip(Body(text, next)) \in Seq(Alphabet)
        BY <1>1, <2>1, EnterFacts
    <2> QED BY <2>1, <2>2
<1>3. CASE TakeWords \/ TakeParagraphs
    BY <1>3 DEF TakeWords, TakeParagraphs, Enter
<1>4. CASE SkipBlank \/ JoinParagraph
    BY <1>4 DEF SkipBlank, JoinParagraph, Advance
<1>5. CASE CutParagraph \/ StartPiece \/ EndSection
    <2>1. chunks' = Flush /\ UNCHANGED <<text, next, stack>>
        BY <1>5 DEF CutParagraph, StartPiece, EndSection, Advance
    <2> QED BY <1>1, <2>1 DEF Flush
<1>6. CASE CutWords
    <2> DEFINE cut == WordBoundary(rest, Room(stack))
    <2>1. /\ chunks' = Put(stack, SubSeq(rest, 1, cut)) /\ Len(rest) > Room(stack)
          /\ UNCHANGED <<text, next, stack>>
        BY <1>6 DEF CutWords
    <2>2. Room(stack) \in Nat /\ Room(stack) > 0
        BY <1>1, BudgetFacts
    <2>3. cut \in 1 .. Room(stack)
        BY <2>2, WordBoundaryFacts
    <2> HIDE DEF cut
    <2>4. 1 \in 1 .. Len(rest) + 1 /\ cut \in 0 .. Len(rest)
        BY <1>1, <2>1, <2>2, <2>3
    <2>5. SubSeq(rest, 1, cut) \in Seq(Alphabet)
        BY <1>1, <2>4, PartOfString
    <2> QED BY <2>1, <2>5
<1>7. CASE LastWords
    <2>1. chunks' \in {chunks, Put(stack, rest)} /\ UNCHANGED <<text, next, stack>>
        BY <1>7 DEF LastWords
    <2> QED BY <1>1, <2>1
<1> QED BY <1>2, <1>3, <1>4, <1>5, <1>6, <1>7 DEF ChunkStep

LEMMA ChunkStepStacks ==
    ASSUME FitInv, StackInv, CrumbsOfWellNested, ChunkStep
    PROVE  StackInv' /\ CrumbsOfWellNested'
<1>1. ChunkTypes /\ chunks \in Seq(Chunk) /\ FitInv'
    BY ChunkStepFits DEF FitInv, ChunkTypes
<1>2. stack' \in Seq(Nat)
    BY <1>1 DEF FitInv, ChunkTypes
<1>3. StackInv'
    <2>1. CASE Enter
        BY <1>1, <2>1, EnterStack
    <2>2. CASE UNCHANGED <<text, next, stack>>
        BY <2>2 DEF StackInv
    <2> QED BY <2>1, <2>2, StepsPut
<1>4. text' = text
    BY StepsPut
<1>5. ASSUME WellNested(text), NEW n \in DOMAIN chunks', chunks'[n].crumb # <<>>
      PROVE  IsChain(text, chunks'[n].crumb)
    <2>1. \/ n \in DOMAIN chunks /\ chunks'[n] = chunks[n]
          \/ chunks'[n].crumb = stack'
        <3>1. CASE chunks' = chunks
            BY <1>5, <3>1
        <3>2. ASSUME NEW body \in Seq(Alphabet), chunks' = Put(stack', body)
              PROVE  \/ n \in DOMAIN chunks /\ chunks'[n] = chunks[n]
                     \/ chunks'[n].crumb = stack'
            BY <1>1, <1>2, <1>5, <3>2, PutCrumb
        <3> QED BY <3>1, <3>2, StepsPut
    <2>2. CASE n \in DOMAIN chunks /\ chunks'[n] = chunks[n]
        BY <1>5, <2>2 DEF CrumbsOfWellNested, CrumbsAre
    <2>3. CASE chunks'[n].crumb = stack'
        <3>1. WellNested(text') /\ stack' # <<>>
            BY <1>4, <1>5, <2>3
        <3>2. IsChain(text', stack')
            BY <1>3, <3>1 DEF StackInv
        <3> QED BY <1>4, <2>3, <3>2
    <2> QED BY <2>1, <2>2, <2>3
<1>6. CrumbsOfWellNested'
    BY <1>4, <1>5 DEF CrumbsOfWellNested, CrumbsAre
<1> QED BY <1>3, <1>6
-----------------------------------------------------------------------------
(* The specification *)

\* Of what discovery does, the chunker changes nothing.
LEMMA IngestDiscovers == IngestSpec => DiscoverySpec
<1>1. IngestInit => Init
    BY DEF IngestInit
<1>2. [IngestNext]_ingestVars => [DiscoveryNext]_vars
    BY DEF IngestNext, ChunkDoc, ingestVars
<1> QED BY <1>1, <1>2, PTL DEF IngestSpec, DiscoverySpec

ChunkInv == FitInv /\ StackInv /\ CrumbsOfWellNested

\* At the start of a text, and before the first one, there is nothing yet.
Nothing ==
    /\ text \in Seq(Alphabet)
    /\ next = 0 \/ (next = 1 /\ text = <<>>)
    /\ stack = <<>> /\ chunks = <<>>
    /\ phase = "sections" /\ tail = <<>> /\ joined = <<>> /\ size = 0 /\ rest = <<>>

\* ChunkInv holds at the start of a text, and after every step.
LEMMA NothingYet == Nothing => ChunkInv
<1> SUFFICES ASSUME Nothing PROVE ChunkInv
    OBVIOUS
<1> USE DEF Nothing
<1>1. StackInv
    BY StackAtStart
<1>2. DOMAIN chunks = {}
    OBVIOUS
<1>3. ChunkTypes
    <2>1. Len(<<>>) + 1 = 1
        OBVIOUS
    <2>2. next \in {0, Len(text) + 1}
        BY <2>1
    <2> QED BY <2>2 DEF ChunkTypes
<1>4. Pieces
    BY DEF Pieces
<1> QED BY <1>1, <1>2, <1>3, <1>4 DEF ChunkInv, FitInv, ChunksFit, CrumbsOfWellNested, CrumbsAre

LEMMA ChunkedCounts == IngestSpec => [](chunked \in Nat)
<1> DEFINE Counts == chunked \in Nat
<1>1. IngestInit => Counts
    BY DEF IngestInit
<1>2. Counts /\ [IngestNext]_ingestVars => Counts'
    BY DEF IngestNext, ChunkDoc, ingestVars
<1> QED
    <2> HIDE DEF Counts
    <2>1. IngestSpec => []Counts
        BY <1>1, <1>2, PTL DEF IngestSpec
    <2> QED BY <2>1 DEF Counts

\* The text that is cut next is one of a document.
LEMMA TextOfNext ==
    ASSUME TypeOK, chunked \in Nat, ChunkDoc
    PROVE  \E d \in Document : \E t \in Contents[d.text] :
               Start(t) /\ t \in Seq(Alphabet) /\ FencesWhole(t)
<1> DEFINE d == docs[chunked + 1]
<1>1. PICK t \in Contents[d.text] : Start(t)
    BY DEF ChunkDoc
<1>2. d \in Document
    BY DEF TypeOK, ChunkDoc
<1> HIDE DEF d
<1>3. d.text \in Texts
    BY <1>2 DEF Document
<1>4. t \in Seq(Alphabet) /\ FencesWhole(t)
    BY <1>1, <1>3, ContentsAssumption DEF Alphabet
<1> QED BY <1>1, <1>2, <1>4

LEMMA ChunkDocStep ==
    ASSUME TypeOK, chunked \in Nat, ChunkDoc
    PROVE  ChunkInv'
<1>1. PICK d \in Document : \E t \in Contents[d.text] :
          Start(t) /\ t \in Seq(Alphabet) /\ FencesWhole(t)
    BY TextOfNext
<1>3. PICK t \in Contents[d.text] : Start(t) /\ t \in Seq(Alphabet)
    BY <1>1
<1>4. Nothing'
    BY <1>3 DEF Start, Nothing
<1> QED BY <1>4, NothingYet, PTL

LEMMA ChunkInvInit == IngestInit => ChunkInv
<1> SUFFICES ASSUME IngestInit PROVE ChunkInv
    OBVIOUS
<1>1. text = <<>> /\ text \in Seq(Alphabet)
    BY DEF IngestInit, ChunkInit
<1>2. Nothing
    BY <1>1 DEF IngestInit, ChunkInit, Nothing
<1> QED BY <1>2, NothingYet

LEMMA ChunkInvStep == TypeOK /\ chunked \in Nat /\ ChunkInv /\ [IngestNext]_ingestVars => ChunkInv'
<1> SUFFICES ASSUME TypeOK, chunked \in Nat, ChunkInv, [IngestNext]_ingestVars PROVE ChunkInv'
    OBVIOUS
<1>1. CASE UNCHANGED chunkVars
    BY <1>1 DEF ChunkInv, FitInv, ChunkTypes, Pieces, StackInv, ChunksFit, CrumbsOfWellNested,
                CrumbsAre, chunkVars
<1>2. ASSUME ChunkDoc PROVE ChunkInv'
    BY <1>2, ChunkDocStep
<1>3. CASE ChunkStep
    BY <1>3, ChunkStepFits, ChunkStepStacks DEF ChunkInv
<1> QED BY <1>1, <1>2, <1>3 DEF IngestNext, ingestVars

LEMMA ChunkInvariant == IngestSpec => []ChunkInv
<1> QED BY DiscoveryTypeCorrect, IngestDiscovers, ChunkedCounts, ChunkInvInit, ChunkInvStep, PTL DEF IngestSpec

\* chunk_text (chunker.py): whatever the text, a chunk is longer than MAX_CHARS only
\* if its headings alone fill the budget, or it is a prefix without a body,
\* or part of one paragraph that holds a fence.
THEOREM ChunksStayShort == IngestSpec => []ChunksFit
<1>1. ChunkInv => ChunksFit
    BY DEF ChunkInv, FitInv
<1> QED BY <1>1, ChunkInvariant, PTL

\* In a text that starts at H1 and skips no level, every chunk is prefixed
\* with its ancestor header chain.
THEOREM CrumbsAreChains == IngestSpec => []CrumbsOfWellNested
<1>1. ChunkInv => CrumbsOfWellNested
    BY DEF ChunkInv
<1> QED BY <1>1, ChunkInvariant, PTL
-----------------------------------------------------------------------------
(* What Concat computes *)

\* Of a list of strings, the function that Concat evaluates.
UpTo(ss, b) == CHOOSE f : f = [n \in 0 .. b |-> IF n = 0 THEN <<>> ELSE f[n - 1] \o ss[n]]

\* Concat is a recursive function over a list that grows: it exists, by the
\* least length for which it would not, and is the only one.
LEMMA ConcatMeans ==
    ASSUME NEW ss
    PROVE  Concat(ss) = UpTo(ss, Len(ss))[Len(ss)]
BY DEF Concat, UpTo

Recurs(f, ss, b) ==
    /\ f \in [0 .. b -> Seq(Alphabet)]
    /\ \A n \in 0 .. b : f[n] = IF n = 0 THEN <<>> ELSE f[n - 1] \o ss[n]

LEMMA RecursExists ==
    ASSUME NEW ss \in Seq(Seq(Alphabet)), NEW b \in 0 .. Len(ss)
    PROVE  \E f : Recurs(f, ss, b)
<1> DEFINE K == {k \in 0 .. Len(ss) : ~ \E f : Recurs(f, ss, k)}
<1> SUFFICES ASSUME b \in K PROVE FALSE
    OBVIOUS
<1>1. K \in SUBSET Nat /\ K # {} /\ K \subseteq 0 .. Len(ss) /\ Len(ss) \in Nat
    OBVIOUS
<1> DEFINE m == Min(K)
<1>2. m \in K /\ \A i \in K : m <= i
    BY <1>1, MinFacts
<1>3. m \in 0 .. Len(ss) /\ ~ \E f : Recurs(f, ss, m)
    BY <1>2
<1>4. \A k \in 0 .. Len(ss) : k < m => \E f : Recurs(f, ss, k)
    <2>1. \A k \in 0 .. Len(ss) : k \in K \/ \E f : Recurs(f, ss, k)
        OBVIOUS
    <2>2. \A k \in K : m <= k
        BY <1>2
    <2> HIDE DEF K, m
    <2> QED BY <1>1, <1>3, <2>1, <2>2
<1> HIDE DEF K, m
<1>5. CASE m = 0
    <2> DEFINE f == [n \in 0 .. m |-> <<>>]
    <2>1. f \in [0 .. m -> Seq(Alphabet)] /\ \A n \in 0 .. m : n = 0 /\ f[n] = <<>>
        BY <1>5
    <2> HIDE DEF f
    <2>2. Recurs(f, ss, m)
        BY <2>1 DEF Recurs
    <2> QED BY <1>3, <2>2
<1>6. CASE m # 0
    <2>1. m - 1 \in 0 .. Len(ss) /\ m - 1 < m /\ m \in 1 .. Len(ss)
        BY <1>1, <1>3, <1>6
    <2>2. PICK g : Recurs(g, ss, m - 1)
        BY <1>4, <2>1
    <2>3. g \in [0 .. m - 1 -> Seq(Alphabet)] /\ \A n \in 0 .. m - 1 : g[n] = IF n = 0 THEN <<>> ELSE g[n - 1] \o ss[n]
        BY <2>2 DEF Recurs
    <2> DEFINE f == [n \in 0 .. m |-> IF n = m THEN g[m - 1] \o ss[m] ELSE g[n]]
    <2>4. g[m - 1] \in Seq(Alphabet) /\ ss[m] \in Seq(Alphabet)
        BY <2>1, <2>3
    <2>5. g[m - 1] \o ss[m] \in Seq(Alphabet)
        BY <2>4
    <2>6. \A n \in 0 .. m : n # m => n \in 0 .. m - 1
        BY <2>1
    <2>7. f \in [0 .. m -> Seq(Alphabet)]
        BY <2>3, <2>5, <2>6
    <2>8. f[m] = g[m - 1] \o ss[m] /\ \A n \in 0 .. m - 1 : f[n] = g[n]
        <3>1. m \in 0 .. m /\ \A n \in 0 .. m - 1 : n \in 0 .. m /\ n # m
            BY <2>1
        <3> QED BY <3>1
    <2> HIDE DEF f
    <2>9. ASSUME NEW n \in 0 .. m PROVE f[n] = IF n = 0 THEN <<>> ELSE f[n - 1] \o ss[n]
        <3>1. CASE n = m
            <4>1. m - 1 \in 0 .. m - 1
                BY <2>1
            <4> QED BY <1>6, <2>8, <3>1, <4>1
        <3>2. CASE n \in 1 .. m - 1
            <4>1. n \in 0 .. m - 1 /\ n - 1 \in 0 .. m - 1 /\ n # 0
                BY <2>1, <3>2
            <4> QED BY <2>3, <2>8, <4>1
        <3>3. CASE n = 0
            <4>1. 0 \in 0 .. m - 1
                BY <2>1
            <4> QED BY <2>3, <2>8, <3>3, <4>1
        <3> QED BY <2>1, <3>1, <3>2, <3>3
    <2>10. Recurs(f, ss, m)
        BY <2>7, <2>9 DEF Recurs
    <2> QED BY <1>3, <2>10
<1> QED BY <1>5, <1>6

LEMMA UpToRecurs ==
    ASSUME NEW ss \in Seq(Seq(Alphabet))
    PROVE  Recurs(UpTo(ss, Len(ss)), ss, Len(ss))
<1> DEFINE b == Len(ss)
           u == UpTo(ss, b)
           F(f) == [n \in 0 .. b |-> IF n = 0 THEN <<>> ELSE f[n - 1] \o ss[n]]
<1>1. b \in 0 .. Len(ss) /\ b \in Nat
    OBVIOUS
<1>2. PICK f : Recurs(f, ss, b)
    BY <1>1, RecursExists
<1>3. f = F(f)
    BY <1>2 DEF Recurs
<1>4. u = F(u)
    BY <1>3 DEF UpTo
<1>5. DOMAIN u = 0 .. b /\ \A n \in 0 .. b : u[n] = IF n = 0 THEN <<>> ELSE u[n - 1] \o ss[n]
    BY <1>4
<1> HIDE DEF u, b
<1>6. \A n \in 0 .. b : u[n] = f[n]
    <2> DEFINE K == {n \in 0 .. b : u[n] # f[n]}
    <2> SUFFICES ASSUME K # {} PROVE FALSE
        OBVIOUS
    <2>1. K \in SUBSET Nat /\ \A n \in K : n \in 0 .. b /\ u[n] # f[n]
        BY <1>1
    <2>2. \A n \in 0 .. b : n \in K \/ u[n] = f[n]
        OBVIOUS
    <2> HIDE DEF K
    <2>3. Min(K) \in K /\ \A i \in K : Min(K) <= i
        BY <2>1, MinFacts
    <2> DEFINE m == Min(K)
    <2>4. m \in K /\ \A i \in K : m <= i
        BY <2>3
    <2> HIDE DEF m
    <2>5. m \in 0 .. b /\ u[m] # f[m]
        BY <2>1, <2>4
    <2>6. m # 0
        <3>1. 0 \in 0 .. b
            BY <1>1
        <3>2. u[0] = <<>> /\ f[0] = <<>>
            BY <1>2, <1>5, <3>1 DEF Recurs
        <3> QED BY <2>5, <3>2
    <2>7. m - 1 \in 0 .. b /\ ~(m <= m - 1)
        BY <1>1, <2>5, <2>6
    <2>8. u[m - 1] = f[m - 1]
        BY <2>2, <2>4, <2>7
    <2>9. f[m] = f[m - 1] \o ss[m]
        BY <1>2, <2>5, <2>6 DEF Recurs
    <2>10. u[m] = u[m - 1] \o ss[m]
        BY <1>5, <2>5, <2>6
    <2> QED BY <2>5, <2>8, <2>9, <2>10
<1>7. f \in [0 .. b -> Seq(Alphabet)]
    BY <1>2 DEF Recurs
<1>8. u \in [0 .. b -> Seq(Alphabet)]
    <2>1. \A n \in 0 .. b : u[n] \in Seq(Alphabet)
        BY <1>6, <1>7
    <2>2. u = [n \in 0 .. b |-> u[n]]
        BY <1>4 DEF u, b
    <2> QED BY <2>1, <2>2
<1>9. Recurs(u, ss, b)
    BY <1>5, <1>8 DEF Recurs
<1> QED BY <1>9 DEF u, b

\* So Concat of one string more is what it was and that string.
LEMMA ConcatOfNone == Concat(<<>>) = <<>>
<1>1. <<>> \in Seq(Seq(Alphabet)) /\ Len(<<>>) = 0
    OBVIOUS
<1>2. Recurs(UpTo(<<>>, 0), <<>>, 0)
    BY <1>1, UpToRecurs
<1>3. 0 \in 0 .. 0
    OBVIOUS
<1>4. UpTo(<<>>, 0)[0] = <<>>
    BY <1>2, <1>3 DEF Recurs
<1> QED BY <1>1, <1>4, ConcatMeans

LEMMA ConcatOfAppend ==
    ASSUME NEW ss \in Seq(Seq(Alphabet)), NEW x \in Seq(Alphabet)
    PROVE  /\ Concat(ss) \in Seq(Alphabet)
           /\ Concat(Append(ss, x)) = Concat(ss) \o x
<1>1. PICK tt : tt = Append(ss, x)
    OBVIOUS
<1>2. PICK a, b : a = Len(ss) /\ b = Len(tt)
    OBVIOUS
<1>3. /\ tt \in Seq(Seq(Alphabet)) /\ a \in Nat /\ b \in Nat /\ b = a + 1 /\ tt[b] = x
      /\ \A n \in 1 .. a : ss[n] = tt[n]
    BY <1>1, <1>2
<1>4. PICK f, g : f = UpTo(ss, a) /\ g = UpTo(tt, b)
    OBVIOUS
<1>5. Recurs(f, ss, a) /\ Recurs(g, tt, b)
    BY <1>2, <1>3, <1>4, UpToRecurs
<1>6. f[a] \in Seq(Alphabet) /\ g[b] = f[a] \o x
    <2>1. a \in Nat /\ b \in Nat /\ a <= b /\ \A n \in 1 .. a : ss[n] = tt[n]
        BY <1>3
    <2>2. \A n \in 0 .. a : f[n] = g[n]
        <3> DEFINE K == {n \in 0 .. a : f[n] # g[n]}
        <3> SUFFICES ASSUME K # {} PROVE FALSE
            OBVIOUS
        <3>1. K \in SUBSET Nat /\ \A n \in K : n \in 0 .. a /\ f[n] # g[n]
            BY <2>1
        <3>2. \A n \in 0 .. a : n \in K \/ f[n] = g[n]
            OBVIOUS
        <3> HIDE DEF K
        <3>3. Min(K) \in K /\ \A i \in K : Min(K) <= i
            BY <3>1, MinFacts
        <3> DEFINE m == Min(K)
        <3>4. m \in K /\ \A i \in K : m <= i
            BY <3>3
        <3> HIDE DEF m
        <3>5. m \in 0 .. a /\ f[m] # g[m]
            BY <3>1, <3>4
        <3>6. f[0] = <<>> /\ g[0] = <<>>
            <4>1. 0 \in 0 .. a /\ 0 \in 0 .. b
                BY <2>1
            <4> QED BY <1>5, <4>1 DEF Recurs
        <3>7. m # 0
            BY <3>5, <3>6
        <3>8. m - 1 \in 0 .. a /\ m \in 1 .. a /\ m \in 0 .. b /\ ~(m <= m - 1)
            BY <2>1, <3>5, <3>7
        <3>9. f[m - 1] = g[m - 1]
            BY <3>2, <3>4, <3>8
        <3>10. f[m] = f[m - 1] \o ss[m]
            BY <1>5, <3>5, <3>7 DEF Recurs
        <3>11. g[m] = g[m - 1] \o tt[m]
            BY <1>5, <3>7, <3>8 DEF Recurs
        <3> QED BY <2>1, <3>5, <3>8, <3>9, <3>10, <3>11
    <2>3. a \in 0 .. a /\ b \in 0 .. b /\ b # 0 /\ b - 1 = a
        BY <1>3
    <2>4. f[a] = g[a] /\ f[a] \in Seq(Alphabet)
        BY <1>5, <2>2, <2>3 DEF Recurs
    <2>5. g[b] = g[b - 1] \o tt[b]
        BY <1>5, <2>3 DEF Recurs
    <2> QED BY <1>3, <2>3, <2>4, <2>5
<1>7. Concat(ss) = f[a] /\ Concat(tt) = g[b]
    BY <1>2, <1>4, ConcatMeans
<1> QED BY <1>1, <1>6, <1>7
-----------------------------------------------------------------------------
(* What is chosen from two strings *)

\* Places up to d, and places beyond it.
Beyond(I, d, J) == I \cup {d + j : j \in J}

\* Counting such places.
LEMMA CountBeyond ==
    ASSUME NEW I \in SUBSET Nat, IsFiniteSet(I), NEW J \in SUBSET (Nat \ {0}), IsFiniteSet(J),
           NEW d \in Nat, \A i \in I : i <= d
    PROVE  /\ IsFiniteSet(Beyond(I, d, J))
           /\ Cardinality(Beyond(I, d, J)) = Cardinality(I) + Cardinality(J)
<1> DEFINE T == {d + j : j \in J}
<1>1. T \in SUBSET Int /\ J \in SUBSET Int /\ d \in Int
    OBVIOUS
<1>2. (\A j \in J : j + d \in T) /\ (\A t \in T : t - d \in J)
    <2>1. \A j \in J : j + d = d + j /\ d + j - d = j
        OBVIOUS
    <2> QED BY <2>1
<1>3. Beyond(I, d, J) = I \cup T
    BY DEF Beyond
<1>4. I \cap T = {}
    OBVIOUS
<1> HIDE DEF T
<1>5. IsFiniteSet(T) /\ Cardinality(T) = Cardinality(J)
    BY <1>1, <1>2, ShiftedSet
<1>6. IsFiniteSet(I \cup T) /\ Cardinality(I \cup T) = Cardinality(I) + Cardinality(T) - Cardinality({})
    BY <1>4, <1>5, FS_Union
<1>7. Cardinality({}) = 0 /\ Cardinality(I) \in Nat /\ Cardinality(T) \in Nat
    BY <1>5, FS_EmptySet, FS_CardinalityType
<1> QED BY <1>3, <1>5, <1>6, <1>7

\* What is chosen from two strings is what is chosen from each.
LEMMA ChosenOfConcat ==
    ASSUME NEW S, NEW s \in Seq(S), NEW t \in Seq(S),
           NEW I \in SUBSET (DOMAIN s), NEW J \in SUBSET (DOMAIN t)
    PROVE  Chosen(s \o t, Beyond(I, Len(s), J)) = Chosen(s, I) \o Chosen(t, J)
<1> DEFINE u == s \o t
           d == Len(s)
           K == Beyond(I, d, J)
           a == Cardinality(I)
           b == Cardinality(J)
<1>1. /\ d \in Nat /\ DOMAIN s = 1 .. d /\ DOMAIN t = 1 .. Len(t) /\ Len(t) \in Nat /\ u \in Seq(S)
      /\ \A i \in DOMAIN s : u[i] = s[i]
      /\ \A j \in DOMAIN t : u[d + j] = t[j]
    OBVIOUS
<1> HIDE DEF u, d
<1>2. /\ I \in SUBSET Nat /\ IsFiniteSet(I) /\ a \in Nat /\ \A i \in I : i <= d
      /\ J \in SUBSET (Nat \ {0}) /\ IsFiniteSet(J) /\ b \in Nat
    BY <1>1, ChosenFacts
<1>3. /\ \A k \in K : k \in I \/ \E j \in J : k = d + j
      /\ \A i \in I : i \in K
      /\ \A j \in J : d + j \in K
    BY DEF Beyond
<1>4. K \in SUBSET (DOMAIN u)
    <2>1. DOMAIN u = 1 .. d + Len(t)
        BY DEF u, d
    <2> QED BY <1>1, <1>2, <1>3, <2>1
<1>5. IsFiniteSet(K) /\ Cardinality(K) = a + b
    BY <1>1, <1>2, CountBeyond
<1> HIDE DEF K
<1>6. K \in SUBSET Nat
    BY <1>1, <1>4
<1>7. ASSUME NEW i \in I PROVE Rank(K, i) = Rank(I, i)
    <2>1. \A k \in K : k <= i => k \in I
        BY <1>1, <1>2, <1>3
    <2>2. {k \in K : k <= i} = {k \in I : k <= i}
        BY <1>3, <2>1
    <2> QED BY <2>2 DEF Rank
<1>8. ASSUME NEW j \in J PROVE Rank(K, d + j) = a + Rank(J, j)
    <2> DEFINE L == {k \in K : k <= d + j}
               M == {k \in J : k <= j}
    <2>1. M \in SUBSET (Nat \ {0}) /\ M \in SUBSET J
        BY <1>2
    <2>2. IsFiniteSet(M)
        BY <1>2, <2>1, FS_Subset
    <2>3. ASSUME NEW k \in L PROVE k \in Beyond(I, d, M)
        <3>1. CASE k \notin I
            <4>1. PICK m \in J : k = d + m
                BY <1>3, <3>1
            <4>2. m <= j
                BY <1>1, <1>2, <4>1
            <4> QED BY <4>1, <4>2 DEF Beyond
        <3> QED BY <3>1 DEF Beyond
    <2>4. ASSUME NEW k \in Beyond(I, d, M) PROVE k \in L
        <3>1. k \in I \/ \E m \in M : k = d + m
            BY DEF Beyond
        <3>2. \A i \in I : i \in L
            BY <1>1, <1>2, <1>3
        <3>3. \A m \in M : d + m \in L
            BY <1>1, <1>2, <1>3
        <3> QED BY <3>1, <3>2, <3>3
    <2>5. L = Beyond(I, d, M)
        BY <2>3, <2>4
    <2> HIDE DEF L, M
    <2>6. Cardinality(L) = a + Cardinality(M)
        BY <1>1, <1>2, <2>1, <2>2, <2>5, CountBeyond
    <2> QED BY <2>6 DEF Rank, L, M
<1>9. PICK p \in Seq(S) : /\ p = Chosen(s, I) /\ Len(p) = a
                          /\ \A n \in 1 .. a : \E i \in I : Rank(I, i) = n /\ p[n] = s[i]
    BY ChosenFacts
<1>10. PICK q \in Seq(S) : /\ q = Chosen(t, J) /\ Len(q) = b
                          /\ \A n \in 1 .. b : \E j \in J : Rank(J, j) = n /\ q[n] = t[j]
    BY ChosenFacts
<1>11. PICK r \in Seq(S) : /\ r = Chosen(u, K) /\ Len(r) = a + b
                           /\ \A k \in K : r[Rank(K, k)] = u[k]
    BY <1>1, <1>5, <1>4, ChosenFacts
<1>12. ASSUME NEW n \in 1 .. a PROVE r[n] = p[n]
    <2>1. PICK i \in I : Rank(I, i) = n /\ p[n] = s[i]
        BY <1>9
    <2>2. Rank(K, i) = n /\ i \in K /\ i \in DOMAIN s
        BY <1>3, <1>7, <2>1
    <2> QED BY <1>1, <1>11, <2>1, <2>2
<1>13. ASSUME NEW n \in 1 .. b PROVE r[a + n] = q[n]
    <2>1. PICK j \in J : Rank(J, j) = n /\ q[n] = t[j]
        BY <1>10
    <2>2. Rank(K, d + j) = a + n /\ d + j \in K /\ j \in DOMAIN t
        BY <1>3, <1>8, <2>1
    <2> QED BY <1>1, <1>11, <2>1, <2>2
<1>14. r = p \o q
    <2> HIDE DEF a, b
    <2>1. /\ p \o q \in Seq(S) /\ Len(p \o q) = a + b
          /\ \A n \in 1 .. a : (p \o q)[n] = p[n]
          /\ \A n \in 1 .. b : (p \o q)[a + n] = q[n]
        <3>1. Len(p) = a /\ Len(q) = b
            BY <1>9, <1>10
        <3>2. p \o q \in Seq(S) /\ Len(p \o q) = Len(p) + Len(q)
            OBVIOUS
        <3>3. \A n \in 1 .. Len(p) : (p \o q)[n] = p[n]
            OBVIOUS
        <3>4. \A n \in 1 .. Len(q) : (p \o q)[Len(p) + n] = q[n]
            OBVIOUS
        <3> QED BY <3>1, <3>2, <3>3, <3>4
    <2>2. ASSUME NEW n \in 1 .. a + b PROVE r[n] = (p \o q)[n]
        <3>1. CASE n \in 1 .. a
            BY <1>12, <2>1, <3>1
        <3>2. CASE n \notin 1 .. a
            <4>1. n - a \in 1 .. b /\ a + (n - a) = n
                BY <1>2, <3>2
            <4>2. r[a + (n - a)] = q[n - a] /\ (p \o q)[a + (n - a)] = q[n - a]
                BY <1>13, <2>1, <4>1
            <4> QED BY <4>1, <4>2
        <3> QED BY <3>1, <3>2
    <2> DEFINE w == p \o q
    <2>3. w \in Seq(S) /\ Len(w) = a + b /\ \A n \in 1 .. a + b : r[n] = w[n]
        BY <2>1, <2>2
    <2> HIDE DEF w
    <2>4. r = w
        BY <1>2, <1>11, <2>3
    <2> QED BY <2>4 DEF w
<1> QED BY <1>9, <1>10, <1>11, <1>14 DEF u, K, d
-----------------------------------------------------------------------------
(* Ink *)

Cat(s, t) == s \o t

\* Cat is \o under a name of its own, so that a step can cite its laws alone.
LEMMA CatFacts ==
    ASSUME NEW S, NEW s \in Seq(S), NEW t \in Seq(S)
    PROVE  Cat(s, t) \in Seq(S) /\ Cat(<<>>, s) = s /\ Cat(s, <<>>) = s
BY DEF Cat

LEMMA CatAssociates ==
    ASSUME NEW S, NEW s \in Seq(S), NEW t \in Seq(S), NEW u \in Seq(S)
    PROVE  Cat(Cat(s, t), u) = Cat(s, Cat(t, u))
BY DEF Cat

Picked(s, U) == Chosen(s, {i \in DOMAIN s : s[i] \notin U})

\* Picked(s, U) is s without the members of U: a string, which distributes
\* over Cat, and is empty when all of s is in U.
LEMMA PickedType ==
    ASSUME NEW S, NEW s \in Seq(S), NEW U
    PROVE  Picked(s, U) \in Seq(S)
<1>1. {i \in DOMAIN s : s[i] \notin U} \in SUBSET (DOMAIN s)
    OBVIOUS
<1> QED BY <1>1, ChosenFacts DEF Picked

LEMMA PickedOfCat ==
    ASSUME NEW S, NEW s \in Seq(S), NEW t \in Seq(S), NEW U
    PROVE  Picked(Cat(s, t), U) = Cat(Picked(s, U), Picked(t, U))
<1> DEFINE I == {i \in DOMAIN s : s[i] \notin U}
           J == {j \in DOMAIN t : t[j] \notin U}
           K == {k \in DOMAIN (s \o t) : (s \o t)[k] \notin U}
<1>1. I \in SUBSET (DOMAIN s) /\ J \in SUBSET (DOMAIN t)
    OBVIOUS
<1>2. /\ DOMAIN (s \o t) = 1 .. Len(s) + Len(t) /\ DOMAIN s = 1 .. Len(s) /\ DOMAIN t = 1 .. Len(t)
      /\ Len(s) \in Nat /\ Len(t) \in Nat
    OBVIOUS
<1>3. \A i \in 1 .. Len(s) : (s \o t)[i] = s[i]
    OBVIOUS
<1>4. \A j \in 1 .. Len(t) : (s \o t)[Len(s) + j] = t[j]
    OBVIOUS
<1>5. ASSUME NEW k \in K PROVE k \in Beyond(I, Len(s), J)
    <2>1. CASE k \in 1 .. Len(s)
        BY <1>2, <1>3, <2>1 DEF Beyond
    <2>2. CASE k \notin 1 .. Len(s)
        <3>1. k - Len(s) \in 1 .. Len(t) /\ Len(s) + (k - Len(s)) = k
            BY <1>2, <2>2
        <3>2. k - Len(s) \in J
            BY <1>2, <1>4, <3>1
        <3> QED BY <3>1, <3>2 DEF Beyond
    <2> QED BY <2>1, <2>2
<1>6. ASSUME NEW k \in Beyond(I, Len(s), J) PROVE k \in K
    <2>1. CASE k \in I
        BY <1>2, <1>3, <2>1
    <2>2. ASSUME NEW j \in J, k = Len(s) + j PROVE k \in K
        BY <1>2, <1>4, <2>2
    <2> QED BY <2>1, <2>2 DEF Beyond
<1>7. K = Beyond(I, Len(s), J)
    BY <1>5, <1>6
<1> HIDE DEF I, J, K
<1>8. Chosen(s \o t, Beyond(I, Len(s), J)) = Chosen(s, I) \o Chosen(t, J)
    BY <1>1, ChosenOfConcat
<1>9. Chosen(s \o t, K) = Chosen(s, I) \o Chosen(t, J)
    BY <1>7, <1>8
<1> QED BY <1>9 DEF Picked, Cat, I, J, K

LEMMA PickedNone ==
    ASSUME NEW S, NEW s \in Seq(S), NEW U
    PROVE  Picked(s, U) = <<>> <=> \A i \in DOMAIN s : s[i] \in U
<1> DEFINE I == {i \in DOMAIN s : s[i] \notin U}
<1>1. I \in SUBSET (DOMAIN s) /\ (I = {} <=> \A i \in DOMAIN s : s[i] \in U)
    OBVIOUS
<1> HIDE DEF I
<1>2. IsFiniteSet(I) /\ Chosen(s, I) \in Seq(S) /\ Len(Chosen(s, I)) = Cardinality(I)
    BY <1>1, ChosenFacts
<1>3. I = {} <=> Cardinality(I) = 0
    BY <1>2, FS_EmptySet
<1>4. PICK c \in Seq(S) : c = Chosen(s, I)
    BY <1>2
<1>5. c = <<>> <=> Len(c) = 0
    OBVIOUS
<1> QED BY <1>1, <1>2, <1>3, <1>4, <1>5 DEF Picked, I

\* A string is its beginning and its end, and so is what is picked of it.
LEMMA CutInTwo ==
    ASSUME NEW S, NEW s \in Seq(S), NEW k \in 0 .. Len(s)
    PROVE  /\ SubSeq(s, 1, k) \in Seq(S) /\ SubSeq(s, k + 1, Len(s)) \in Seq(S)
           /\ s = Cat(SubSeq(s, 1, k), SubSeq(s, k + 1, Len(s)))
<1>1. /\ 1 \in 1 .. Len(s) + 1 /\ k + 1 \in 1 .. Len(s) + 1 /\ Len(s) \in 0 .. Len(s) /\ Len(s) \in Nat /\ k \in Nat
      /\ k \in 0 .. Len(s)
    OBVIOUS
<1>2. /\ SubSeq(s, 1, k) \in Seq(S) /\ Len(SubSeq(s, 1, k)) = (IF 1 <= k THEN k - 1 + 1 ELSE 0)
      /\ \A i \in 1 .. Len(SubSeq(s, 1, k)) : SubSeq(s, 1, k)[i] = s[1 + i - 1]
    BY <1>1, PartOfString
<1>3. /\ SubSeq(s, k + 1, Len(s)) \in Seq(S)
      /\ Len(SubSeq(s, k + 1, Len(s))) = (IF k + 1 <= Len(s) THEN Len(s) - (k + 1) + 1 ELSE 0)
      /\ \A i \in 1 .. Len(SubSeq(s, k + 1, Len(s))) : SubSeq(s, k + 1, Len(s))[i] = s[k + 1 + i - 1]
    BY <1>1, PartOfString
<1>4. PICK p \in Seq(S) : p = SubSeq(s, 1, k)
    BY <1>2
<1>5. PICK q \in Seq(S) : q = SubSeq(s, k + 1, Len(s))
    BY <1>3
<1>6. /\ Len(p) = k /\ Len(q) = Len(s) - k
      /\ \A i \in 1 .. k : p[i] = s[i]
      /\ \A i \in 1 .. Len(s) - k : q[i] = s[k + i]
    <2>1. Len(p) = k /\ Len(q) = Len(s) - k
        BY <1>1, <1>2, <1>3, <1>4, <1>5
    <2>2. \A i \in 1 .. k : p[i] = s[1 + i - 1] /\ 1 + i - 1 = i
        BY <1>1, <1>2, <1>4, <2>1
    <2>3. \A i \in 1 .. Len(s) - k : q[i] = s[k + 1 + i - 1] /\ k + 1 + i - 1 = k + i
        BY <1>1, <1>3, <1>5, <2>1
    <2> QED BY <2>1, <2>2, <2>3
<1>7. s = p \o q
    <2> DEFINE w == p \o q
    <2>1. w \in Seq(S) /\ Len(w) = Len(p) + Len(q)
        OBVIOUS
    <2>2. \A i \in 1 .. Len(p) : w[i] = p[i]
        OBVIOUS
    <2>3. \A i \in 1 .. Len(q) : w[Len(p) + i] = q[i]
        OBVIOUS
    <2> HIDE DEF w
    <2>4. Len(w) = Len(s)
        BY <1>1, <1>6, <2>1
    <2>5. ASSUME NEW i \in 1 .. Len(s) PROVE s[i] = w[i]
        <3>1. CASE i <= k
            <4>1. i \in 1 .. k /\ i \in 1 .. Len(p)
                BY <1>1, <1>6, <3>1
            <4> QED BY <1>6, <2>2, <4>1
        <3>2. CASE i > k
            <4>1. i - k \in 1 .. Len(s) - k /\ i - k \in 1 .. Len(q) /\ Len(p) + (i - k) = i /\ k + (i - k) = i
                BY <1>1, <1>6, <3>2
            <4>2. w[Len(p) + (i - k)] = q[i - k] /\ q[i - k] = s[k + (i - k)]
                BY <1>6, <2>3, <4>1
            <4> QED BY <4>1, <4>2
        <3> QED BY <1>1, <3>1, <3>2
    <2>6. s = w
        BY <2>1, <2>4, <2>5
    <2> QED BY <2>6 DEF w
<1> QED BY <1>4, <1>5, <1>7 DEF Cat

LEMMA PickedOfParts ==
    ASSUME NEW S, NEW s \in Seq(S), NEW k \in 0 .. Len(s), NEW U
    PROVE  /\ Picked(s, U) = Cat(Picked(SubSeq(s, 1, k), U), Picked(SubSeq(s, k + 1, Len(s)), U))
           /\ (\A i \in 1 .. k : s[i] \in U) => Picked(SubSeq(s, k + 1, Len(s)), U) = Picked(s, U)
           /\ (\A i \in k + 1 .. Len(s) : s[i] \in U) => Picked(SubSeq(s, 1, k), U) = Picked(s, U)
<1> DEFINE p == SubSeq(s, 1, k)
           q == SubSeq(s, k + 1, Len(s))
<1>1. p \in Seq(S) /\ q \in Seq(S) /\ s = Cat(p, q)
    BY CutInTwo
<1>2. 1 \in 1 .. Len(s) + 1 /\ k + 1 \in 1 .. Len(s) + 1 /\ Len(s) \in 0 .. Len(s) /\ Len(s) \in Nat /\ k \in Nat
    OBVIOUS
<1>3. /\ Len(p) = (IF 1 <= k THEN k - 1 + 1 ELSE 0)
      /\ \A i \in 1 .. Len(p) : p[i] = s[1 + i - 1]
    BY <1>2, PartOfString
<1>4. /\ Len(q) = (IF k + 1 <= Len(s) THEN Len(s) - (k + 1) + 1 ELSE 0)
      /\ \A i \in 1 .. Len(q) : q[i] = s[k + 1 + i - 1]
    BY <1>2, PartOfString
<1> HIDE DEF p, q
<1>5. Picked(s, U) = Cat(Picked(p, U), Picked(q, U))
    BY <1>1, PickedOfCat
<1>6. Picked(p, U) \in Seq(S) /\ Picked(q, U) \in Seq(S)
    BY <1>1, PickedType
<1>7. DOMAIN p = 1 .. Len(p) /\ DOMAIN q = 1 .. Len(q)
    BY <1>1
<1>8. ASSUME \A i \in 1 .. k : s[i] \in U PROVE Picked(q, U) = Picked(s, U)
    <2>1. \A i \in DOMAIN p : p[i] \in U
        BY <1>2, <1>3, <1>7, <1>8
    <2>2. Picked(p, U) = <<>>
        BY <1>1, <2>1, PickedNone
    <2> QED BY <1>5, <1>6, <2>2, CatFacts
<1>9. ASSUME \A i \in k + 1 .. Len(s) : s[i] \in U PROVE Picked(p, U) = Picked(s, U)
    <2>1. \A i \in DOMAIN q : q[i] \in U
        <3> SUFFICES ASSUME NEW i \in 1 .. Len(q) PROVE q[i] \in U
            BY <1>7
        <3>1. k + 1 + i - 1 \in k + 1 .. Len(s) /\ q[i] = s[k + 1 + i - 1]
            BY <1>2, <1>4
        <3> QED BY <1>9, <3>1
    <2>2. Picked(q, U) = <<>>
        BY <1>1, <2>1, PickedNone
    <2> QED BY <1>5, <1>6, <2>2, CatFacts
<1> QED BY <1>5, <1>8, <1>9 DEF p, q

LEMMA InkIsPicked ==
    ASSUME NEW s
    PROVE  Ink(s) = Picked(s, Blank)
BY DEF Ink, Picked

\* Stripping blanks loses no ink, and leaves nothing or some ink.
LEMMA InkOfStrip ==
    ASSUME NEW S, NEW s \in Seq(S)
    PROVE  /\ \A set \in SUBSET Blank : /\ LeftStrip(s, set) \in Seq(S)
                                        /\ Ink(LeftStrip(s, set)) = Ink(s)
           /\ RightStrip(s, Blank) \in Seq(S) /\ Ink(RightStrip(s, Blank)) = Ink(s)
           /\ Strip(s) \in Seq(S) /\ Ink(Strip(s)) = Ink(s)
           /\ Strip(s) # <<>> => Ink(s) # <<>>
<1>1. ASSUME NEW t \in Seq(S), NEW set \in SUBSET Blank
      PROVE  LeftStrip(t, set) \in Seq(S) /\ Ink(LeftStrip(t, set)) = Ink(t)
    <2>1. PICK k \in 1 .. Len(t) + 1 : /\ LeftStrip(t, set) = SubSeq(t, k, Len(t))
                                       /\ \A i \in 1 .. k - 1 : t[i] \in set
        BY LeftStripFacts
    <2>2. PICK h \in 0 .. Len(t) : h = k - 1 /\ h + 1 = k
        OBVIOUS
    <2>3. \A i \in 1 .. h : t[i] \in Blank
        BY <2>1, <2>2
    <2>4. Picked(SubSeq(t, h + 1, Len(t)), Blank) = Picked(t, Blank) /\ SubSeq(t, h + 1, Len(t)) \in Seq(S)
        BY <2>3, PickedOfParts, CutInTwo
    <2> QED BY <2>1, <2>2, <2>4, InkIsPicked
<1>2. ASSUME NEW t \in Seq(S)
      PROVE  RightStrip(t, Blank) \in Seq(S) /\ Ink(RightStrip(t, Blank)) = Ink(t)
    <2>1. PICK k \in 0 .. Len(t) : /\ RightStrip(t, Blank) = SubSeq(t, 1, k)
                                   /\ \A i \in k + 1 .. Len(t) : t[i] \in Blank
        BY RightStripFacts
    <2>2. Picked(SubSeq(t, 1, k), Blank) = Picked(t, Blank) /\ SubSeq(t, 1, k) \in Seq(S)
        BY <2>1, PickedOfParts, CutInTwo
    <2> QED BY <2>1, <2>2, InkIsPicked
<1>3. PICK l \in Seq(S) : l = LeftStrip(s, Blank) /\ Ink(l) = Ink(s)
    BY <1>1
<1>4. Strip(s) = RightStrip(l, Blank)
    BY <1>3 DEF Strip
<1>5. Strip(s) \in Seq(S) /\ Ink(Strip(s)) = Ink(s)
    BY <1>2, <1>3, <1>4
<1>6. ASSUME Strip(s) # <<>> PROVE Ink(s) # <<>>
    <2>1. PICK k \in 0 .. Len(l) : /\ Strip(s) = SubSeq(l, 1, k)
                                   /\ k > 0 => l[k] \notin Blank
        BY <1>4, RightStripFacts
    <2>2. k # 0
        BY <1>6, <2>1
    <2>3. k \in DOMAIN l /\ l[k] \notin Blank
        BY <2>1, <2>2
    <2>4. Picked(l, Blank) # <<>>
        BY <2>3, PickedNone
    <2> QED BY <1>3, <2>4, InkIsPicked
<1> QED BY <1>1, <1>2, <1>5, <1>6
-----------------------------------------------------------------------------
(* Sections and chunks as ink *)

Bodies(cs) == [n \in DOMAIN cs |-> cs[n].body]
Kept(cs) == Ink(Concat(Bodies(cs)))
Written(s) == Picked(s, Blank \cup Headers)
Before(t, i) == IF i = 0 THEN <<>> ELSE SubSeq(t, 1, i - 1)

\* The ink of the chunks and of what is still to be cut is that of the
\* sections so far, in this order.
TextKept ==
    Cat(Kept(chunks), Cat(Ink(joined), Cat(Ink(rest), Ink(tail)))) = Written(Before(text, next))

RestIdle == phase # "words" => rest = <<>>

\* The same of ink, where U is the blanks.
LEMMA InkOfCat ==
    ASSUME NEW S, NEW s \in Seq(S), NEW t \in Seq(S)
    PROVE  Ink(s) \in Seq(S) /\ Ink(Cat(s, t)) = Cat(Ink(s), Ink(t))
BY InkIsPicked, PickedType, PickedOfCat

LEMMA InkOfNothing == Ink(<<>>) = <<>>
<1>1. <<>> \in Seq(Alphabet) /\ DOMAIN <<>> = {}
    OBVIOUS
<1>2. Picked(<<>>, Blank) = <<>>
    BY <1>1, PickedNone
<1> QED BY <1>2, InkIsPicked

\* Two strings are equal when they are so at every place.
LEMMA SameString ==
    ASSUME NEW S, NEW s \in Seq(S), NEW t \in Seq(S), Len(s) = Len(t),
           \A i \in 1 .. Len(t) : s[i] = t[i]
    PROVE  s = t
OBVIOUS

LEMMA AsFunction ==
    ASSUME NEW S, NEW s \in Seq(S)
    PROVE  s = [i \in 1 .. Len(s) |-> s[i]]
OBVIOUS

\* The bodies of one chunk more.
LEMMA BodiesOfAppend ==
    ASSUME NEW cs \in Seq(Chunk), NEW c \in Chunk
    PROVE  /\ Bodies(cs) \in Seq(Seq(Alphabet))
           /\ Bodies(Append(cs, c)) = Append(Bodies(cs), c.body)
<1>1. DOMAIN cs = 1 .. Len(cs) /\ Len(cs) \in Nat /\ \A n \in 1 .. Len(cs) : cs[n].body \in Seq(Alphabet)
    <2>1. DOMAIN cs = 1 .. Len(cs) /\ Len(cs) \in Nat /\ \A n \in 1 .. Len(cs) : cs[n] \in Chunk
        OBVIOUS
    <2>2. \A d \in Chunk : d.body \in Seq(Alphabet)
        BY DEF Chunk
    <2> QED BY <2>1, <2>2
<1>2. Bodies(cs) \in [1 .. Len(cs) -> Seq(Alphabet)]
    BY <1>1 DEF Bodies
<1>3. Bodies(cs) \in Seq(Seq(Alphabet)) /\ Len(Bodies(cs)) = Len(cs)
    BY <1>1, <1>2
<1>4. \A n \in 1 .. Len(cs) : Bodies(cs)[n] = cs[n].body
    BY <1>1 DEF Bodies
<1>5. PICK bs \in Seq(Seq(Alphabet)) : bs = Bodies(cs)
    BY <1>3
<1>6. c.body \in Seq(Alphabet)
    BY DEF Chunk
<1>7. /\ Append(bs, c.body) \in Seq(Seq(Alphabet)) /\ Len(Append(bs, c.body)) = Len(cs) + 1
      /\ \A n \in 1 .. Len(cs) : Append(bs, c.body)[n] = cs[n].body
      /\ Append(bs, c.body)[Len(cs) + 1] = c.body
    BY <1>1, <1>3, <1>4, <1>5, <1>6
<1>8. /\ DOMAIN Append(cs, c) = 1 .. Len(cs) + 1
      /\ \A n \in 1 .. Len(cs) : Append(cs, c)[n] = cs[n]
      /\ Append(cs, c)[Len(cs) + 1] = c
    BY <1>1
<1>9. Bodies(Append(cs, c)) = [n \in 1 .. Len(cs) + 1 |-> Append(cs, c)[n].body]
    BY <1>8 DEF Bodies
<1> DEFINE as == Append(bs, c.body)
           ds == Bodies(Append(cs, c))
<1>10. as \in Seq(Seq(Alphabet)) /\ Len(as) = Len(cs) + 1
    BY <1>7
<1>11. \A n \in 1 .. Len(cs) + 1 : as[n] = Append(cs, c)[n].body
    BY <1>1, <1>7, <1>8
<1>12. as = [n \in 1 .. Len(cs) + 1 |-> Append(cs, c)[n].body]
    <2>1. as = [n \in 1 .. Len(cs) + 1 |-> as[n]]
        <3> HIDE DEF as
        <3>1. as = [n \in 1 .. Len(as) |-> as[n]]
            BY <1>10, AsFunction
        <3> QED BY <1>10, <3>1
    <2> QED BY <1>11, <2>1
<1> QED BY <1>3, <1>5, <1>9, <1>12

\* Put keeps the ink of the body, even where it drops the chunk.
LEMMA PutKeeps ==
    ASSUME chunks \in Seq(Chunk), NEW crumb \in Seq(Nat), NEW body \in Seq(Alphabet)
    PROVE  /\ Kept(chunks) \in Seq(Alphabet)
           /\ Kept(Put(crumb, body)) = Cat(Kept(chunks), Ink(body))
<1> DEFINE b == IF crumb = <<>> THEN Strip(body) ELSE RightStrip(body, Blank)
           c == [crumb |-> crumb, body |-> b]
<1>1. b \in Seq(Alphabet) /\ Ink(b) = Ink(body)
    BY InkOfStrip
<1>2. Put(crumb, body) = IF crumb = <<>> /\ b = <<>> THEN chunks ELSE Append(chunks, c)
    BY DEF Put
<1>3. c.body = b /\ c \in Chunk
    <2> HIDE DEF b
    <2> QED BY <1>1 DEF Chunk
<1> HIDE DEF b, c
<1>4. Bodies(chunks) \in Seq(Seq(Alphabet)) /\ Bodies(Append(chunks, c)) = Append(Bodies(chunks), b)
    BY <1>3, BodiesOfAppend
<1>5. /\ Concat(Bodies(chunks)) \in Seq(Alphabet)
      /\ Concat(Append(Bodies(chunks), b)) = Cat(Concat(Bodies(chunks)), b)
    BY <1>1, <1>4, ConcatOfAppend DEF Cat
<1>6. Kept(chunks) \in Seq(Alphabet)
    BY <1>5, InkOfCat DEF Kept
<1>7. CASE crumb = <<>> /\ b = <<>>
    <2>1. Ink(body) = <<>>
        BY <1>1, <1>7, InkOfNothing
    <2>2. Put(crumb, body) = chunks
        BY <1>2, <1>7
    <2> QED BY <1>6, <2>1, <2>2, CatFacts
<1>8. CASE ~(crumb = <<>> /\ b = <<>>)
    <2>1. Kept(Put(crumb, body)) = Ink(Cat(Concat(Bodies(chunks)), b))
        BY <1>2, <1>4, <1>5, <1>8 DEF Kept
    <2>2. Ink(Cat(Concat(Bodies(chunks)), b)) = Cat(Kept(chunks), Ink(b))
        BY <1>1, <1>5, InkOfCat DEF Kept
    <2> QED BY <1>1, <1>6, <2>1, <2>2
<1> QED BY <1>7, <1>8

\* Only membership of what is in the string matters.
LEMMA PickedSame ==
    ASSUME NEW s, NEW U, NEW V, \A i \in DOMAIN s : s[i] \in U <=> s[i] \in V
    PROVE  Picked(s, U) = Picked(s, V)
<1>1. {i \in DOMAIN s : s[i] \notin U} = {i \in DOMAIN s : s[i] \notin V}
    OBVIOUS
<1> QED BY <1>1 DEF Picked

\* A part of a beginning of a string is a part of the string.
LEMMA PartOfPart ==
    ASSUME NEW S, NEW s \in Seq(S), NEW b \in 0 .. Len(s), NEW a \in 1 .. b + 1, NEW c \in 0 .. b
    PROVE  SubSeq(SubSeq(s, 1, b), a, c) = SubSeq(s, a, c)
<1>1. /\ 1 \in 1 .. Len(s) + 1 /\ a \in 1 .. Len(s) + 1 /\ c \in 0 .. Len(s) /\ Len(s) \in Nat
      /\ a \in Nat /\ b \in Nat /\ c \in Nat
    OBVIOUS
<1> DEFINE p == SubSeq(s, 1, b)
           q == SubSeq(p, a, c)
           r == SubSeq(s, a, c)
<1>2. /\ p \in Seq(S) /\ Len(p) = (IF 1 <= b THEN b - 1 + 1 ELSE 0)
      /\ \A i \in 1 .. Len(p) : p[i] = s[1 + i - 1]
    BY <1>1, PartOfString
<1> HIDE DEF p
<1>3. Len(p) = b /\ a \in 1 .. Len(p) + 1 /\ c \in 0 .. Len(p)
    BY <1>1, <1>2
<1>4. /\ q \in Seq(S) /\ Len(q) = (IF a <= c THEN c - a + 1 ELSE 0)
      /\ \A i \in 1 .. Len(q) : q[i] = p[a + i - 1]
    BY <1>2, <1>3, PartOfString
<1>5. /\ r \in Seq(S) /\ Len(r) = (IF a <= c THEN c - a + 1 ELSE 0)
      /\ \A i \in 1 .. Len(r) : r[i] = s[a + i - 1]
    BY <1>1, PartOfString
<1> HIDE DEF q, r
<1>6. ASSUME NEW i \in 1 .. Len(r) PROVE q[i] = r[i]
    <2>1. a + i - 1 \in 1 .. Len(p) /\ 1 + (a + i - 1) - 1 = a + i - 1
        BY <1>1, <1>3, <1>5
    <2> QED BY <1>2, <1>4, <1>5, <2>1
<1>7. q = r
    <2>1. Len(q) = Len(r)
        BY <1>4, <1>5
    <2> QED BY <1>4, <1>5, <1>6, <2>1, SameString
<1> QED BY <1>7 DEF p, q, r

\* The text up to the end of a section is that before it, its heading and its
\* body.
LEMMA SectionIsWritten ==
    ASSUME text \in Seq(Alphabet), NEW i \in HeadsOf(text) \cup {0}, i <= Len(text)
    PROVE  /\ Before(text, i) \in Seq(Alphabet)
           /\ Written(Before(text, NextHead(i))) = Cat(Written(Before(text, i)), Ink(Body(text, i)))
<1>1. i \in 0 .. Len(text) /\ Len(text) \in Nat
    BY DEF HeadsOf
<1> DEFINE U == Blank \cup Headers
           e == NextHead(i) - 1
           p == SubSeq(text, 1, e)
           b == Body(text, i)
<1>2. /\ e \in i .. Len(text) /\ NextHead(i) # 0 /\ NextHead(i) \in i + 1 .. Len(text) + 1
      /\ \A j \in HeadsOf(text) : j > i => j > e
    <2>1. /\ NextHead(i) \in i + 1 .. Len(text) + 1
          /\ \A j \in HeadsOf(text) : j > i => j >= NextHead(i)
        BY <1>1, NextHeadFacts
    <2>2. \A j \in HeadsOf(text) : j \in Nat
        BY DEF HeadsOf
    <2> QED BY <1>1, <2>1, <2>2
<1>3. b = SubSeq(text, i + 1, e) /\ b \in Seq(Alphabet)
    BY <1>1, BodyIsPart
<1>4. Before(text, NextHead(i)) = p
    BY <1>2 DEF Before
<1> HIDE DEF e, b
<1>5. /\ 1 \in 1 .. Len(text) + 1 /\ e \in 0 .. Len(text) /\ i + 1 \in 1 .. Len(text) + 1
      /\ i + 1 \in 1 .. e + 1 /\ i \in 0 .. e /\ e \in 0 .. e
    BY <1>1, <1>2
<1>6. p \in Seq(Alphabet) /\ Len(p) = e
    <2>1. p \in Seq(Alphabet) /\ Len(p) = IF 1 <= e THEN e - 1 + 1 ELSE 0
        BY <1>5, PartOfString
    <2> QED BY <1>5, <2>1
<1>7. Picked(b, U) = Ink(b)
    <2>1. /\ Len(b) = (IF i + 1 <= e THEN e - (i + 1) + 1 ELSE 0)
          /\ \A k \in 1 .. Len(b) : b[k] = text[i + 1 + k - 1]
        BY <1>3, <1>5, PartOfString
    <2>2. ASSUME NEW k \in 1 .. Len(b) PROVE b[k] \notin Headers
        <3>1. i + 1 + k - 1 \in DOMAIN text /\ i + 1 + k - 1 > i /\ ~(i + 1 + k - 1 > e)
            BY <1>1, <1>2, <2>1
        <3>2. i + 1 + k - 1 \notin HeadsOf(text)
            BY <1>2, <3>1
        <3> QED BY <2>1, <3>1, <3>2 DEF HeadsOf
    <2>3. \A k \in DOMAIN b : b[k] \in U <=> b[k] \in Blank
        BY <1>3, <2>2
    <2> HIDE DEF U
    <2>4. Picked(b, U) = Picked(b, Blank)
        BY <2>3, PickedSame
    <2> QED BY <2>4, InkIsPicked
<1>8. CASE i = 0
    <2>1. p = b /\ Before(text, i) = <<>>
        BY <1>3, <1>8 DEF Before
    <2>2. <<>> \in Seq(Alphabet) /\ DOMAIN <<>> = {}
        OBVIOUS
    <2>3. Written(<<>>) = <<>>
        BY <2>2, PickedNone DEF Written
    <2>4. Ink(b) \in Seq(Alphabet)
        BY <1>3, InkOfCat
    <2>5. Cat(<<>>, Ink(b)) = Ink(b)
        BY <2>4, CatFacts
    <2> QED BY <1>4, <1>7, <2>1, <2>2, <2>3, <2>5 DEF Written, b
<1>9. CASE i # 0
    <2>1. i \in HeadsOf(text) /\ i >= 1 /\ i \in DOMAIN text /\ text[i] \in Headers
        BY <1>1, <1>9 DEF HeadsOf
    <2> DEFINE q == SubSeq(text, 1, i)
               r == SubSeq(text, 1, i - 1)
    <2>2. SubSeq(p, 1, i) = q /\ SubSeq(p, i + 1, e) = b
        <3>1. 1 \in 1 .. e + 1
            BY <1>5
        <3> QED BY <1>3, <1>5, <3>1, PartOfPart
    <2>3. Picked(p, U) = Cat(Picked(q, U), Picked(b, U))
        <3>1. i \in 0 .. Len(p)
            BY <1>5, <1>6
        <3> HIDE DEF p, q, U
        <3>2. Picked(p, U) = Cat(Picked(SubSeq(p, 1, i), U), Picked(SubSeq(p, i + 1, Len(p)), U))
            BY <1>6, <3>1, PickedOfParts
        <3> QED BY <1>6, <2>2, <3>2
    <2>4. q \in Seq(Alphabet) /\ Len(q) = i /\ q[i] = text[i]
        <3>1. /\ q \in Seq(Alphabet) /\ Len(q) = (IF 1 <= i THEN i - 1 + 1 ELSE 0)
              /\ \A k \in 1 .. Len(q) : q[k] = text[1 + k - 1]
            BY <1>1, <1>5, PartOfString
        <3>2. Len(q) = i /\ i \in 1 .. Len(q) /\ 1 + i - 1 = i
            BY <1>1, <2>1, <3>1
        <3> QED BY <3>1, <3>2
    <2>5. SubSeq(q, 1, i - 1) = r
        <3>1. i - 1 \in 0 .. i /\ 1 \in 1 .. i + 1
            BY <1>1, <2>1
        <3> QED BY <1>1, <3>1, PartOfPart
    <2>6. Picked(r, U) = Picked(q, U)
        <3>1. i - 1 \in 0 .. Len(q) /\ Len(q) = i /\ i - 1 + 1 = i
            BY <1>1, <2>1, <2>4
        <3>2. \A k \in i - 1 + 1 .. Len(q) : q[k] \in U
            BY <2>1, <2>4, <3>1
        <3> HIDE DEF q, r, U
        <3>3. Picked(SubSeq(q, 1, i - 1), U) = Picked(q, U)
            BY <2>4, <3>1, <3>2, PickedOfParts
        <3> QED BY <2>5, <3>3
    <2>7. Before(text, i) = r /\ r \in Seq(Alphabet)
        <3>1. i - 1 \in 0 .. Len(text)
            BY <1>1, <2>1
        <3> QED BY <1>5, <1>9, <3>1, PartOfString DEF Before
    <2> QED BY <1>4, <1>7, <2>3, <2>6, <2>7 DEF Written, b
<1> QED BY <1>8, <1>9
-----------------------------------------------------------------------------
(* No text is lost *)

\* Everything that TextKept relates is a string.
LEMMA KeptTypes ==
    ASSUME ChunkTypes
    PROVE  /\ {Kept(chunks), Ink(joined), Ink(rest), Ink(tail), <<>>} \subseteq Seq(Alphabet)
           /\ chunks \in Seq(Chunk) /\ stack \in Seq(Nat) /\ text \in Seq(Alphabet)
           /\ joined \in Seq(Alphabet) /\ rest \in Seq(Alphabet) /\ tail \in Seq(Alphabet)
<1>1. /\ chunks \in Seq(Chunk) /\ stack \in Seq(Nat) /\ text \in Seq(Alphabet)
      /\ joined \in Seq(Alphabet) /\ rest \in Seq(Alphabet) /\ tail \in Seq(Alphabet)
    BY DEF ChunkTypes
<1>2. Ink(joined) \in Seq(Alphabet) /\ Ink(rest) \in Seq(Alphabet) /\ Ink(tail) \in Seq(Alphabet)
    BY <1>1, InkOfCat
<1>3. Kept(chunks) \in Seq(Alphabet)
    BY <1>1, PutKeeps
<1>4. <<>> \in Seq(Alphabet)
    OBVIOUS
<1> QED BY <1>1, <1>2, <1>3, <1>4

\* Nothing is under way between two sections.
LEMMA NothingUnderWay ==
    ASSUME ChunkTypes, TextKept, joined = <<>>, rest = <<>>, tail = <<>>
    PROVE  Kept(chunks) = Written(Before(text, next))
<1>1. Kept(chunks) \in Seq(Alphabet) /\ <<>> \in Seq(Alphabet)
    BY KeptTypes
<1>2. Cat(<<>>, Cat(<<>>, <<>>)) = <<>>
    BY <1>1, CatFacts
<1>3. Cat(Kept(chunks), Cat(Ink(<<>>), Cat(Ink(<<>>), Ink(<<>>)))) = Written(Before(text, next))
    BY DEF TextKept
<1> QED BY <1>1, <1>2, <1>3, InkOfNothing, CatFacts

\* The next lemmas: one per action, that TextKept holds after it.  A section
\* that is entered adds the ink of its body.
LEMMA EnterKeeps ==
    ASSUME FitInv, RestIdle, TextKept, Enter, phase = "sections"
    PROVE  /\ Written(Before(text', next')) = Cat(Kept(chunks), Ink(Strip(Body(text, next))))
           /\ Ink(Strip(Body(text, next))) \in Seq(Alphabet) /\ Strip(Body(text, next)) \in Seq(Alphabet)
           /\ joined = <<>> /\ rest = <<>> /\ tail = <<>> /\ joined' = <<>>
<1>1. /\ ChunkTypes /\ text \in Seq(Alphabet)
      /\ joined = <<>> /\ rest = <<>> /\ tail = <<>> /\ joined' = joined
      /\ text' = text /\ next' = NextHead(next) /\ next <= Len(text)
    BY DEF FitInv, ChunkTypes, Pieces, RestIdle, Enter
<1>2. next \in HeadsOf(text) \cup {0}
    BY <1>1 DEF ChunkTypes
<1>3. Kept(chunks) = Written(Before(text, next))
    BY <1>1, NothingUnderWay
<1>4. Body(text, next) \in Seq(Alphabet) /\ Strip(Body(text, next)) \in Seq(Alphabet)
    BY <1>1, EnterFacts
<1>5. Ink(Strip(Body(text, next))) = Ink(Body(text, next)) /\ Ink(Strip(Body(text, next))) \in Seq(Alphabet)
    BY <1>4, InkOfStrip, InkOfCat
<1>6. Written(Before(text, NextHead(next))) = Cat(Written(Before(text, next)), Ink(Body(text, next)))
    BY <1>1, <1>2, SectionIsWritten
<1> QED BY <1>1, <1>3, <1>4, <1>5, <1>6

LEMMA EnterText ==
    ASSUME FitInv, RestIdle, TextKept, TakeWhole \/ TakeWords \/ TakeParagraphs
    PROVE  TextKept'
<1> DEFINE b == Strip(Body(text, next))
<1>1. Enter /\ phase = "sections"
    BY DEF TakeWhole, TakeWords, TakeParagraphs, Enter
<1>2. /\ Written(Before(text', next')) = Cat(Kept(chunks), Ink(b))
      /\ Ink(b) \in Seq(Alphabet) /\ b \in Seq(Alphabet)
      /\ joined = <<>> /\ rest = <<>> /\ tail = <<>> /\ joined' = <<>>
    BY <1>1, EnterKeeps
<1>3. ChunkTypes /\ chunks \in Seq(Chunk) /\ Push(next) \in Seq(Nat)
    BY <1>1, EnterFacts DEF FitInv, ChunkTypes
<1>4. Kept(chunks) \in Seq(Alphabet) /\ <<>> \in Seq(Alphabet) /\ Ink(<<>>) = <<>>
    BY <1>3, KeptTypes, InkOfNothing
<1>5. CASE TakeWhole
    <2>1. chunks' = Put(Push(next), b) /\ tail' = <<>> /\ rest' = <<>>
        BY <1>2, <1>5 DEF TakeWhole
    <2>2. Kept(chunks') = Cat(Kept(chunks), Ink(b))
        BY <1>2, <1>3, <2>1, PutKeeps
    <2>3. Cat(Kept(chunks), Ink(b)) \in Seq(Alphabet)
        BY <1>2, <1>4, CatFacts
    <2>4. Cat(Kept(chunks'), Cat(<<>>, Cat(<<>>, <<>>))) = Kept(chunks')
        BY <1>4, <2>2, <2>3, CatFacts
    <2> HIDE DEF b
    <2> QED BY <1>2, <1>4, <2>1, <2>2, <2>4 DEF TextKept
<1>6. CASE TakeWords
    <2>1. chunks' = chunks /\ tail' = <<>> /\ rest' = b
        BY <1>2, <1>6 DEF TakeWords
    <2>2. Cat(Kept(chunks), Cat(<<>>, Cat(Ink(b), <<>>))) = Cat(Kept(chunks), Ink(b))
        BY <1>2, <1>4, CatFacts
    <2> HIDE DEF b
    <2> QED BY <1>2, <1>4, <2>1, <2>2 DEF TextKept
<1>7. CASE TakeParagraphs
    <2>1. chunks' = chunks /\ tail' = b /\ rest' = <<>>
        BY <1>2, <1>7 DEF TakeParagraphs
    <2>2. Cat(Kept(chunks), Cat(<<>>, Cat(<<>>, Ink(b)))) = Cat(Kept(chunks), Ink(b))
        BY <1>2, <1>4, CatFacts
    <2> HIDE DEF b
    <2> QED BY <1>2, <1>4, <2>1, <2>2 DEF TextKept
<1> QED BY <1>5, <1>6, <1>7

\* What was joined goes to the chunks.
LEMMA FlushKeeps ==
    ASSUME ChunkTypes
    PROVE  Kept(Flush) = Cat(Kept(chunks), Ink(joined))
<1>1. /\ Kept(chunks) \in Seq(Alphabet) /\ chunks \in Seq(Chunk) /\ stack \in Seq(Nat)
      /\ joined \in Seq(Alphabet)
    BY KeptTypes
<1>2. CASE joined = <<>>
    <2>1. Cat(Kept(chunks), <<>>) = Kept(chunks)
        BY <1>1, CatFacts
    <2> QED BY <1>2, <2>1, InkOfNothing DEF Flush
<1>3. CASE joined # <<>>
    BY <1>1, <1>3, PutKeeps DEF Flush
<1> QED BY <1>2, <1>3

\* The ink of the tail is that of its first paragraph and of what follows it.
LEMMA AdvanceKeeps ==
    ASSUME ChunkTypes, Advance
    PROVE  /\ Paragraph \in Seq(Alphabet) /\ Ink(Paragraph) \in Seq(Alphabet)
           /\ tail' \in Seq(Alphabet) /\ Ink(tail') \in Seq(Alphabet)
           /\ Ink(tail) = Cat(Ink(Paragraph), Ink(tail'))
<1> DEFINE e == ParagraphEnd(tail)
           after == SubSeq(tail, e + 1, Len(tail))
<1>1. tail \in Seq(Alphabet) /\ tail' = LeftStrip(after, {"n"})
    BY DEF ChunkTypes, Advance
<1>2. /\ e \in 0 .. Len(tail) /\ Paragraph \in Seq(Alphabet)
      /\ Paragraph = SubSeq(tail, 1, e)
    BY <1>1, ParagraphFacts DEF Paragraph
<1> HIDE DEF e
<1>3. after \in Seq(Alphabet) /\ tail = Cat(Paragraph, after)
    BY <1>1, <1>2, CutInTwo
<1> HIDE DEF after
<1>4. {"n"} \in SUBSET Blank
    BY DEF Blank
<1>5. tail' \in Seq(Alphabet) /\ Ink(tail') = Ink(after)
    BY <1>1, <1>3, <1>4, InkOfStrip
<1>6. Ink(Cat(Paragraph, after)) = Cat(Ink(Paragraph), Ink(after))
    BY <1>2, <1>3, InkOfCat
<1>7. Ink(Paragraph) \in Seq(Alphabet) /\ Ink(tail') \in Seq(Alphabet)
    BY <1>2, <1>5, InkOfCat
<1>8. Ink(tail) = Cat(Ink(Paragraph), Ink(tail'))
    BY <1>3, <1>5, <1>6
<1> QED BY <1>2, <1>5, <1>7, <1>8

LEMMA BlankHasNoInk ==
    ASSUME NEW s \in Seq(Alphabet)
    PROVE  IsBlank(s) <=> Ink(s) = <<>>
BY PickedNone, InkIsPicked DEF IsBlank

LEMMA AdvanceText ==
    ASSUME FitInv, RestIdle, TextKept, SkipBlank \/ CutParagraph \/ StartPiece \/ JoinParagraph
    PROVE  TextKept'
<1> DEFINE k == Kept(chunks)
           j == Ink(joined)
           p == Ink(Paragraph)
           t == Ink(tail')
           w == Written(Before(text, next))
<1>1. /\ ChunkTypes /\ Advance /\ phase = "paragraphs" /\ rest = <<>> /\ UNCHANGED <<text, next>>
    BY DEF FitInv, RestIdle, SkipBlank, CutParagraph, StartPiece, JoinParagraph, Advance
<1>2. k \in Seq(Alphabet) /\ j \in Seq(Alphabet) /\ <<>> \in Seq(Alphabet) /\ joined \in Seq(Alphabet)
    BY <1>1, KeptTypes
<1>3. /\ Paragraph \in Seq(Alphabet) /\ p \in Seq(Alphabet) /\ t \in Seq(Alphabet)
      /\ Ink(tail) = Cat(p, t)
    BY <1>1, AdvanceKeeps
<1>4. Kept(Flush) = Cat(k, j) /\ Ink(<<>>) = <<>>
    BY <1>1, FlushKeeps, InkOfNothing
<1>5. Cat(k, Cat(j, Cat(Ink(rest), Ink(tail)))) = w
    BY DEF TextKept
<1>6. TextKept' <=> Cat(Kept(chunks'), Cat(Ink(joined'), Cat(Ink(rest'), t))) = w
    BY <1>1 DEF TextKept
<1> HIDE DEF k, j, p, t, w
<1>7. Cat(p, t) \in Seq(Alphabet) /\ Cat(j, p) \in Seq(Alphabet) /\ Cat(<<>>, Cat(p, t)) = Cat(p, t) /\ Cat(<<>>, t) = t
    BY <1>2, <1>3, CatFacts
<1>8. Cat(k, Cat(j, Cat(p, t))) = w
    BY <1>1, <1>3, <1>4, <1>5, <1>7
<1>9. CASE SkipBlank
    <2>1. p = <<>>
        BY <1>3, <1>9, BlankHasNoInk DEF SkipBlank, p
    <2>2. chunks' = chunks /\ joined' = joined /\ rest' = <<>>
        BY <1>1, <1>9 DEF SkipBlank
    <2>3. Cat(Kept(chunks'), Cat(Ink(joined'), Cat(Ink(rest'), t))) = Cat(k, Cat(j, Cat(<<>>, t)))
        BY <1>4, <2>2 DEF k, j
    <2> QED BY <1>6, <1>8, <2>1, <2>3
<1>10. CASE CutParagraph
    <2>1. chunks' = Flush /\ joined' = <<>> /\ rest' = Paragraph
        BY <1>10 DEF CutParagraph
    <2>2. Cat(Kept(chunks'), Cat(Ink(joined'), Cat(Ink(rest'), t))) = Cat(Cat(k, j), Cat(<<>>, Cat(p, t)))
        BY <1>4, <2>1 DEF p
    <2>3. Cat(Cat(k, j), Cat(p, t)) = Cat(k, Cat(j, Cat(p, t)))
        BY <1>2, <1>7, CatAssociates
    <2> QED BY <1>6, <1>7, <1>8, <2>2, <2>3
<1>11. CASE StartPiece
    <2>1. chunks' = Flush /\ joined' = Paragraph /\ rest' = <<>>
        BY <1>1, <1>11 DEF StartPiece
    <2>2. Cat(Kept(chunks'), Cat(Ink(joined'), Cat(Ink(rest'), t))) = Cat(Cat(k, j), Cat(p, Cat(<<>>, t)))
        BY <1>4, <2>1 DEF p
    <2>3. Cat(Cat(k, j), Cat(p, t)) = Cat(k, Cat(j, Cat(p, t)))
        BY <1>2, <1>7, CatAssociates
    <2> QED BY <1>6, <1>7, <1>8, <2>2, <2>3
<1>12. CASE JoinParagraph
    <2>1. chunks' = chunks /\ rest' = <<>>
        BY <1>1, <1>12 DEF JoinParagraph
    <2>2. Ink(joined') = Cat(j, p)
        <3>1. CASE joined = <<>> /\ joined' = Paragraph
            <4>1. j = <<>> /\ Ink(joined') = p
                BY <1>4, <3>1 DEF j, p
            <4> QED BY <1>3, <4>1, CatFacts
        <3>2. CASE joined' = joined \o <<"n", "n">> \o Paragraph
            <4> DEFINE nn == <<"n", "n">>
            <4>1. nn \in Seq(Alphabet) /\ \A i \in DOMAIN nn : nn[i] = "n"
                BY DEF Alphabet, Characters, Blank
            <4>2. joined' = Cat(Cat(joined, nn), Paragraph)
                BY <3>2 DEF Cat
            <4>3. Ink(nn) = <<>>
                <5>1. IsBlank(nn)
                    BY <4>1 DEF IsBlank, Blank
                <5> HIDE DEF nn
                <5> QED BY <4>1, <5>1, BlankHasNoInk
            <4> HIDE DEF nn
            <4>4. Cat(joined, nn) \in Seq(Alphabet) /\ Ink(Cat(joined, nn)) = Cat(j, <<>>)
                BY <1>2, <4>1, <4>3, CatFacts, InkOfCat DEF j
            <4>5. Ink(Cat(joined, nn)) = j
                BY <1>2, <4>4, CatFacts
            <4>6. Ink(joined') = Cat(Ink(Cat(joined, nn)), Ink(Paragraph))
                BY <1>3, <4>2, <4>4, InkOfCat
            <4> QED BY <4>5, <4>6 DEF p
        <3> QED BY <1>12, <3>1, <3>2 DEF JoinParagraph
    <2>3. Cat(Kept(chunks'), Cat(Ink(joined'), Cat(Ink(rest'), t))) = Cat(k, Cat(Cat(j, p), Cat(<<>>, t)))
        BY <1>4, <2>1, <2>2 DEF k
    <2>4. Cat(Cat(j, p), t) = Cat(j, Cat(p, t))
        BY <1>2, <1>3, CatAssociates
    <2> QED BY <1>6, <1>7, <1>8, <2>3, <2>4
<1> QED BY <1>9, <1>10, <1>11, <1>12

LEMMA EndText ==
    ASSUME FitInv, RestIdle, TextKept, EndSection
    PROVE  TextKept'
<1>1. /\ ChunkTypes /\ tail = <<>> /\ rest = <<>> /\ chunks' = Flush /\ joined' = <<>>
      /\ UNCHANGED <<text, next, tail, rest>>
    BY DEF FitInv, RestIdle, EndSection
<1> DEFINE k == Kept(chunks)
           j == Ink(joined)
           w == Written(Before(text, next))
<1>2. k \in Seq(Alphabet) /\ j \in Seq(Alphabet) /\ <<>> \in Seq(Alphabet) /\ Ink(<<>>) = <<>> /\ Kept(chunks') = Cat(k, j)
    BY <1>1, KeptTypes, FlushKeeps, InkOfNothing
<1>3. Cat(k, Cat(j, Cat(<<>>, <<>>))) = w
    BY <1>1, <1>2 DEF TextKept
<1>4. TextKept' <=> Cat(Cat(k, j), Cat(<<>>, Cat(<<>>, <<>>))) = w
    BY <1>1, <1>2 DEF TextKept
<1> HIDE DEF k, j, w
<1>5. Cat(k, j) \in Seq(Alphabet) /\ Cat(<<>>, <<>>) = <<>> /\ Cat(j, <<>>) = j
    BY <1>2, CatFacts
<1>6. Cat(Cat(k, j), <<>>) = Cat(k, j)
    BY <1>5, CatFacts
<1> QED BY <1>3, <1>4, <1>5, <1>6

LEMMA WordsText ==
    ASSUME FitInv, RestIdle, TextKept, CutWords \/ LastWords
    PROVE  TextKept'
<1> DEFINE k == Kept(chunks)
           r == Ink(rest)
           t == Ink(tail)
           w == Written(Before(text, next))
<1>1. ChunkTypes /\ joined = <<>> /\ UNCHANGED <<text, next, tail, joined>>
    BY DEF FitInv, Pieces, CutWords, LastWords
<1>2. /\ k \in Seq(Alphabet) /\ r \in Seq(Alphabet) /\ t \in Seq(Alphabet) /\ <<>> \in Seq(Alphabet)
      /\ Ink(<<>>) = <<>>
      /\ rest \in Seq(Alphabet) /\ stack \in Seq(Nat) /\ chunks \in Seq(Chunk)
    BY <1>1, KeptTypes, InkOfNothing
<1>3. Cat(k, Cat(<<>>, Cat(r, t))) = w
    BY <1>1, <1>2 DEF TextKept
<1>4. TextKept' <=> Cat(Kept(chunks'), Cat(<<>>, Cat(Ink(rest'), t))) = w
    BY <1>1, <1>2 DEF TextKept
<1> HIDE DEF k, r, t, w
<1>5. CASE CutWords
    <2> DEFINE cut == WordBoundary(rest, Room(stack))
               piece == SubSeq(rest, 1, cut)
               after == SubSeq(rest, cut + 1, Len(rest))
    <2>1. chunks' = Put(stack, piece) /\ rest' = LeftStrip(after, {"_"}) /\ Len(rest) > Room(stack)
        BY <1>5 DEF CutWords
    <2>2. Room(stack) \in Nat /\ Room(stack) > 0
        BY <1>2, BudgetFacts
    <2>3. cut \in 1 .. Room(stack)
        BY <2>2, WordBoundaryFacts
    <2> HIDE DEF cut
    <2>4. cut \in 0 .. Len(rest)
        <3> DEFINE room == Room(stack)
        <3>1. Len(rest) > room
            BY <1>5 DEF CutWords
        <3>2. room \in Nat /\ cut \in 1 .. room
            BY <2>2, <2>3
        <3>3. Len(rest) \in Nat
            BY <1>2
        <3> HIDE DEF room
        <3> QED BY <3>1, <3>2, <3>3
    <2>5. piece \in Seq(Alphabet) /\ after \in Seq(Alphabet) /\ rest = Cat(piece, after)
        BY <1>2, <2>4, CutInTwo
    <2> HIDE DEF piece, after
    <2>6. r = Cat(Ink(piece), Ink(after)) /\ Ink(piece) \in Seq(Alphabet) /\ Ink(after) \in Seq(Alphabet)
        BY <2>5, InkOfCat DEF r
    <2>7. Ink(rest') = Ink(after)
        <3>1. {"_"} \in SUBSET Blank
            BY DEF Blank
        <3> QED BY <2>1, <2>5, <3>1, InkOfStrip
    <2>8. Kept(chunks') = Cat(k, Ink(piece))
        BY <1>2, <2>1, <2>5, PutKeeps DEF k
    <2> DEFINE p == Ink(piece)
               a == Ink(after)
    <2>9. p \in Seq(Alphabet) /\ a \in Seq(Alphabet) /\ r = Cat(p, a)
        BY <2>6
    <2>10. TextKept' <=> Cat(Cat(k, p), Cat(<<>>, Cat(a, t))) = w
        BY <1>4, <2>7, <2>8
    <2> HIDE DEF p, a
    <2>11. Cat(a, t) \in Seq(Alphabet) /\ Cat(<<>>, Cat(a, t)) = Cat(a, t) /\ Cat(r, t) \in Seq(Alphabet)
           /\ Cat(<<>>, Cat(r, t)) = Cat(r, t)
        BY <1>2, <2>9, CatFacts
    <2>12. Cat(Cat(k, p), Cat(a, t)) = Cat(k, Cat(p, Cat(a, t)))
        BY <1>2, <2>9, <2>11, CatAssociates
    <2>13. Cat(Cat(p, a), t) = Cat(p, Cat(a, t))
        BY <1>2, <2>9, CatAssociates
    <2> QED BY <1>3, <2>9, <2>10, <2>11, <2>12, <2>13
<1>6. CASE LastWords
    <2>1. rest' = <<>> /\ chunks' = (IF rest = <<>> THEN chunks ELSE Put(stack, rest))
        BY <1>6 DEF LastWords
    <2>2. Kept(chunks') = Cat(k, r)
        <3>1. CASE rest = <<>>
            <4>1. chunks' = chunks /\ r = <<>>
                BY <1>2, <2>1, <3>1 DEF r
            <4> QED BY <1>2, <4>1, CatFacts DEF k
        <3>2. CASE rest # <<>>
            BY <1>2, <2>1, <3>2, PutKeeps DEF k, r
        <3> QED BY <3>1, <3>2
    <2>3. TextKept' <=> Cat(Cat(k, r), Cat(<<>>, Cat(<<>>, t))) = w
        BY <1>2, <1>4, <2>1, <2>2
    <2>4. Cat(<<>>, t) = t /\ Cat(r, t) \in Seq(Alphabet) /\ Cat(<<>>, Cat(r, t)) = Cat(r, t)
        BY <1>2, CatFacts
    <2>5. Cat(Cat(k, r), t) = Cat(k, Cat(r, t))
        BY <1>2, CatAssociates
    <2> QED BY <1>3, <2>3, <2>4, <2>5
<1> QED BY <1>5, <1>6

LEMMA ChunkStepKeepsText ==
    ASSUME FitInv, RestIdle, TextKept, ChunkStep
    PROVE  TextKept' /\ RestIdle'
<1>1. TextKept'
    BY EnterText, AdvanceText, EndText, WordsText DEF ChunkStep
<1>2. RestIdle'
    BY DEF RestIdle, ChunkStep, TakeWhole, TakeWords, TakeParagraphs, SkipBlank, CutParagraph,
           StartPiece, JoinParagraph, EndSection, CutWords, LastWords, Enter, Advance
<1> QED BY <1>1, <1>2
-----------------------------------------------------------------------------
(* No heading is lost *)

\* The heading of the section that is being cut.
Top == HeadOf([crumb |-> stack])

Pending == phase # "sections" /\ (joined # <<>> \/ rest # <<>> \/ Ink(tail) # <<>>)

HeadsOrdered ==
    /\ \A n \in DOMAIN chunks : HeadOf(chunks[n]) <= Top
    /\ \A m, n \in DOMAIN chunks : m < n => HeadOf(chunks[m]) <= HeadOf(chunks[n])

HeadsCovered ==
    \A j \in HeadsOf(text) : j < next =>
        \/ \E n \in DOMAIN chunks : HeadOf(chunks[n]) = j
        \/ j = Top /\ Pending

\* The heading of a chunk is the last of its crumb, of the section that of
\* the stack, and entering one makes it the latest.
LEMMA HeadOfCrumb ==
    ASSUME NEW c, NEW s \in Seq(Nat), c.crumb = s
    PROVE  /\ HeadOf(c) \in Nat
           /\ HeadOf(c) = IF s = <<>> THEN 0 ELSE s[Len(s)]
<1>1. HeadOf(c) = IF s = <<>> THEN 0 ELSE s[Len(s)]
    BY DEF HeadOf
<1>2. s # <<>> => Len(s) \in 1 .. Len(s)
    OBVIOUS
<1>3. \A i \in 1 .. Len(s) : s[i] \in Nat
    OBVIOUS
<1> QED BY <1>1, <1>2, <1>3

LEMMA TopFacts ==
    ASSUME stack \in Seq(Nat)
    PROVE  Top \in Nat /\ Top = IF stack = <<>> THEN 0 ELSE stack[Len(stack)]
<1> DEFINE c == [crumb |-> stack]
<1>1. c.crumb = stack
    OBVIOUS
<1>2. Top = HeadOf(c)
    BY DEF Top
<1> HIDE DEF c
<1> QED BY <1>1, <1>2, HeadOfCrumb

LEMMA EnterTop ==
    ASSUME ChunkTypes, StackInv, Enter
    PROVE  Top' = next /\ Top <= next /\ stack' \in Seq(Nat) /\ (next # 0 => stack' # <<>>)
<1>1. /\ text \in Seq(Alphabet) /\ stack \in Seq(Nat) /\ stack' = Push(next)
      /\ next \in HeadsOf(text) \cup {0} /\ next \in 0 .. Len(text) /\ Len(text) \in Nat
    BY DEF ChunkTypes, Enter, HeadsOf
<1>2. Top \in Nat /\ Top = IF stack = <<>> THEN 0 ELSE stack[Len(stack)]
    BY <1>1, TopFacts
<1>3. stack # <<>> => stack[Len(stack)] < next
    <2>1. stack # <<>> => Len(stack) \in DOMAIN stack
        BY <1>1
    <2> QED BY <2>1 DEF StackInv
<1>4. stack' \in Seq(Nat)
    BY <1>1, EnterFacts
<1>5. Top' = IF stack' = <<>> THEN 0 ELSE stack'[Len(stack')]
    <2>1. (stack \in Seq(Nat) => (Top = IF stack = <<>> THEN 0 ELSE stack[Len(stack)]))'
        BY TopFacts, PTL
    <2> QED BY <1>4, <2>1
<1>6. CASE next = 0
    <2>1. stack = <<>>
        <3>1. CASE stack # <<>>
            <4>1. Top < 0
                BY <1>2, <1>3, <1>6, <3>1
            <4> QED BY <1>2, <4>1
        <3> QED BY <3>1
    <2>2. stack' = <<>>
        BY <1>1, <1>6, <2>1 DEF Push
    <2> QED BY <1>2, <1>4, <1>5, <1>6, <2>1, <2>2
<1>7. CASE next # 0
    <2>1. PICK k \in 0 .. Len(stack) :
              /\ Push(next) \in Seq(Nat) /\ Len(Push(next)) = k + 1
              /\ Push(next)[k + 1] = next
        BY <1>1, <1>7, PushFacts
    <2>2. k \in Nat
        BY <1>1
    <2>3. stack' # <<>> /\ stack'[Len(stack')] = next
        <3>1. Len(stack') = k + 1 /\ stack'[k + 1] = next /\ Len(<<>>) = 0
            BY <1>1, <2>1
        <3> QED BY <2>2, <3>1
    <2>4. Top <= next
        BY <1>1, <1>2, <1>3
    <2> QED BY <1>4, <1>5, <2>3, <2>4
<1> QED BY <1>6, <1>7

\* Put appends a chunk under the crumb, unless there is neither.
LEMMA PutShape ==
    ASSUME chunks \in Seq(Chunk), NEW crumb \in Seq(Nat), NEW body, body \in Seq(Alphabet)
    PROVE  \/ Put(crumb, body) = chunks /\ crumb = <<>>
           \/ \E c \in Chunk : /\ c.crumb = crumb
                               /\ DOMAIN Put(crumb, body) = 1 .. Len(chunks) + 1
                               /\ \A n \in DOMAIN chunks : Put(crumb, body)[n] = chunks[n]
                               /\ Put(crumb, body)[Len(chunks) + 1] = c
<1> DEFINE b == IF crumb = <<>> THEN Strip(body) ELSE RightStrip(body, Blank)
           c == [crumb |-> crumb, body |-> b]
<1>1. b \in Seq(Alphabet)
    BY InkOfStrip
<1>2. Put(crumb, body) = IF crumb = <<>> /\ b = <<>> THEN chunks ELSE Append(chunks, c)
    BY DEF Put
<1> HIDE DEF b
<1>3. c.crumb = crumb /\ c \in Chunk
    BY <1>1 DEF Chunk
<1> HIDE DEF c
<1>4. /\ DOMAIN Append(chunks, c) = 1 .. Len(chunks) + 1
      /\ \A n \in DOMAIN chunks : Append(chunks, c)[n] = chunks[n]
      /\ Append(chunks, c)[Len(chunks) + 1] = c
    BY <1>3
<1> QED BY <1>2, <1>3, <1>4

\* What is put stands under the heading of the section.
LEMMA PutHeads ==
    ASSUME ChunkTypes, stack' \in Seq(Nat), HeadsOrdered, Top <= Top',
           NEW body, body \in Seq(Alphabet), chunks' = Put(stack', body)
    PROVE  /\ HeadsOrdered'
           /\ \A n \in DOMAIN chunks : \E m \in DOMAIN chunks' : HeadOf(chunks'[m]) = HeadOf(chunks[n])
           /\ stack' # <<>> => \E n \in DOMAIN chunks' : HeadOf(chunks'[n]) = Top'
<1>1. chunks \in Seq(Chunk) /\ stack \in Seq(Nat) /\ DOMAIN chunks = 1 .. Len(chunks) /\ Len(chunks) \in Nat
    BY DEF ChunkTypes
<1>2. Top \in Nat
    BY <1>1, TopFacts
<1>3. Top' \in Nat /\ Top' = IF stack' = <<>> THEN 0 ELSE stack'[Len(stack')]
    <2>1. (stack \in Seq(Nat) => (Top \in Nat /\ Top = IF stack = <<>> THEN 0 ELSE stack[Len(stack)]))'
        BY TopFacts, PTL
    <2> QED BY <2>1
<1>4. \A n \in DOMAIN chunks : HeadOf(chunks[n]) \in Nat
    <2> SUFFICES ASSUME NEW n \in DOMAIN chunks PROVE HeadOf(chunks[n]) \in Nat
        OBVIOUS
    <2>1. chunks[n] \in Chunk
        BY <1>1
    <2>2. \A d \in Chunk : d.crumb \in Seq(Nat)
        BY DEF Chunk
    <2>3. chunks[n].crumb \in Seq(Nat)
        BY <2>1, <2>2
    <2> QED BY <2>3, HeadOfCrumb
<1>5. \/ chunks' = chunks /\ stack' = <<>>
      \/ \E c \in Chunk : /\ c.crumb = stack'
                          /\ DOMAIN chunks' = 1 .. Len(chunks) + 1
                          /\ \A n \in DOMAIN chunks : chunks'[n] = chunks[n]
                          /\ chunks'[Len(chunks) + 1] = c
    BY <1>1, PutShape
<1>6. CASE chunks' = chunks /\ stack' = <<>>
    <2>1. HeadsOrdered'
        BY <1>2, <1>3, <1>4, <1>6 DEF HeadsOrdered
    <2> QED BY <1>6, <2>1
<1>7. ASSUME NEW c \in Chunk, c.crumb = stack', DOMAIN chunks' = 1 .. Len(chunks) + 1,
             \A n \in DOMAIN chunks : chunks'[n] = chunks[n], chunks'[Len(chunks) + 1] = c
      PROVE  /\ HeadsOrdered'
             /\ \A n \in DOMAIN chunks : \E m \in DOMAIN chunks' : HeadOf(chunks'[m]) = HeadOf(chunks[n])
             /\ \E n \in DOMAIN chunks' : HeadOf(chunks'[n]) = Top'
    <2> DEFINE l == Len(chunks) + 1
    <2>1. HeadOf(c) = Top'
        BY <1>3, <1>7, HeadOfCrumb
    <2>2. DOMAIN chunks' = 1 .. l /\ chunks'[l] = c /\ l \in DOMAIN chunks' /\ l \in Nat
        BY <1>1, <1>7
    <2>3. \A n \in 1 .. l : n = l \/ n \in DOMAIN chunks
        BY <1>1
    <2>4. \A n \in DOMAIN chunks : n < l /\ n \in DOMAIN chunks'
        BY <1>1, <1>7
    <2> HIDE DEF l
    <2>5. \A n \in DOMAIN chunks : HeadOf(chunks'[n]) = HeadOf(chunks[n]) /\ HeadOf(chunks[n]) <= Top'
        BY <1>2, <1>3, <1>4, <1>7 DEF HeadsOrdered
    <2>6. \A n \in DOMAIN chunks' : HeadOf(chunks'[n]) <= Top'
        BY <1>3, <2>1, <2>2, <2>3, <2>5
    <2>7. ASSUME NEW m \in DOMAIN chunks', NEW n \in DOMAIN chunks', m < n
          PROVE  HeadOf(chunks'[m]) <= HeadOf(chunks'[n])
        <3>1. CASE n = l
            BY <2>1, <2>2, <2>6, <3>1
        <3>2. CASE n # l
            <4>1. n \in DOMAIN chunks /\ n < l
                BY <2>2, <2>3, <2>4, <3>2
            <4>2. m \in 1 .. l /\ m # l
                BY <2>2, <2>7, <4>1
            <4>3. m \in DOMAIN chunks
                BY <2>3, <4>2
            <4> QED BY <2>5, <2>7, <4>1, <4>3 DEF HeadsOrdered
        <3> QED BY <3>1, <3>2
    <2>8. HeadsOrdered'
        BY <2>6, <2>7 DEF HeadsOrdered
    <2> QED BY <2>1, <2>2, <2>4, <2>5, <2>8
<1> QED BY <1>5, <1>6, <1>7

\* Chunks are put under the heading of the section, and none is taken back.
LEMMA StepHeads ==
    ASSUME FitInv, StackInv, HeadsOrdered, ChunkStep
    PROVE  /\ HeadsOrdered' /\ Top <= Top'
           /\ Enter => Top' = next
           /\ ~Enter => Top' = Top /\ next' = next
           /\ \A n \in DOMAIN chunks : \E m \in DOMAIN chunks' : HeadOf(chunks'[m]) = HeadOf(chunks[n])
           /\ (\E body \in Seq(Alphabet) : chunks' = Put(stack', body)) /\ stack' # <<>> =>
                  \E n \in DOMAIN chunks' : HeadOf(chunks'[n]) = Top'
<1>1. ChunkTypes /\ stack \in Seq(Nat) /\ chunks \in Seq(Chunk)
    BY DEF FitInv, ChunkTypes
<1>2. Enter \/ UNCHANGED <<text, next, stack>>
    BY StepsPut
<1>4. Top <= Top' /\ stack' \in Seq(Nat) /\ (Enter => Top' = next) /\ (~Enter => Top' = Top /\ next' = next)
    <2>1. CASE Enter
        BY <1>1, <2>1, EnterTop
    <2>2. CASE ~Enter
        <3>1. UNCHANGED <<next, stack>>
            BY <1>2, <2>2
        <3>2. Top' = Top /\ Top \in Nat
            BY <1>1, <3>1, TopFacts DEF Top
        <3> QED BY <1>1, <2>2, <3>1, <3>2
    <2> QED BY <2>1, <2>2
<1>5. CASE chunks' = chunks
    <2>1. \A n \in DOMAIN chunks : HeadOf(chunks[n]) <= Top'
        <3> SUFFICES ASSUME NEW n \in DOMAIN chunks PROVE HeadOf(chunks[n]) <= Top'
            OBVIOUS
        <3>1. chunks[n].crumb \in Seq(Nat)
            <4>1. chunks[n] \in Chunk
                BY <1>1
            <4>2. \A d \in Chunk : d.crumb \in Seq(Nat)
                BY DEF Chunk
            <4> QED BY <4>1, <4>2
        <3>2. HeadOf(chunks[n]) \in Nat
            BY <3>1, HeadOfCrumb
        <3>3. Top \in Nat /\ Top' \in Nat
            <4>1. (stack \in Seq(Nat) => Top \in Nat)'
                BY TopFacts, PTL
            <4> QED BY <1>1, <1>4, <4>1, TopFacts
        <3> QED BY <1>4, <3>2, <3>3 DEF HeadsOrdered
    <2>2. HeadsOrdered'
        BY <1>5, <2>1 DEF HeadsOrdered
    <2>3. ASSUME NEW body \in Seq(Alphabet), chunks' = Put(stack', body), stack' # <<>>
          PROVE  \E n \in DOMAIN chunks' : HeadOf(chunks'[n]) = Top'
        BY <1>1, <1>4, <2>3, PutHeads
    <2> QED BY <1>4, <1>5, <2>2, <2>3
<1>6. ASSUME NEW body \in Seq(Alphabet), chunks' = Put(stack', body)
      PROVE  /\ HeadsOrdered'
             /\ \A n \in DOMAIN chunks : \E m \in DOMAIN chunks' : HeadOf(chunks'[m]) = HeadOf(chunks[n])
             /\ stack' # <<>> => \E n \in DOMAIN chunks' : HeadOf(chunks'[n]) = Top'
    BY <1>1, <1>4, <1>6, PutHeads
<1> QED BY <1>4, <1>5, <1>6, StepsPut

LEMMA NonBlank ==
    ASSUME NEW s \in Seq(Alphabet), ~IsBlank(s)
    PROVE  s # <<>>
<1>1. s = <<>> => DOMAIN s = {}
    OBVIOUS
<1> QED BY <1>1 DEF IsBlank

\* What is pending of a section stays so until a chunk is put for it.
LEMMA StaysPending ==
    ASSUME FitInv, RestIdle, ChunkStep, ~Enter, Pending
    PROVE  Pending' \/ \E body \in Seq(Alphabet) : chunks' = Put(stack', body)
<1>1. ChunkTypes /\ joined \in Seq(Alphabet) /\ rest \in Seq(Alphabet) /\ tail \in Seq(Alphabet)
    BY DEF FitInv, ChunkTypes
<1>2. CASE SkipBlank
    <2>1. Advance /\ IsBlank(Paragraph) /\ joined' = joined /\ rest' = rest /\ phase' = phase
        BY <1>2 DEF SkipBlank
    <2>2. /\ Paragraph \in Seq(Alphabet) /\ Ink(tail') \in Seq(Alphabet)
          /\ Ink(tail) = Cat(Ink(Paragraph), Ink(tail'))
        BY <1>1, <2>1, AdvanceKeeps
    <2>3. Ink(Paragraph) = <<>>
        BY <2>1, <2>2, BlankHasNoInk
    <2>4. Ink(tail) = Ink(tail')
        BY <2>2, <2>3, CatFacts
    <2> QED BY <2>1, <2>4 DEF Pending
<1>3. CASE CutParagraph \/ StartPiece \/ JoinParagraph
    <2>1. Advance /\ ~IsBlank(Paragraph) /\ phase = "paragraphs"
        BY <1>3 DEF CutParagraph, StartPiece, JoinParagraph, Advance
    <2>2. Paragraph \in Seq(Alphabet)
        BY <1>1, <2>1, AdvanceKeeps
    <2>3. Paragraph # <<>>
        BY <2>1, <2>2, NonBlank
    <2>4. phase' \in {"paragraphs", "words"} /\ (joined' # <<>> \/ rest' # <<>>)
        <3>1. CASE CutParagraph
            BY <2>3, <3>1 DEF CutParagraph
        <3>2. CASE StartPiece
            BY <2>1, <2>3, <3>2 DEF StartPiece
        <3>3. CASE JoinParagraph
            <4>1. CASE joined' = Paragraph
                BY <2>1, <2>3, <3>3, <4>1 DEF JoinParagraph
            <4>2. CASE joined' = joined \o <<"n", "n">> \o Paragraph
                <5>2. Len(joined \o <<"n", "n">> \o Paragraph) # 0
                    BY <1>1, <2>2
                <5>3. joined' # <<>>
                    BY <4>2, <5>2
                <5> QED BY <2>1, <3>3, <5>3 DEF JoinParagraph
            <4> QED BY <3>3, <4>1, <4>2 DEF JoinParagraph
        <3> QED BY <1>3, <3>1, <3>2, <3>3
    <2> QED BY <2>4 DEF Pending
<1>4. CASE EndSection
    <2>1. tail = <<>> /\ rest = <<>> /\ chunks' = Flush /\ stack' = stack
        BY <1>4 DEF EndSection, RestIdle
    <2>2. joined # <<>>
        BY <2>1, InkOfNothing DEF Pending
    <2> QED BY <1>1, <2>1, <2>2 DEF Flush
<1>5. CASE CutWords
    <2>1. Enter \/ (chunks' = chunks \/ \E body \in Seq(Alphabet) : chunks' = Put(stack', body))
        BY StepsPut
    <2>2. CASE chunks' = chunks
        <3> DEFINE after == SubSeq(rest, WordBoundary(rest, Room(stack)) + 1, Len(rest))
        <3>1. phase' = "words" /\ chunks' = Put(stack, SubSeq(rest, 1, WordBoundary(rest, Room(stack)))) /\ stack' = stack
            BY <1>5 DEF CutWords
        <3>2. \E body \in Seq(Alphabet) : chunks' = Put(stack', body)
            <4> DEFINE cut == WordBoundary(rest, Room(stack))
            <4>1. stack \in Seq(Nat)
                BY <1>1 DEF ChunkTypes
            <4>2. Room(stack) \in Nat /\ Room(stack) > 0
                BY <4>1, BudgetFacts
            <4>3. cut \in 1 .. Room(stack)
                BY <4>2, WordBoundaryFacts
            <4>4. chunks' = Put(stack', SubSeq(rest, 1, cut))
                BY <3>1
            <4> HIDE DEF cut
            <4>5. cut \in 0 .. Len(rest)
                <5> DEFINE room == Room(stack)
                <5>1. Len(rest) > room
                    BY <1>5 DEF CutWords
                <5>2. room \in Nat /\ cut \in 1 .. room
                    BY <4>2, <4>3
                <5>3. Len(rest) \in Nat
                    BY <1>1
                <5> HIDE DEF room
                <5> QED BY <5>1, <5>2, <5>3
            <4>6. SubSeq(rest, 1, cut) \in Seq(Alphabet)
                BY <1>1, <4>5, CutInTwo
            <4> QED BY <4>4, <4>6
        <3> QED BY <3>2
    <2> QED BY <2>1, <2>2
<1>6. CASE LastWords
    <2>1. /\ phase' = "paragraphs" /\ joined' = joined /\ tail' = tail /\ stack' = stack
          /\ chunks' = IF rest = <<>> THEN chunks ELSE Put(stack, rest)
        BY <1>6 DEF LastWords
    <2>2. CASE rest = <<>>
        BY <2>1, <2>2 DEF Pending
    <2>3. CASE rest # <<>>
        BY <1>1, <2>1, <2>3
    <2> QED BY <2>2, <2>3
<1>7. ~(TakeWhole \/ TakeWords \/ TakeParagraphs)
    BY DEF TakeWhole, TakeWords, TakeParagraphs
<1> QED BY <1>2, <1>3, <1>4, <1>5, <1>6, <1>7 DEF ChunkStep

LEMMA ChunkStepKeepsHeads ==
    ASSUME FitInv, StackInv, RestIdle, HeadsOrdered, HeadsCovered, ChunkStep
    PROVE  HeadsOrdered' /\ HeadsCovered'
<1>1. /\ ChunkTypes /\ text \in Seq(Alphabet) /\ text' = text
    BY StepsPut DEF FitInv, ChunkTypes
<1>2. /\ HeadsOrdered' /\ Top <= Top'
      /\ Enter => Top' = next
      /\ ~Enter => Top' = Top /\ next' = next
      /\ \A n \in DOMAIN chunks : \E m \in DOMAIN chunks' : HeadOf(chunks'[m]) = HeadOf(chunks[n])
      /\ (\E body \in Seq(Alphabet) : chunks' = Put(stack', body)) /\ stack' # <<>> =>
             \E n \in DOMAIN chunks' : HeadOf(chunks'[n]) = Top'
    BY StepHeads
<1>3. ASSUME NEW j \in HeadsOf(text), j < next'
      PROVE  \/ \E n \in DOMAIN chunks' : HeadOf(chunks'[n]) = j
             \/ j = Top' /\ Pending'
    <2>1. j \in Nat /\ j >= 1
        BY <1>1 DEF HeadsOf
    <2>2. CASE ~Enter
        <3>1. Top' = Top /\ j < next
            BY <1>2, <1>3, <2>2
        <3>2. CASE j = Top /\ Pending
            <4>1. stack' # <<>>
                <5>1. stack' = stack /\ stack \in Seq(Nat)
                    BY <1>1, <2>2, StepsPut DEF ChunkTypes
                <5>2. stack # <<>>
                    BY <2>1, <3>2, <5>1, TopFacts
                <5> QED BY <5>1, <5>2
            <4> QED BY <1>2, <2>2, <3>1, <3>2, <4>1, StaysPending
        <3>3. CASE \E n \in DOMAIN chunks : HeadOf(chunks[n]) = j
            BY <1>2, <3>3
        <3> QED BY <3>1, <3>2, <3>3 DEF HeadsCovered
    <2>3. CASE Enter
        <3>1. Top' = next /\ phase = "sections" /\ next \in 0 .. Len(text) /\ next \in HeadsOf(text) \cup {0}
            BY <1>1, <1>2, <2>3 DEF Enter, ChunkTypes, HeadsOf
        <3>2. j <= next
            <4>1. NextHead(next) = next'
                BY <2>3 DEF Enter
            <4>2. NextHead(next) \in next + 1 .. Len(text) + 1 /\ \A i \in HeadsOf(text) : i > next => i >= NextHead(next)
                BY <1>1, <3>1, NextHeadFacts
            <4>3. Len(text) \in Nat
                BY <1>1
            <4> QED BY <1>3, <2>1, <3>1, <4>1, <4>2, <4>3
        <3>3. CASE j < next
            <4>1. \E n \in DOMAIN chunks : HeadOf(chunks[n]) = j
                BY <3>1, <3>3 DEF HeadsCovered, Pending
            <4> QED BY <1>2, <4>1
        <3>4. CASE j = next
            <4> DEFINE b == Strip(Body(text, next))
            <4>1. stack' # <<>> /\ stack' = Push(next)
                BY <1>1, <2>1, <2>3, <3>4, EnterTop DEF Enter
            <4>2. b \in Seq(Alphabet) /\ Body(text, next) \in Seq(Alphabet)
                BY <1>1, <2>3, EnterFacts
            <4>3. b # <<>> => Ink(b) # <<>>
                BY <4>2, InkOfStrip
            <4>4. CASE TakeWhole
                <5>1. chunks' = Put(stack', b)
                    BY <4>1, <4>4 DEF TakeWhole
                <5> QED BY <1>2, <3>1, <3>4, <4>1, <4>2, <5>1
            <4>5. ~ Whole(Push(next), b) => b # <<>>
                BY DEF Whole
            <4>6. CASE TakeWords
                <5>1. rest' = b /\ phase' = "words" /\ b # <<>>
                    BY <4>5, <4>6 DEF TakeWords
                <5> QED BY <3>1, <3>4, <5>1 DEF Pending
            <4>7. CASE TakeParagraphs
                <5>1. tail' = b /\ phase' = "paragraphs" /\ b # <<>>
                    BY <4>5, <4>7 DEF TakeParagraphs
                <5> QED BY <3>1, <3>4, <4>3, <5>1 DEF Pending
            <4>8. TakeWhole \/ TakeWords \/ TakeParagraphs
                BY <3>1 DEF ChunkStep, SkipBlank, CutParagraph, StartPiece, JoinParagraph, Advance,
                           EndSection, CutWords, LastWords
            <4> QED BY <4>4, <4>6, <4>7, <4>8
        <3> QED BY <2>1, <3>1, <3>2, <3>3, <3>4
    <2> QED BY <2>2, <2>3
<1>4. HeadsCovered'
    BY <1>1, <1>3 DEF HeadsCovered
<1> QED BY <1>2, <1>4
-----------------------------------------------------------------------------
(* Fences *)

\* The body of the section that is being cut.
Section == Body(text, Top)

\* A string is found in another.
PartOf(s, b) ==
    \E a \in 0 .. Len(b) : a + Len(s) <= Len(b) /\ \A i \in 1 .. Len(s) : s[i] = b[a + i]

ChunksWhole ==
    \A n \in DOMAIN chunks :
        Breakable(Body(text, HeadOf(chunks[n])), chunks[n].crumb) => FencesWhole(chunks[n].body)

\* Fences are whole in what was not cut at words, and in what was if it had
\* blanks enough.
WholeInv ==
    /\ FencesWhole(text) /\ FencesWhole(tail) /\ FencesWhole(joined)
    /\ phase # "sections" => PartOf(tail, Section)
    /\ phase = "words" => PartOf(rest, Section) /\ (Breakable(Section, stack) => FencesWhole(rest))
    /\ ChunksWhole

\* No fence is cut before place a.
Clear(s, a) == a \in 2 .. Len(s) => ~(s[a - 1] = "<" /\ s[a] = ">")

\* A part of a string with whole fences has whole fences, if none is cut at
\* its ends.
LEMMA WholePart ==
    ASSUME NEW S, NEW s \in Seq(S), NEW a \in 1 .. Len(s) + 1, NEW b \in 0 .. Len(s),
           FencesWhole(s), Clear(s, a), Clear(s, b + 1)
    PROVE  FencesWhole(SubSeq(s, a, b))
<1>1. /\ SubSeq(s, a, b) \in Seq(S)
      /\ Len(SubSeq(s, a, b)) = IF a <= b THEN b - a + 1 ELSE 0
      /\ \A i \in 1 .. Len(SubSeq(s, a, b)) : SubSeq(s, a, b)[i] = s[a + i - 1]
    BY PartOfString
<1>2. PICK p \in Seq(S) : p = SubSeq(s, a, b)
    BY <1>1
<1>3. /\ Len(p) = (IF a <= b THEN b - a + 1 ELSE 0)
      /\ \A i \in 1 .. Len(p) : p[i] = s[a + i - 1]
      /\ a \in Nat /\ b \in Nat /\ Len(s) \in Nat /\ DOMAIN p = 1 .. Len(p)
    BY <1>1, <1>2
<1>4. ASSUME NEW i \in 1 .. Len(p), p[i] = "<" PROVE i < Len(p) /\ p[i + 1] = ">"
    <2>1. a + i - 1 \in 1 .. Len(s) /\ s[a + i - 1] = "<"
        BY <1>3, <1>4
    <2>2. a + i - 1 < Len(s) /\ s[a + i] = ">"
        <3>1. a + i - 1 \in DOMAIN s /\ a + i - 1 + 1 = a + i
            BY <1>3, <2>1
        <3> QED BY <2>1, <3>1 DEF FencesWhole
    <2>3. i # Len(p)
        <3>1. CASE i = Len(p)
            <4>1. a + i = b + 1 /\ b + 1 \in 2 .. Len(s) /\ b + 1 - 1 = a + i - 1
                BY <1>3, <2>1, <2>2, <3>1
            <4> QED BY <2>1, <2>2, <4>1 DEF Clear
        <3> QED BY <3>1
    <2>4. i + 1 \in 1 .. Len(p) /\ a + (i + 1) - 1 = a + i
        BY <1>3, <2>3
    <2> QED BY <1>3, <2>2, <2>4
<1>5. ASSUME NEW i \in 1 .. Len(p), p[i] = ">" PROVE i > 1 /\ p[i - 1] = "<"
    <2>1. a + i - 1 \in 1 .. Len(s) /\ s[a + i - 1] = ">"
        BY <1>3, <1>5
    <2>2. a + i - 1 > 1 /\ s[a + i - 2] = "<"
        <3>1. PICK k \in 1 .. Len(s) : k = a + i - 1
            BY <2>1
        <3>2. k \in DOMAIN s /\ s[k] = ">"
            BY <2>1, <3>1
        <3>3. k > 1 /\ s[k - 1] = "<"
            BY <3>2 DEF FencesWhole
        <3>4. k - 1 = a + i - 2
            BY <1>3, <3>1
        <3> QED BY <3>1, <3>3, <3>4
    <2>3. i # 1
        <3>1. CASE i = 1
            <4>1. a + i - 1 = a /\ a + i - 2 = a - 1 /\ a \in 2 .. Len(s)
                BY <1>3, <2>1, <2>2, <3>1
            <4> QED BY <2>1, <2>2, <4>1 DEF Clear
        <3> QED BY <3>1
    <2>4. i - 1 \in 1 .. Len(p) /\ a + (i - 1) - 1 = a + i - 2
        BY <1>3, <2>3
    <2> QED BY <1>3, <2>2, <2>4
<1>6. FencesWhole(p)
    BY <1>3, <1>4, <1>5 DEF FencesWhole
<1> QED BY <1>2, <1>6

LEMMA ClearAtEnds ==
    ASSUME NEW S, NEW s \in Seq(S)
    PROVE  Clear(s, 1) /\ Clear(s, Len(s) + 1)
<1>1. 1 \notin 2 .. Len(s) /\ Len(s) + 1 \notin 2 .. Len(s)
    OBVIOUS
<1> QED BY <1>1 DEF Clear

\* Blanks are no part of a fence.
LEMMA WholeStrip ==
    ASSUME NEW S, NEW s \in Seq(S), FencesWhole(s)
    PROVE  /\ \A set \in SUBSET Blank : FencesWhole(LeftStrip(s, set))
           /\ FencesWhole(RightStrip(s, Blank)) /\ FencesWhole(Strip(s))
<1>1. ASSUME NEW t \in Seq(S), FencesWhole(t), NEW set \in SUBSET Blank
      PROVE  LeftStrip(t, set) \in Seq(S) /\ FencesWhole(LeftStrip(t, set))
    <2>1. PICK k \in 1 .. Len(t) + 1 : /\ LeftStrip(t, set) = SubSeq(t, k, Len(t))
                                       /\ \A i \in 1 .. k - 1 : t[i] \in set
        BY LeftStripFacts
    <2>2. Clear(t, k)
        <3>1. k \in 2 .. Len(t) => k - 1 \in 1 .. k - 1
            OBVIOUS
        <3>2. "<" \notin set
            BY DEF Blank
        <3> QED BY <2>1, <3>1, <3>2 DEF Clear
    <2>3. Clear(t, Len(t) + 1) /\ Len(t) \in 0 .. Len(t)
        BY ClearAtEnds
    <2>4. FencesWhole(SubSeq(t, k, Len(t)))
        BY <1>1, <2>2, <2>3, WholePart
    <2>5. SubSeq(t, k, Len(t)) \in Seq(S)
        BY <2>3, PartOfString
    <2> QED BY <2>1, <2>4, <2>5
<1>2. ASSUME NEW t \in Seq(S), FencesWhole(t)
      PROVE  FencesWhole(RightStrip(t, Blank))
    <2>1. PICK k \in 0 .. Len(t) : /\ RightStrip(t, Blank) = SubSeq(t, 1, k)
                                   /\ \A i \in k + 1 .. Len(t) : t[i] \in Blank
        BY RightStripFacts
    <2>2. Clear(t, k + 1)
        <3>1. k + 1 \in 2 .. Len(t) => k + 1 \in k + 1 .. Len(t)
            OBVIOUS
        <3>2. ">" \notin Blank
            BY DEF Blank
        <3> QED BY <2>1, <3>1, <3>2 DEF Clear
    <2>3. Clear(t, 1) /\ 1 \in 1 .. Len(t) + 1
        BY ClearAtEnds
    <2>4. FencesWhole(SubSeq(t, 1, k))
        BY <1>2, <2>2, <2>3, WholePart
    <2> QED BY <2>1, <2>4
<1>3. LeftStrip(s, Blank) \in Seq(S) /\ FencesWhole(LeftStrip(s, Blank))
    <2>1. Blank \in SUBSET Blank
        OBVIOUS
    <2> QED BY <1>1, <2>1
<1>4. FencesWhole(Strip(s))
    BY <1>2, <1>3 DEF Strip
<1> QED BY <1>1, <1>2, <1>4

\* Nor is a blank line between two strings.
LEMMA WholeJoined ==
    ASSUME NEW S, NEW s \in Seq(S), NEW t \in Seq(S), "n" \in S, FencesWhole(s), FencesWhole(t)
    PROVE  FencesWhole(s \o <<"n", "n">> \o t)
<1>1. PICK j \in Seq(S) : j = s \o <<"n", "n">> \o t
    BY JoinedLength
<1>2. PICK d \in Nat : d = Len(s) + 2
    OBVIOUS
<1>3. /\ Len(j) = d + Len(t) /\ DOMAIN j = 1 .. Len(j) /\ Len(t) \in Nat /\ d - 2 = Len(s) /\ Len(s) \in Nat
      /\ \A i \in 1 .. Len(s) : j[i] = s[i]
      /\ j[d - 1] = "n" /\ j[d] = "n"
      /\ \A i \in 1 .. Len(t) : j[i + d] = t[i]
    BY <1>1, <1>2
<1>4. ASSUME NEW i \in 1 .. Len(j) PROVE \/ i \in 1 .. Len(s)
                                         \/ j[i] = "n"
                                         \/ i - d \in 1 .. Len(t) /\ j[i] = t[i - d]
    <2>1. CASE i > d
        <3>1. i - d \in 1 .. Len(t) /\ i - d + d = i
            BY <1>3, <2>1
        <3> QED BY <1>3, <3>1
    <2>2. CASE i <= d
        <3>1. i \in 1 .. Len(s) \/ i = d \/ i = d - 1
            BY <1>3, <2>2
        <3> QED BY <1>3, <3>1
    <2> QED BY <1>3, <2>1, <2>2
<1>5. ASSUME NEW i \in 1 .. Len(j), j[i] = "<" PROVE i < Len(j) /\ j[i + 1] = ">"
    <2>1. CASE i \in 1 .. Len(s)
        <3>1. i \in DOMAIN s /\ s[i] = "<"
            BY <1>3, <1>5, <2>1
        <3>2. i < Len(s) /\ s[i + 1] = ">"
            BY <3>1 DEF FencesWhole
        <3>3. i + 1 \in 1 .. Len(s) /\ i < Len(j)
            BY <1>3, <2>1, <3>2
        <3> QED BY <1>3, <3>2, <3>3
    <2>2. CASE i - d \in 1 .. Len(t) /\ j[i] = t[i - d]
        <3>1. i - d \in DOMAIN t /\ t[i - d] = "<"
            BY <1>5, <2>2
        <3>2. i - d < Len(t) /\ t[i - d + 1] = ">"
            BY <3>1 DEF FencesWhole
        <3>3. i - d + 1 \in 1 .. Len(t) /\ i < Len(j) /\ i - d + 1 + d = i + 1
            BY <1>3, <2>2, <3>2
        <3> QED BY <1>3, <3>2, <3>3
    <2> QED BY <1>4, <1>5, <2>1, <2>2
<1>6. ASSUME NEW i \in 1 .. Len(j), j[i] = ">" PROVE i > 1 /\ j[i - 1] = "<"
    <2>1. CASE i \in 1 .. Len(s)
        <3>1. i \in DOMAIN s /\ s[i] = ">"
            BY <1>3, <1>6, <2>1
        <3>2. i > 1 /\ s[i - 1] = "<"
            BY <3>1 DEF FencesWhole
        <3>3. i - 1 \in 1 .. Len(s)
            BY <1>3, <2>1, <3>2
        <3> QED BY <1>3, <3>2, <3>3
    <2>2. CASE i - d \in 1 .. Len(t) /\ j[i] = t[i - d]
        <3>1. i - d \in DOMAIN t /\ t[i - d] = ">"
            BY <1>6, <2>2
        <3>2. i - d > 1 /\ t[i - d - 1] = "<"
            BY <3>1 DEF FencesWhole
        <3>3. i - d - 1 \in 1 .. Len(t) /\ i > 1 /\ i - d - 1 + d = i - 1
            BY <1>3, <2>2, <3>2
        <3> QED BY <1>3, <3>2, <3>3
    <2> QED BY <1>4, <1>6, <2>1, <2>2
<1>7. FencesWhole(j)
    BY <1>3, <1>5, <1>6 DEF FencesWhole
<1> QED BY <1>1, <1>7

\* A part of a part is a part.
LEMMA PartOfThat ==
    ASSUME NEW S, NEW s \in Seq(S), NEW b \in Seq(S), PartOf(s, b),
           NEW x \in 1 .. Len(s) + 1, NEW y \in 0 .. Len(s)
    PROVE  PartOf(SubSeq(s, x, y), b)
<1>1. /\ SubSeq(s, x, y) \in Seq(S)
      /\ Len(SubSeq(s, x, y)) = IF x <= y THEN y - x + 1 ELSE 0
      /\ \A i \in 1 .. Len(SubSeq(s, x, y)) : SubSeq(s, x, y)[i] = s[x + i - 1]
    BY PartOfString
<1>2. PICK p \in Seq(S) : p = SubSeq(s, x, y)
    BY <1>1
<1>3. PICK a \in 0 .. Len(b) : a + Len(s) <= Len(b) /\ \A i \in 1 .. Len(s) : s[i] = b[a + i]
    BY DEF PartOf
<1>4. /\ Len(p) = (IF x <= y THEN y - x + 1 ELSE 0)
      /\ \A i \in 1 .. Len(p) : p[i] = s[x + i - 1]
      /\ {a, x, y, Len(s), Len(b), Len(p)} \subseteq Nat
    BY <1>1, <1>2
<1>5. a + (x - 1) \in 0 .. Len(b) /\ a + (x - 1) + Len(p) <= Len(b)
    BY <1>3, <1>4
<1>6. ASSUME NEW i \in 1 .. Len(p) PROVE p[i] = b[a + (x - 1) + i]
    <2>1. x + i - 1 \in 1 .. Len(s) /\ a + (x + i - 1) = a + (x - 1) + i
        BY <1>4
    <2>2. p[i] = s[x + i - 1] /\ s[x + i - 1] = b[a + (x + i - 1)]
        BY <1>3, <1>4, <2>1
    <2> QED BY <2>1, <2>2
<1>7. PartOf(p, b)
    BY <1>5, <1>6 DEF PartOf
<1> QED BY <1>2, <1>7

\* A string is a part of itself, and nothing is a part of it,
LEMMA PartOfItself ==
    ASSUME NEW S, NEW b \in Seq(S)
    PROVE  PartOf(b, b) /\ PartOf(<<>>, b)
<1>1. 0 \in 0 .. Len(b) /\ 0 + Len(b) <= Len(b) /\ \A i \in 1 .. Len(b) : 0 + i = i
    OBVIOUS
<1>2. PartOf(b, b)
    BY <1>1 DEF PartOf
<1>3. Len(<<>>) = 0 /\ 0 + 0 <= Len(b)
    OBVIOUS
<1>4. PartOf(<<>>, b)
    BY <1>1, <1>3 DEF PartOf
<1> QED BY <1>2, <1>4

\* and so is what is left of it without blanks.
LEMMA PartOfStripped ==
    ASSUME NEW S, NEW s \in Seq(S), NEW b \in Seq(S), PartOf(s, b)
    PROVE  PartOf(Strip(s), b) /\ \A set : PartOf(LeftStrip(s, set), b)
<1>1. ASSUME NEW set PROVE PartOf(LeftStrip(s, set), b) /\ LeftStrip(s, set) \in Seq(S)
    <2>1. PICK k \in 1 .. Len(s) + 1 : LeftStrip(s, set) = SubSeq(s, k, Len(s))
        BY LeftStripFacts
    <2>2. Len(s) \in 0 .. Len(s)
        OBVIOUS
    <2>3. PartOf(SubSeq(s, k, Len(s)), b) /\ SubSeq(s, k, Len(s)) \in Seq(S)
        BY <2>2, PartOfThat, PartOfString
    <2> QED BY <2>1, <2>3
<1>2. PICK l \in Seq(S) : l = LeftStrip(s, Blank) /\ PartOf(l, b)
    BY <1>1
<1>3. PICK k \in 0 .. Len(l) : RightStrip(l, Blank) = SubSeq(l, 1, k)
    BY RightStripFacts
<1>4. 1 \in 1 .. Len(l) + 1
    OBVIOUS
<1>5. PartOf(SubSeq(l, 1, k), b)
    BY <1>2, <1>4, PartOfThat
<1>6. PartOf(Strip(s), b)
    BY <1>2, <1>3, <1>5 DEF Strip
<1> QED BY <1>1, <1>6
-----------------------------------------------------------------------------
(* Fences stay whole *)

\* The heading of the section is one of the text, or none.
LEMMA SectionTypes ==
    ASSUME ChunkTypes, StackInv
    PROVE  Top \in 0 .. Len(text) /\ Section \in Seq(Alphabet)
<1>1. text \in Seq(Alphabet) /\ stack \in Seq(Nat) /\ Len(text) \in Nat
    BY DEF ChunkTypes
<1>2. Top = IF stack = <<>> THEN 0 ELSE stack[Len(stack)]
    BY <1>1, TopFacts
<1>3. stack # <<>> => Len(stack) \in DOMAIN stack
    BY <1>1
<1>4. stack # <<>> => stack[Len(stack)] \in 1 .. Len(text)
    BY <1>1, <1>3 DEF StackInv, HeadsOf
<1>5. Top \in 0 .. Len(text)
    BY <1>1, <1>2, <1>4
<1> QED BY <1>1, <1>5, BodyIsPart DEF Section

\* The body of a section has no fence cut at its ends.
LEMMA WholeBody ==
    ASSUME text \in Seq(Alphabet), FencesWhole(text), NEW i \in HeadsOf(text) \cup {0}, i <= Len(text)
    PROVE  FencesWhole(Body(text, i))
<1>1. i \in 0 .. Len(text) /\ Len(text) \in Nat
    BY DEF HeadsOf
<1>2. Body(text, i) = SubSeq(text, i + 1, NextHead(i) - 1)
    BY <1>1, BodyIsPart
<1>3. PICK h \in 1 .. Len(text) + 1 : h = NextHead(i) /\ (h \in HeadsOf(text) \/ h = Len(text) + 1)
    BY <1>1, NextHeadFacts
<1>4. "<" \notin Headers /\ ">" \notin Headers
    BY DEF Headers
<1>5. Clear(text, i + 1)
    <2>1. CASE i = 0
        BY <2>1, ClearAtEnds
    <2>2. CASE i \in HeadsOf(text)
        <3>1. PICK k \in Nat : k = i + 1
            BY <1>1
        <3>2. text[i] # "<" /\ k - 1 = i
            BY <1>1, <1>4, <2>2, <3>1 DEF HeadsOf
        <3>3. Clear(text, k)
            BY <3>2 DEF Clear
        <3> QED BY <3>1, <3>3
    <2> QED BY <2>1, <2>2
<1>6. Clear(text, h)
    <2>1. CASE h \in HeadsOf(text)
        BY <1>4, <2>1 DEF HeadsOf, Clear
    <2>2. CASE h = Len(text) + 1
        BY <2>2, ClearAtEnds
    <2> QED BY <1>3, <2>1, <2>2
<1>7. i + 1 \in 1 .. Len(text) + 1 /\ h - 1 \in 0 .. Len(text) /\ h - 1 + 1 = h
    BY <1>1, <1>3
<1>8. FencesWhole(SubSeq(text, i + 1, h - 1))
    BY <1>5, <1>6, <1>7, WholePart
<1> QED BY <1>2, <1>3, <1>8

\* A chunk that is put has whole fences if its body had.
LEMMA PutWhole ==
    ASSUME chunks \in Seq(Chunk), stack' \in Seq(Nat), text' = text, ChunksWhole,
           NEW body, body \in Seq(Alphabet), Breakable(Section', stack') => FencesWhole(body),
           chunks' = Put(stack', body)
    PROVE  ChunksWhole'
<1> DEFINE b == IF stack' = <<>> THEN Strip(body) ELSE RightStrip(body, Blank)
           c == [crumb |-> stack', body |-> b]
<1>1. FencesWhole(body) => FencesWhole(b)
    BY WholeStrip
<1>2. Put(stack', body) \in {chunks, Append(chunks, c)}
    BY DEF Put
<1>3. c.crumb = stack' /\ c.body = b
    OBVIOUS
<1> HIDE DEF b, c
<1>4. /\ DOMAIN Append(chunks, c) = 1 .. Len(chunks) + 1
      /\ \A n \in 1 .. Len(chunks) : Append(chunks, c)[n] = chunks[n]
      /\ Append(chunks, c)[Len(chunks) + 1] = c
      /\ DOMAIN chunks = 1 .. Len(chunks) /\ Len(chunks) \in Nat
    OBVIOUS
<1>5. HeadOf(c) = Top'
    BY <1>3 DEF HeadOf, Top
<1>6. Breakable(Body(text, HeadOf(c)), c.crumb) => FencesWhole(c.body)
    BY <1>1, <1>3, <1>5 DEF Section
<1>7. ASSUME NEW n \in DOMAIN chunks',
             Breakable(Body(text, HeadOf(chunks'[n])), chunks'[n].crumb)
      PROVE  FencesWhole(chunks'[n].body)
    <2>1. (n \in DOMAIN chunks /\ chunks'[n] = chunks[n]) \/ chunks'[n] = c
        BY <1>2, <1>4
    <2> QED BY <1>6, <1>7, <2>1 DEF ChunksWhole
<1> QED BY <1>7 DEF ChunksWhole

\* The next lemmas: one per action, that WholeInv holds after it.
LEMMA ChunksWholeKept ==
    ASSUME ChunksWhole, chunks' = chunks, text' = text
    PROVE  ChunksWhole'
BY DEF ChunksWhole

LEMMA NothingWhole == FencesWhole(<<>>)
<1>1. DOMAIN <<>> = {}
    OBVIOUS
<1> QED BY <1>1 DEF FencesWhole

LEMMA EnterWhole ==
    ASSUME FitInv, StackInv, WholeInv, TakeWhole \/ TakeWords \/ TakeParagraphs
    PROVE  WholeInv'
<1> DEFINE b == Strip(Body(text, next))
<1>1. /\ ChunkTypes /\ Enter /\ text \in Seq(Alphabet) /\ chunks \in Seq(Chunk) /\ phase = "sections"
      /\ text' = text /\ joined' = joined /\ next <= Len(text) /\ next \in HeadsOf(text) \cup {0}
      /\ stack' = Push(next)
    BY DEF FitInv, ChunkTypes, TakeWhole, TakeWords, TakeParagraphs, Enter
<1>2. Top' = next /\ stack' \in Seq(Nat)
    BY <1>1, EnterTop
<1>3. Section' = Body(text, next)
    BY <1>1, <1>2 DEF Section
<1>4. Body(text, next) \in Seq(Alphabet) /\ b \in Seq(Alphabet)
    BY <1>1, EnterFacts
<1>5. FencesWhole(Body(text, next))
    BY <1>1, WholeBody DEF WholeInv
<1>6. FencesWhole(b) /\ PartOf(b, Section') /\ PartOf(<<>>, Section')
    BY <1>3, <1>4, <1>5, WholeStrip, PartOfItself, PartOfStripped
<1>7. FencesWhole(text') /\ FencesWhole(joined') /\ FencesWhole(tail) /\ ChunksWhole /\ tail = <<>>
    BY <1>1 DEF WholeInv, FitInv, Pieces
<1>8. CASE TakeWhole
    <2>1. chunks' = Put(stack', b) /\ phase' = "sections" /\ tail' = tail
        BY <1>1, <1>8 DEF TakeWhole
    <2>2. ChunksWhole'
        BY <1>1, <1>2, <1>4, <1>6, <1>7, <2>1, PutWhole
    <2> QED BY <1>7, <2>1, <2>2 DEF WholeInv
<1>9. CASE TakeWords
    <2>1. chunks' = chunks /\ phase' = "words" /\ tail' = tail /\ rest' = b
        BY <1>9 DEF TakeWords
    <2>2. ChunksWhole'
        BY <1>1, <1>7, <2>1, ChunksWholeKept
    <2> HIDE DEF b
    <2> QED BY <1>6, <1>7, <2>1, <2>2 DEF WholeInv
<1>10. CASE TakeParagraphs
    <2>1. chunks' = chunks /\ phase' = "paragraphs" /\ tail' = b
        BY <1>10 DEF TakeParagraphs
    <2>2. ChunksWhole'
        BY <1>1, <1>7, <2>1, ChunksWholeKept
    <2> HIDE DEF b
    <2> QED BY <1>6, <1>7, <2>1, <2>2 DEF WholeInv
<1> QED BY <1>8, <1>9, <1>10

\* What is flushed has whole fences.
LEMMA FlushWhole ==
    ASSUME ChunkTypes, WholeInv, chunks' = Flush, UNCHANGED <<text, stack>>
    PROVE  ChunksWhole'
<1>1. /\ chunks \in Seq(Chunk) /\ stack' \in Seq(Nat) /\ text' = text /\ ChunksWhole
      /\ joined \in Seq(Alphabet) /\ FencesWhole(joined)
    BY DEF ChunkTypes, WholeInv
<1>2. CASE joined = <<>>
    BY <1>1, <1>2, ChunksWholeKept DEF Flush
<1>3. CASE joined # <<>>
    <2>1. chunks' = Put(stack', joined)
        BY <1>3 DEF Flush
    <2> QED BY <1>1, <2>1, PutWhole
<1> QED BY <1>2, <1>3

\* The first paragraph of the tail, and what is left, are parts of it and cut
\* no fence.
LEMMA AdvanceParts ==
    ASSUME ChunkTypes, StackInv, WholeInv, Advance
    PROVE  /\ FencesWhole(Paragraph) /\ PartOf(Paragraph, Section)
           /\ FencesWhole(tail') /\ PartOf(tail', Section)
<1>1. tail \in Seq(Alphabet) /\ FencesWhole(tail) /\ PartOf(tail, Section) /\ Section \in Seq(Alphabet)
    BY SectionTypes DEF ChunkTypes, WholeInv, Advance
<1> DEFINE e == ParagraphEnd(tail)
           after == SubSeq(tail, e + 1, Len(tail))
<1>2. /\ e \in 0 .. Len(tail) /\ after \in Seq(Alphabet)
      /\ e < Len(tail) => tail[e + 1] = "n"
    BY <1>1, ParagraphFacts
<1>3. Paragraph = SubSeq(tail, 1, e) /\ tail' = LeftStrip(after, {"n"})
    BY DEF Paragraph, Advance
<1> HIDE DEF e
<1>4. Clear(tail, e + 1)
    <2>1. e + 1 \in 2 .. Len(tail) => e < Len(tail)
        BY <1>1, <1>2
    <2> QED BY <1>2, <2>1 DEF Clear
<1>5. Clear(tail, 1) /\ Clear(tail, Len(tail) + 1)
    BY <1>1, ClearAtEnds
<1>6. 1 \in 1 .. Len(tail) + 1 /\ e + 1 \in 1 .. Len(tail) + 1 /\ Len(tail) \in 0 .. Len(tail)
    BY <1>1, <1>2
<1>7. FencesWhole(Paragraph) /\ PartOf(Paragraph, Section)
    <2>1. FencesWhole(SubSeq(tail, 1, e))
        BY <1>1, <1>2, <1>4, <1>5, <1>6, WholePart
    <2>2. PartOf(SubSeq(tail, 1, e), Section)
        BY <1>1, <1>2, <1>6, PartOfThat
    <2> QED BY <1>3, <2>1, <2>2
<1>8. FencesWhole(after) /\ PartOf(after, Section)
    <2>1. FencesWhole(SubSeq(tail, e + 1, Len(tail)))
        BY <1>1, <1>2, <1>4, <1>5, <1>6, WholePart
    <2>2. PartOf(SubSeq(tail, e + 1, Len(tail)), Section)
        BY <1>1, <1>6, PartOfThat
    <2> QED BY <2>1, <2>2
<1> HIDE DEF after
<1>9. {"n"} \in SUBSET Blank
    BY DEF Blank
<1>10. FencesWhole(tail')
    BY <1>2, <1>3, <1>8, <1>9, WholeStrip
<1>11. PartOf(tail', Section)
    BY <1>1, <1>2, <1>3, <1>8, PartOfStripped
<1> QED BY <1>7, <1>10, <1>11

LEMMA AdvanceWhole ==
    ASSUME FitInv, StackInv, WholeInv, SkipBlank \/ CutParagraph \/ StartPiece \/ JoinParagraph
    PROVE  WholeInv'
<1>1. ChunkTypes /\ Advance /\ UNCHANGED <<text, stack>> /\ phase = "paragraphs"
    BY DEF FitInv, SkipBlank, CutParagraph, StartPiece, JoinParagraph, Advance
<1>2. /\ FencesWhole(Paragraph) /\ PartOf(Paragraph, Section)
      /\ FencesWhole(tail') /\ PartOf(tail', Section)
    BY <1>1, AdvanceParts
<1>3. Section' = Section
    BY <1>1 DEF Section, Top
<1>4. FencesWhole(text') /\ FencesWhole(joined) /\ ChunksWhole
    BY <1>1 DEF WholeInv
<1>5. chunks' = Flush => ChunksWhole'
    BY <1>1, FlushWhole
<1>6. chunks' = chunks => ChunksWhole'
    BY <1>1, <1>4, ChunksWholeKept
<1>7. CASE SkipBlank
    BY <1>1, <1>2, <1>3, <1>4, <1>6, <1>7 DEF SkipBlank, WholeInv
<1>8. CASE CutParagraph
    <2>1. chunks' = Flush /\ joined' = <<>> /\ rest' = Paragraph /\ phase' = "words"
        BY <1>8 DEF CutParagraph
    <2> QED BY <1>2, <1>3, <1>4, <1>5, <2>1, NothingWhole DEF WholeInv
<1>9. CASE StartPiece
    <2>1. chunks' = Flush /\ joined' = Paragraph /\ phase' = "paragraphs"
        BY <1>1, <1>9 DEF StartPiece
    <2> QED BY <1>2, <1>3, <1>4, <1>5, <2>1 DEF WholeInv
<1>10. CASE JoinParagraph
    <2>1. chunks' = chunks /\ phase' = "paragraphs"
        BY <1>1, <1>10 DEF JoinParagraph
    <2>2. FencesWhole(joined')
        <3>1. CASE joined' = Paragraph
            BY <1>2, <3>1
        <3>2. CASE joined' = joined \o <<"n", "n">> \o Paragraph
            <4>1. Paragraph \in Seq(Alphabet) /\ joined \in Seq(Alphabet) /\ "n" \in Alphabet
                BY <1>1, AdvanceKeeps DEF ChunkTypes, Alphabet, Characters, Blank
            <4>2. FencesWhole(joined \o <<"n", "n">> \o Paragraph)
                BY <1>2, <1>4, <4>1, WholeJoined
            <4> QED BY <3>2, <4>2
        <3> QED BY <1>10, <3>1, <3>2 DEF JoinParagraph
    <2> QED BY <1>2, <1>3, <1>4, <1>6, <2>1, <2>2 DEF WholeInv
<1> QED BY <1>7, <1>8, <1>9, <1>10

LEMMA EndWhole ==
    ASSUME FitInv, WholeInv, EndSection
    PROVE  WholeInv'
<1>1. ChunkTypes /\ chunks' = Flush /\ joined' = <<>> /\ phase' = "sections" /\ UNCHANGED <<text, stack, tail>>
    BY DEF FitInv, EndSection
<1>2. ChunksWhole'
    BY <1>1, FlushWhole
<1> QED BY <1>1, <1>2, NothingWhole DEF WholeInv

\* Where the section has blanks enough, words are cut before a space.
LEMMA CutIsClear ==
    ASSUME FitInv, StackInv, WholeInv, phase = "words", Breakable(Section, stack),
           Len(rest) > Room(stack)
    PROVE  rest[WordBoundary(rest, Room(stack)) + 1] = "_"
<1>1. /\ ChunkTypes /\ rest \in Seq(Alphabet) /\ stack \in Seq(Nat) /\ PartOf(rest, Section)
      /\ Budget(stack) > 0 => OneParagraph(rest)
    BY DEF FitInv, ChunkTypes, Pieces, WholeInv
<1>2. Room(stack) \in Nat /\ Room(stack) > 0 /\ Budget(stack) \in Int
    BY <1>1, BudgetFacts
<1>3. Section \in Seq(Alphabet)
    BY <1>1, SectionTypes
<1>4. PICK a \in 0 .. Len(Section) :
          a + Len(rest) <= Len(Section) /\ \A i \in 1 .. Len(rest) : rest[i] = Section[a + i]
    BY <1>1 DEF PartOf
<1>5. PICK room \in Nat \ {0} : room = Room(stack)
    BY <1>2
<1>6. a + 1 \in 1 .. Len(Section) - room
    BY <1>1, <1>3, <1>4, <1>5
<1>7. PICK j \in a + 1 + 1 .. a + 1 + room - 1 :
          Section[j] = "_" \/ (Budget(stack) > 0 /\ j \in Breaks(Section))
    BY <1>5, <1>6 DEF Breakable
<1>8. PICK i \in 2 .. room : a + i = j
    <2>1. Len(Section) \in Nat
        BY <1>3
    <2>2. a \in Nat
        BY <2>1
    <2>3. j - a \in 2 .. room /\ a + (j - a) = j
        BY <2>2
    <2> QED BY <2>3
<1>9. i \in 1 .. Len(rest)
    BY <1>1, <1>5, <1>8
<1>10. rest[i] = "_"
    <2>1. rest[i] = Section[j]
        BY <1>4, <1>8, <1>9
    <2>2. ASSUME Budget(stack) > 0, j \in Breaks(Section)
          PROVE  FALSE
        <3>1. Section[j] = "n" /\ Section[j + 1] = "n"
            BY <2>2 DEF Breaks
        <3>2. i + 1 \in 1 .. Len(rest) /\ a + (i + 1) = j + 1 /\ i \in 1 .. Len(rest) - 1
            BY <1>1, <1>4, <1>5, <1>8, <1>9
        <3>3. rest[i] = "n" /\ rest[i + 1] = "n"
            BY <1>4, <1>8, <1>9, <3>1, <3>2
        <3> QED BY <1>1, <2>2, <3>2, <3>3 DEF OneParagraph, Breaks
    <2> QED BY <1>7, <2>1, <2>2
<1>11. ~ \A k \in 2 .. Room(stack) : rest[k] # "_"
    BY <1>5, <1>8, <1>10
<1> QED BY <1>2, <1>11, WordBoundaryFacts

LEMMA WordsWhole ==
    ASSUME FitInv, StackInv, WholeInv, CutWords
    PROVE  WholeInv'
<1> DEFINE cut == WordBoundary(rest, Room(stack))
           piece == SubSeq(rest, 1, cut)
           after == SubSeq(rest, cut + 1, Len(rest))
<1>1. /\ chunks' = Put(stack', piece) /\ rest' = LeftStrip(after, {"_"}) /\ Len(rest) > Room(stack)
      /\ UNCHANGED <<text, next, stack, phase, tail, joined>> /\ phase = "words"
    BY DEF CutWords
<1>2. /\ ChunkTypes /\ chunks \in Seq(Chunk) /\ rest \in Seq(Alphabet) /\ stack' \in Seq(Nat)
      /\ stack \in Seq(Nat) /\ text' = text
    BY <1>1 DEF FitInv, ChunkTypes
<1>3. /\ FencesWhole(text) /\ FencesWhole(tail) /\ FencesWhole(joined) /\ ChunksWhole
      /\ PartOf(tail, Section) /\ PartOf(rest, Section)
      /\ Breakable(Section, stack) => FencesWhole(rest)
    BY <1>1 DEF WholeInv
<1>4. Section \in Seq(Alphabet) /\ Section' = Section
    BY <1>1, <1>2, SectionTypes DEF Section, Top
<1>5. cut \in 0 .. Len(rest)
    <2>1. PICK room \in Nat : room = Room(stack) /\ room > 0
        BY <1>2, BudgetFacts
    <2>2. WordBoundary(rest, room) \in 1 .. room
        BY <2>1, WordBoundaryFacts
    <2>3. cut \in 1 .. room
        BY <2>1, <2>2
    <2> HIDE DEF cut
    <2>4. Len(rest) \in Nat
        BY <1>2
    <2>5. Len(rest) > room
        BY <1>1, <2>1
    <2> QED BY <2>1, <2>3, <2>4, <2>5
<1>6. Breakable(Section, stack) => rest[cut + 1] = "_"
    BY <1>1, CutIsClear
<1> HIDE DEF cut
<1>7. 1 \in 1 .. Len(rest) + 1 /\ cut + 1 \in 1 .. Len(rest) + 1 /\ Len(rest) \in 0 .. Len(rest)
    BY <1>2, <1>5
<1>8. piece \in Seq(Alphabet) /\ after \in Seq(Alphabet)
    BY <1>2, <1>5, <1>7, PartOfString
<1>9. PartOf(after, Section)
    BY <1>2, <1>3, <1>4, <1>7, PartOfThat
<1>10. ASSUME Breakable(Section, stack) PROVE FencesWhole(piece) /\ FencesWhole(after)
    <2>1. FencesWhole(rest) /\ Clear(rest, cut + 1)
        BY <1>3, <1>6, <1>10 DEF Clear
    <2>2. Clear(rest, 1) /\ Clear(rest, Len(rest) + 1)
        BY <1>2, ClearAtEnds
    <2>3. FencesWhole(SubSeq(rest, 1, cut))
        BY <1>2, <1>5, <1>7, <2>1, <2>2, WholePart
    <2>4. FencesWhole(SubSeq(rest, cut + 1, Len(rest)))
        BY <1>2, <1>7, <2>1, <2>2, WholePart
    <2> QED BY <2>3, <2>4
<1> HIDE DEF piece, after
<1>11. PartOf(rest', Section)
    BY <1>1, <1>4, <1>8, <1>9, PartOfStripped
<1>12. ASSUME Breakable(Section, stack) PROVE FencesWhole(rest')
    <2>1. {"_"} \in SUBSET Blank
        BY DEF Blank
    <2> QED BY <1>1, <1>8, <1>10, <1>12, <2>1, WholeStrip
<1>13. Breakable(Section', stack') => FencesWhole(piece)
    BY <1>1, <1>4, <1>10
<1>14. ChunksWhole'
    BY <1>1, <1>2, <1>3, <1>8, <1>13, PutWhole
<1> QED BY <1>1, <1>3, <1>4, <1>11, <1>12, <1>14 DEF WholeInv

LEMMA LastWhole ==
    ASSUME FitInv, StackInv, WholeInv, LastWords
    PROVE  WholeInv'
<1>1. /\ phase = "words" /\ phase' = "paragraphs" /\ rest' = <<>> /\ UNCHANGED <<text, stack, tail, joined>>
      /\ chunks' = IF rest = <<>> THEN chunks ELSE Put(stack', rest)
    BY DEF LastWords
<1>2. chunks \in Seq(Chunk) /\ rest \in Seq(Alphabet) /\ stack' \in Seq(Nat) /\ text' = text
    BY <1>1 DEF FitInv, ChunkTypes
<1>3. /\ FencesWhole(text) /\ FencesWhole(tail) /\ FencesWhole(joined) /\ ChunksWhole
      /\ PartOf(tail, Section)
      /\ Breakable(Section, stack) => FencesWhole(rest)
    BY <1>1 DEF WholeInv
<1>4. Section' = Section
    BY <1>1 DEF Section, Top
<1>5. ChunksWhole'
    <2>1. CASE rest = <<>>
        BY <1>1, <1>3, <2>1, ChunksWholeKept
    <2>2. CASE rest # <<>>
        <3>1. chunks' = Put(stack', rest) /\ (Breakable(Section', stack') => FencesWhole(rest))
            BY <1>1, <1>3, <1>4, <2>2
        <3> QED BY <1>2, <1>3, <3>1, PutWhole
    <2> QED BY <2>1, <2>2
<1> QED BY <1>1, <1>3, <1>4, <1>5 DEF WholeInv

LEMMA ChunkStepKeepsFences ==
    ASSUME FitInv, StackInv, WholeInv, ChunkStep
    PROVE  WholeInv'
BY EnterWhole, AdvanceWhole, EndWhole, WordsWhole, LastWhole DEF ChunkStep
-----------------------------------------------------------------------------
(* What chunk_text promises *)

KeepInv == TextKept /\ RestIdle /\ HeadsOrdered /\ HeadsCovered /\ WholeInv

\* KeepInv holds at the start of a text, and after every step.
LEMMA NothingKept == Nothing /\ FencesWhole(text) => KeepInv
<1> SUFFICES ASSUME Nothing, FencesWhole(text) PROVE KeepInv
    OBVIOUS
<1>1. /\ text \in Seq(Alphabet) /\ next \in Nat /\ (next = 0 \/ (next = 1 /\ text = <<>>))
      /\ stack = <<>> /\ chunks = <<>> /\ phase = "sections"
      /\ tail = <<>> /\ joined = <<>> /\ rest = <<>>
    BY DEF Nothing
<1>2. <<>> \in Seq(Alphabet) /\ Ink(<<>>) = <<>> /\ DOMAIN <<>> = {}
    BY InkOfNothing
<1>3. Kept(chunks) = <<>>
    <2>1. Bodies(chunks) = <<>>
        BY <1>1, <1>2 DEF Bodies
    <2> QED BY <1>2, <2>1, ConcatOfNone DEF Kept
<1>4. Before(text, next) = <<>>
    <2>1. CASE next = 0
        BY <2>1 DEF Before
    <2>2. CASE next # 0
        <3>1. text = <<>> /\ Before(text, next) = SubSeq(<<>>, 1, 0)
            BY <1>1, <2>2 DEF Before
        <3> QED BY <3>1
    <2> QED BY <2>1, <2>2
<1>5. Written(<<>>) = <<>>
    BY <1>2, PickedNone DEF Written
<1>6. TextKept
    <2>1. Cat(<<>>, Cat(<<>>, Cat(<<>>, <<>>))) = <<>>
        BY <1>2, CatFacts
    <2> QED BY <1>1, <1>2, <1>3, <1>4, <1>5, <2>1 DEF TextKept
<1>7. HeadsOrdered /\ ChunksWhole
    BY <1>1, <1>2 DEF HeadsOrdered, ChunksWhole
<1>8. HeadsCovered
    <2>1. \A j \in HeadsOf(text) : ~(j < next)
        BY <1>1 DEF HeadsOf
    <2> QED BY <2>1 DEF HeadsCovered
<1>9. WholeInv
    BY <1>1, <1>7, NothingWhole DEF WholeInv
<1> QED BY <1>1, <1>6, <1>7, <1>8, <1>9 DEF KeepInv, RestIdle

LEMMA KeepInvInit == IngestInit => KeepInv
<1> SUFFICES ASSUME IngestInit PROVE KeepInv
    OBVIOUS
<1>1. text = <<>> /\ text \in Seq(Alphabet)
    BY DEF IngestInit, ChunkInit
<1>2. Nothing
    BY <1>1 DEF IngestInit, ChunkInit, Nothing
<1> QED BY <1>1, <1>2, NothingKept, NothingWhole

LEMMA KeepInvStep == TypeOK /\ chunked \in Nat /\ ChunkInv /\ KeepInv /\ [IngestNext]_ingestVars => KeepInv'
<1> SUFFICES ASSUME TypeOK, chunked \in Nat, ChunkInv, KeepInv, [IngestNext]_ingestVars PROVE KeepInv'
    OBVIOUS
<1>1. CASE UNCHANGED chunkVars
    BY <1>1 DEF KeepInv, TextKept, RestIdle, HeadsOrdered, HeadsCovered, WholeInv, Pending, Top, Section,
                ChunksWhole, chunkVars
<1>2. ASSUME ChunkDoc PROVE KeepInv'
    <2>1. PICK d \in Document : \E t \in Contents[d.text] :
              Start(t) /\ t \in Seq(Alphabet) /\ FencesWhole(t)
        BY <1>2, TextOfNext
    <2>2. PICK t \in Contents[d.text] : Start(t) /\ t \in Seq(Alphabet) /\ FencesWhole(t)
        BY <2>1
    <2>4. Nothing' /\ FencesWhole(text)'
        BY <2>2 DEF Start, Nothing
    <2> QED BY <2>4, NothingKept, PTL
<1>3. CASE ChunkStep
    BY <1>3, ChunkStepKeepsText, ChunkStepKeepsHeads, ChunkStepKeepsFences DEF KeepInv, ChunkInv
<1> QED BY <1>1, <1>2, <1>3 DEF IngestNext, ingestVars

\* When the text is cut, everything of it is in the chunks.
LEMMA KeptWhenDone ==
    ASSUME ChunkInv, KeepInv, Done
    PROVE  Keeps
<1>1. /\ ChunkTypes /\ text \in Seq(Alphabet) /\ Len(text) \in Nat /\ next > Len(text) /\ phase = "sections"
      /\ joined = <<>> /\ tail = <<>> /\ rest = <<>>
    BY DEF ChunkInv, FitInv, Pieces, ChunkTypes, Done, KeepInv, RestIdle
<1>2. next = Len(text) + 1
    <2>1. \A j \in HeadsOf(text) : j <= Len(text)
        BY <1>1 DEF HeadsOf
    <2>2. next \in HeadsOf(text) \/ next = 0 \/ next = Len(text) + 1
        BY <1>1 DEF ChunkTypes
    <2>3. Len(text) \in Nat /\ next > Len(text)
        BY <1>1
    <2>4. next # 0
        BY <2>3
    <2>5. next \notin HeadsOf(text)
        <3>1. CASE next \in HeadsOf(text)
            <4>1. next <= Len(text) /\ next \in Nat
                BY <1>1, <2>1, <3>1 DEF HeadsOf
            <4> QED BY <2>3, <4>1
        <3> QED BY <3>1
    <2> QED BY <2>2, <2>4, <2>5
<1>3. Before(text, next) = text
    <2>1. next # 0 /\ next - 1 = Len(text)
        BY <1>1, <1>2
    <2>2. SubSeq(text, 1, Len(text)) = text
        BY <1>1
    <2> QED BY <2>1, <2>2 DEF Before
<1>4. Kept(chunks) = Written(text)
    BY <1>1, <1>3, NothingUnderWay DEF KeepInv
<1>5. HeadsOf(text) \subseteq {HeadOf(chunks[n]) : n \in DOMAIN chunks}
    <2>1. \A j \in HeadsOf(text) : j < next
        BY <1>1, <1>2 DEF HeadsOf
    <2> QED BY <1>1, <2>1 DEF KeepInv, HeadsCovered, Pending
<1> QED BY <1>4, <1>5 DEF Keeps, Kept, Bodies, Written, Picked, KeepInv, HeadsOrdered

\* Cutting a document loses, doubles and reorders nothing of it but blanks,
\* every heading heads a chunk, and fenced code stays whole where the text
\* around it has spaces or blank lines to cut at (chunk_text, chunker.py).
THEOREM NothingIsLost == IngestSpec => []ChunksKeepTheText
<1>1. ChunkInv /\ KeepInv => ChunksKeepTheText
    BY KeptWhenDone DEF ChunksKeepTheText, KeepInv, WholeInv, ChunksWhole
<1> QED BY <1>1, DiscoveryTypeCorrect, IngestDiscovers, ChunkedCounts, ChunkInvariant, KeepInvInit, KeepInvStep, PTL DEF IngestSpec
=============================================================================
