---------------------------- MODULE DocDiscovery ----------------------------
(***************************************************************************)
(* ingestion/trusted.py `discover_documents`: one pass over the configured *)
(* checkouts that decides which documents a build indexes and under which  *)
(* visibility.  Of each checkout it reads, one after the other, the        *)
(* revision, the three files that say what is PUBLIC (VisibilityResolver)  *)
(* and then the documents, directory by directory (os.walk is lazy).       *)
(*                                                                         *)
(* Nothing locks a checkout: somebody may pull while the pass runs.  Git   *)
(* replaces the files of the working tree one by one and moves HEAD last,  *)
(* so a checkout is a mixture of two consecutive commits meanwhile.        *)
(***************************************************************************)
EXTENDS Integers, Sequences, FiniteSets, Functions

CONSTANTS
    Repos,          \* repositories with a name
    Configured,     \* SourcePolicy.repository_names, one name may come twice
    DocsRepo,       \* omnibioai-docs
    Dirs,           \* directories of a checkout, as sequences of names
    Paths,          \* files of a checkout
    DirOf, NameOf,  \* directory and kind of name of a file
    SkipDirs,       \* names that are never walked: SKIP_DIRS and dot-names
    SkipSegments,   \* SKIP_PATH_SEGMENTS
    Texts,          \* what a document may say
    Histories,      \* bound: the commits each checkout may pass through
    Missing,        \* a file that is absent, or holds no usable entry
    Malformed,      \* a file that does not parse
    None

Visibilities == {"PUBLIC", "INTERNAL", "REVIEW_REQUIRED"}
PolicyFiles == {"inventory", "manifest", "policy"}
Files == PolicyFiles \cup Paths
Names == {"README.md", "page.md", "other"}  \* "other": not markdown

\* The inventory classifies pages or not, the manifest withholds them as
\* INTERNAL (PLATFORM_OWNER) or REVIEW_REQUIRED or not, the policy names the
\* directory the public site is built from.
Commit ==
    [inventory : [Paths -> Visibilities \cup {"unlisted"}] \cup {Malformed},
     manifest : [Paths -> {"kept", "INTERNAL", "REVIEW_REQUIRED"}] \cup {Missing, Malformed},
     policy : Dirs \cup {Missing, Malformed},
     text : [Paths -> Texts \cup {"absent", "empty"}]]

ASSUME DiscoveryAssumption ==
    /\ DocsRepo \in Repos
    /\ Configured \in Seq(Repos)
    /\ None \notin Repos
    /\ <<>> \in Dirs
    /\ Paths \cap PolicyFiles = {}
    /\ Dirs \subseteq Seq(STRING)
    /\ \A d \in Dirs : \A n \in 0 .. Len(d) : SubSeq(d, 1, n) \in Dirs
    /\ DirOf \in [Paths -> Dirs] /\ NameOf \in [Paths -> Names]
    /\ Histories \subseteq [Repos -> Seq(Commit)]
    /\ \A h \in Histories : \A r \in Repos : Len(h[r]) >= 1
    /\ {"absent", "empty"} \cap Texts = {}

VARIABLES
    history,        \* the commits of each checkout, oldest first
    tree, head,     \* the commit of each file on disk, and of HEAD
    internal,       \* SourcePolicy.include_internal_index (not --public-only)
    pc, turn, repo, \* the loop over the configured repositories
    rev,            \* revision of the repository, 0 for UNKNOWN
    inventory, withheld, input,     \* the resolver
    dirs, todo,     \* directories and files os.walk has still to deliver
    docs,           \* the documents found, in the order they were read
    discovered,     \* repositories_discovered, with the commit HEAD was at
    skipped, failures, missing,     \* the other lists of the statistics
    overlapped      \* history: repositories pulled while they were read

checkout == <<history, tree, head>>
resolver == <<inventory, withheld, input>>
results == <<docs, discovered, skipped, failures, missing>>
vars == <<checkout, internal, pc, turn, repo, rev, resolver, dirs, todo, results, overlapped>>

Ages(r) == 1 .. Len(history[r])

Under(dir, d) == Len(dir) <= Len(d) /\ SubSeq(d, 1, Len(dir)) = dir

Segments(s) == {s[i] : i \in 1 .. Len(s)}

Content(c, f) == IF f \in PolicyFiles THEN c[f] ELSE c.text[f]

\* What the pass reads of the current checkout.
OnDisk(f) == Content(history[repo][tree[repo][f]], f)

Document ==
    [repo : Repos, path : Paths, revision : Nat,
     visibility : Visibilities, text : Texts]

TypeOK ==
    /\ history \in Histories
    /\ tree \in [Repos -> [Files -> Nat]]
    /\ head \in [Repos -> Nat]
    /\ \A r \in Repos : \A f \in Files : {head[r], tree[r][f]} \subseteq Ages(r)
    /\ internal \in BOOLEAN
    /\ pc \in {"next", "inventory", "manifest", "policy", "walk", "done", "failed"}
    /\ turn \in 1 .. Len(Configured) + 1
    /\ repo \in Repos \cup {None}
    /\ pc \in {"inventory", "manifest", "policy", "walk"} => repo \in Repos
    /\ rev \in Nat
    /\ dirs \subseteq Dirs
    /\ todo \subseteq Paths
    /\ docs \in Seq(Document)
    /\ discovered \in Seq([repo : Repos, commit : Nat])
    /\ skipped \in Seq([repo : Repos, path : Paths, reason : {"empty", "review-required", "internal-excluded"}])
    /\ failures \in Seq([repo : Repos, path : Paths])
    /\ missing \in Seq(Repos)
    /\ overlapped \subseteq Repos
-----------------------------------------------------------------------------
(* SourcePolicy *)

ShouldWalkDir(root, name) ==
    /\ name \notin SkipDirs
    /\ Segments(root) \cap SkipSegments = {}

ShouldSelectFile(r, p) ==
    /\ NameOf[p] # "other"
    /\ Segments(DirOf[p]) \cap SkipSegments = {}
    /\ \/ r = DocsRepo
       \/ NameOf[p] = "README.md"
       \/ DirOf[p] # <<>> /\ DirOf[p][1] = "docs"

\* Mutant: the publication manifest is not consulted.
Resolve_NoManifest(r, p, inv, held, dir) ==
    IF r # DocsRepo THEN "INTERNAL"
    ELSE IF inv[p] = "unlisted" THEN "REVIEW_REQUIRED"
    ELSE IF inv[p] # "PUBLIC" THEN inv[p]
    ELSE IF dir = Missing THEN "REVIEW_REQUIRED"
    ELSE IF ~ Under(dir, DirOf[p]) THEN "INTERNAL"
    ELSE "PUBLIC"

\* VisibilityResolver.resolve of page p of repository r.
Resolve(r, p, inv, held, dir) ==
    IF r # DocsRepo THEN "INTERNAL"
    ELSE IF inv[p] = "unlisted" THEN "REVIEW_REQUIRED"
    ELSE IF inv[p] # "PUBLIC" THEN inv[p]
    ELSE IF held = Missing \/ dir = Missing THEN "REVIEW_REQUIRED"
    ELSE IF held[p] # "kept" THEN held[p]
    ELSE IF ~ Under(dir, DirOf[p]) THEN "INTERNAL"
    ELSE "PUBLIC"
-----------------------------------------------------------------------------
Init ==
    /\ history \in Histories
    /\ head = [r \in Repos |-> 1]
    /\ tree = [r \in Repos |-> [f \in Files |-> 1]]
    /\ internal \in BOOLEAN
    /\ pc = "next" /\ turn = 1 /\ repo = None /\ rev = 0
    /\ inventory = None /\ withheld = None /\ input = None
    /\ dirs = {} /\ todo = {}
    /\ docs = <<>> /\ discovered = <<>> /\ skipped = <<>> /\ failures = <<>> /\ missing = <<>>
    /\ overlapped = {}

Pulling(r) == \E f \in Files : tree[r][f] > head[r]

\* `git pull` replaces the files that change, one by one, then moves HEAD.
Changes(r) ==
    {f \in Files : Content(history[r][head[r]], f) # Content(history[r][head[r] + 1], f)}

Touch(r) == overlapped' = IF repo = r THEN overlapped \cup {r} ELSE overlapped

PullFile(r, f) ==
    /\ head[r] < Len(history[r]) /\ f \in Changes(r) /\ tree[r][f] = head[r]
    /\ tree' = [tree EXCEPT ![r][f] = head[r] + 1]
    /\ Touch(r)
    /\ UNCHANGED <<history, head, internal, pc, turn, repo, rev, resolver, dirs, todo, results>>

PullDone(r) ==
    /\ head[r] < Len(history[r]) /\ \A f \in Changes(r) : tree[r][f] > head[r]
    /\ head' = [head EXCEPT ![r] = @ + 1]
    /\ tree' = [tree EXCEPT ![r] = [f \in Files |-> head[r] + 1]]
    /\ Touch(r)
    /\ UNCHANGED <<history, internal, pc, turn, repo, rev, resolver, dirs, todo, results>>

\* The directory of the next repository does not exist.
SkipRepo ==
    /\ pc = "next" /\ turn <= Len(Configured)
    /\ turn' = turn + 1
    /\ missing' = Append(missing, Configured[turn])
    /\ UNCHANGED <<checkout, internal, pc, repo, rev, resolver, dirs, todo, docs, discovered, skipped, failures, overlapped>>

\* Mutant: the revision is the one the remote has.
GitRevision_Fetched(r) == {Len(history[r]), 0}

\* git_revision: HEAD, or UNKNOWN when git fails.
GitRevision(r) == {head[r], 0}

EnterRepo ==
    /\ pc = "next" /\ turn <= Len(Configured)
    /\ turn' = turn + 1
    /\ repo' = Configured[turn]
    /\ discovered' = Append(discovered, [repo |-> repo', commit |-> head[repo']])
    /\ rev' \in GitRevision(repo')
    /\ overlapped' = IF Pulling(repo') THEN overlapped \cup {repo'} ELSE overlapped
    /\ pc' = "inventory"
    /\ UNCHANGED <<checkout, internal, resolver, dirs, todo, docs, skipped, failures, missing>>

\* json.loads and yaml.safe_load raise: the whole pass, and the build, end.
ParseFails ==
    /\ \/ pc = "inventory" /\ OnDisk("inventory") = Malformed
       \/ pc = "manifest" /\ OnDisk("manifest") = Malformed
       \/ pc = "policy" /\ OnDisk("policy") = Malformed
    /\ pc' = "failed"
    /\ UNCHANGED <<checkout, internal, turn, repo, rev, resolver, dirs, todo, results, overlapped>>

ReadInventory ==
    /\ pc = "inventory" /\ OnDisk("inventory") # Malformed
    /\ inventory' = OnDisk("inventory")
    /\ pc' = "manifest"
    /\ UNCHANGED <<checkout, internal, turn, repo, rev, withheld, input, dirs, todo, results, overlapped>>

ReadManifest ==
    /\ pc = "manifest" /\ OnDisk("manifest") # Malformed
    /\ withheld' = OnDisk("manifest")
    /\ pc' = "policy"
    /\ UNCHANGED <<checkout, internal, turn, repo, rev, inventory, input, dirs, todo, results, overlapped>>

ReadPolicy ==
    /\ pc = "policy" /\ OnDisk("policy") # Malformed
    /\ input' = OnDisk("policy")
    /\ dirs' = {<<>>}
    /\ pc' = "walk"
    /\ UNCHANGED <<checkout, internal, turn, repo, rev, inventory, withheld, todo, results, overlapped>>

Subdirs(d) ==
    IF Segments(d) \cap SkipSegments # {} THEN {}
    ELSE {s \in Dirs : /\ Len(s) = Len(d) + 1 /\ Under(d, s)
                       /\ ShouldWalkDir(d, s[Len(s)])}

\* iter_candidate_files: os.walk lists one directory, its files are read
\* before it goes on to the next.
ListDir(d) ==
    /\ pc = "walk" /\ todo = {} /\ d \in dirs
    /\ dirs' = (dirs \ {d}) \cup Subdirs(d)
    /\ todo' = {p \in Paths : DirOf[p] = d /\ ShouldSelectFile(repo, p) /\ OnDisk(p) # "absent"}
    /\ UNCHANGED <<checkout, internal, pc, turn, repo, rev, resolver, results, overlapped>>

\* The file cannot be read, or is gone since it was listed.
ReadFails(p) ==
    /\ pc = "walk" /\ p \in todo
    /\ failures' = Append(failures, [repo |-> repo, path |-> p])
    /\ todo' = todo \ {p}
    /\ UNCHANGED <<checkout, internal, pc, turn, repo, rev, resolver, dirs, docs, discovered, skipped, missing, overlapped>>

\* A class that is none of the three is REVIEW_REQUIRED: "fail closed".
Settled(visibility) == IF visibility \in Visibilities THEN visibility ELSE "REVIEW_REQUIRED"

\* Mutant: a document of nothing but blanks is indexed.
ReasonToSkip_Empty(p, visibility) ==
    IF visibility = "REVIEW_REQUIRED" THEN "review-required"
    ELSE IF visibility = "INTERNAL" /\ ~internal THEN "internal-excluded"
    ELSE "kept"

\* The reason to leave a document out, "kept" for none.  No build sets
\* include_review_required.
ReasonToSkip(p, visibility) ==
    IF OnDisk(p) = "empty" THEN "empty"
    ELSE IF visibility = "REVIEW_REQUIRED" THEN "review-required"
    ELSE IF visibility = "INTERNAL" /\ ~internal THEN "internal-excluded"
    ELSE "kept"

\* Mutant: an excluded document is dropped without a trace.
ReadDoc_Silent(p) ==
    /\ pc = "walk" /\ p \in todo /\ OnDisk(p) # "absent"
    /\ LET visibility == Settled(Resolve(repo, p, inventory, withheld, input))
           reason == ReasonToSkip(p, visibility)
       IN  IF reason = "kept"
           THEN /\ docs' = Append(docs, [repo |-> repo, path |-> p, revision |-> rev,
                                           visibility |-> visibility, text |-> OnDisk(p)])
                /\ UNCHANGED skipped
           ELSE UNCHANGED <<docs, skipped>>
    /\ todo' = todo \ {p}
    /\ UNCHANGED <<checkout, internal, pc, turn, repo, rev, resolver, dirs, discovered, failures, missing, overlapped>>

ReadDoc(p) ==
    /\ pc = "walk" /\ p \in todo /\ OnDisk(p) # "absent"
    /\ LET visibility == Settled(Resolve(repo, p, inventory, withheld, input))
           reason == ReasonToSkip(p, visibility)
       IN  IF reason = "kept"
           THEN /\ docs' = Append(docs, [repo |-> repo, path |-> p, revision |-> rev,
                                           visibility |-> visibility, text |-> OnDisk(p)])
                /\ UNCHANGED skipped
           ELSE /\ skipped' = Append(skipped, [repo |-> repo, path |-> p, reason |-> reason])
                /\ UNCHANGED docs
    /\ todo' = todo \ {p}
    /\ UNCHANGED <<checkout, internal, pc, turn, repo, rev, resolver, dirs, discovered, failures, missing, overlapped>>

LeaveRepo ==
    /\ pc = "walk" /\ todo = {} /\ dirs = {}
    /\ repo' = None
    /\ inventory' = None /\ withheld' = None /\ input' = None
    /\ pc' = "next"
    /\ UNCHANGED <<checkout, internal, turn, rev, dirs, todo, results, overlapped>>

Finish ==
    /\ pc = "next" /\ turn > Len(Configured)
    /\ pc' = "done"
    /\ UNCHANGED <<checkout, internal, turn, repo, rev, resolver, dirs, todo, results, overlapped>>

Scan ==
    \/ SkipRepo \/ EnterRepo
    \/ ParseFails \/ ReadInventory \/ ReadManifest \/ ReadPolicy
    \/ \E d \in Dirs : ListDir(d)
    \/ \E p \in Paths : ReadFails(p) \/ ReadDoc(p)
    \/ LeaveRepo \/ Finish

Pull == \E r \in Repos : PullDone(r) \/ \E f \in Files : PullFile(r, f)

DiscoveryNext == Scan \/ Pull

DiscoverySpec == Init /\ [][DiscoveryNext]_vars
-----------------------------------------------------------------------------
(* Properties *)

SaysPublic(c, p) == c.inventory # Malformed /\ c.inventory[p] = "PUBLIC"
NotWithheld(c, p) == c.manifest \notin {Missing, Malformed} /\ c.manifest[p] = "kept"
InPublicBuild(c, p) ==
    /\ c.policy \notin {Missing, Malformed}
    /\ Under(c.policy, DirOf[p])

\* "PUBLIC for omnibioai-docs means published on the docs site": all three
\* conditions of VisibilityResolver's docstring.
Published(r, c, p) ==
    r = DocsRepo /\ SaysPublic(c, p) /\ NotWithheld(c, p) /\ InPublicBuild(c, p)

\* A checkout that is left alone is indexed as one commit: the text, the
\* class and the revision of a document belong together, and PUBLIC is what
\* that commit publishes.
OneCommit ==
    \A d \in Range(docs) : d.repo \notin overlapped =>
        \E i \in Ages(d.repo) :
            LET c == history[d.repo][i] IN
            /\ d.revision \in {0, i}
            /\ d.text = c.text[d.path]
            /\ d.visibility = "PUBLIC" <=> Published(d.repo, c, d.path)

\* However a pull overlaps the pass, a document is PUBLIC only if the
\* inventory, the manifest and the policy each said so in the commit it is
\* recorded under or a later one; its text is no older either.
PublicSinceRevision ==
    \A d \in Range(docs) :
        LET Since == {history[d.repo][i] : i \in {j \in Ages(d.repo) : d.revision <= j}} IN
        /\ \E c \in Since : d.text = c.text[d.path]
        /\ d.visibility = "PUBLIC" =>
               /\ d.repo = DocsRepo
               /\ \E c \in Since : SaysPublic(c, d.path)
               /\ \E c \in Since : NotWithheld(c, d.path)
               /\ \E c \in Since : InPublicBuild(c, d.path)

Candidate(r, p) ==
    /\ NameOf[p] # "other"
    /\ Segments(DirOf[p]) \cap (SkipDirs \cup SkipSegments) = {}
    /\ r # DocsRepo => (NameOf[p] = "README.md" \/ (DirOf[p] # <<>> /\ DirOf[p][1] = "docs"))

Mentions(list, r, p) == Cardinality({n \in DOMAIN list : list[n].repo = r /\ list[n].path = p})

Times(r, p) == Mentions(docs, r, p) + Mentions(skipped, r, p) + Mentions(failures, r, p)

\* How often the pass came by repository r with file p in it.
Found(r, p) ==
    Cardinality({n \in DOMAIN discovered :
                     /\ discovered[n].repo = r
                     /\ history[r][discovered[n].commit].text[p] # "absent"})

\* The manifest of a build accounts for what it left out: of a checkout left
\* alone, every document the source policy selects is indexed, skipped for
\* a reason or a failure, exactly once for each time its repository is
\* configured and found, and no other file is mentioned.
EveryFileAccounted ==
    \A r \in Repos \ (overlapped \cup {repo}) : \A p \in Paths :
        Times(r, p) = IF Candidate(r, p) THEN Found(r, p) ELSE 0

=============================================================================
