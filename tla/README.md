# OmniBioAI Dev Hub: a TLA+ model

These modules model the parts of the Dev Hub whose correctness depends on the
order of things: how documents are found, classified and cut, how an index is
built from them, narrowed, promoted, rolled back and loaded; how a question
travels from the Ask page through retrieval, the language model and the checks
of its answer back to the page; and what the discovery API makes of sources
that fail or change. TLC checks them on small instances; TLAPS proves the
theorems listed below for every value of the constants.

    tlc -config serving.cfg MCIndexServing                # any run of PROJECT.json
    tlapm RetrievalProofs.tla                             # any *Proofs, SubsequenceTheorems

Every definition that stands for code is listed in `PROJECT.json` under `map`
with the lines it stands for. Operators named `X_Something` and commented
"Mutant" (or placed just before `X` with another reading of the rule) are
plausible bugs of `X`: nothing uses them, and each property is known to fail
when one of them replaces its original.

## 1. The system

An index is a directory with `index.faiss`, `metadata.pkl` and
`build_manifest.json`. It passes through these hands:

    checkouts --discover, chunk--> texts --build--> candidate
         --derive--> PUBLIC-only / published candidate
         --promote--> /app/data/faiss_index --container start--> service
         --search--> excerpts --grounded answer--> event stream --> Ask page
         --adapters--> TES, Model Registry, API catalog --> discovery API

| Part (source) | State it keeps | Operations | Talks to |
|---|---|---|---|
| Trusted ingestion (`ingestion/trusted.py`) | none; reads checked-out repositories and the docs visibility files | discover, classify (fail closed), count | the build |
| Chunker (`processing/chunker.py`) | none | cut a markdown text under its headings | ingestion |
| Candidate build (`scripts/build_trusted_index.py`, `build_index.py`) | the candidate directory of a build id, lists of vectors, metadata and failures in memory | discover, embed with a second chance, save, hash, write manifest, validate | ingestion, Ollama, the staging root |
| Derivations (`index/derive.py`, `index/published.py`) | a partial directory per build id | select PUBLIC rows, select published rows, verify, rename | the staging root, a sitemap |
| Lifecycle (`index/lifecycle.py`, `scripts/promote_index.py`) | `faiss_index`, `faiss_previous/*`, `faiss_rolled/*`, manifests | promote, roll back, validate | the data volume |
| Start (`docker-entrypoint.sh`, `scripts/verify_index.py`, `api/main.py`, `api/secret_config.py`) | the environment, the index in memory | check, verify, wait for Ollama, load, validate, init | the data volume |
| Control plane (`rag/control_plane.py`) | status BUILDING / READY / FAILED | init at startup, readiness gate | every /rag request |
| Retrieval (`rag/engine.py`, `index/filtered_search.py`, `index/vector_store.py`) | vectors and metadata | ranked search that filters and widens, scopes, reranks | every question |
| Ask API (`api/routes/rag.py`, `rag/engine.py`, `rag/answering.py`) | one request at a time | embed with retries, retrieve, generate, verify, judge, stream | Ollama, retrieval |
| Ask page (`api/client.ts`, `pages/ChatPage.tsx`) | messages, `loading`, a read buffer per stream | send, read events, callbacks | the Ask API |
| Search page (`pages/SearchPage.tsx`, `components/ToolDiscovery.tsx`) | result, error and `loading` of two modes | search, switch modes | the API |
| Discovery (`api/routes/discovery.py`, `integrations/*`) | none | route an entity to one source, translate its reply | TES, model registry, catalog file |
| Authentication (`api/auth.py`) | none | validate at startup, check one request | every route |
| Graph and plugin stores (`index/graph_store.py`, `index/plugin_index.py`) | constant seeds | traversal, status | control plane |
| Other pages, reindex job (`scripts/check_and_reindex.sh`), evaluation, CI | - | - | - |

What is hard about it:

* *Files without a lock.* Builds, derivations, promotions and container starts
  share directories by name. Each is a sequence of file operations that another
  process, a crash or an ordinary failure can come between.
* *Records written later than what they record.* Manifests follow the artifacts
  they describe, promotion records follow the swap, counts precede
  deduplication.
* *An unreliable middle.* The language model may raise, refuse, cite anything
  and name anything; embedding is retried; the fact-check may fail.
* *Inputs that change while they are read.* A docs checkout is pulled during
  the pass over it, the catalog replaced between the two reads of a request.
* *Streams in pieces.* Events arrive cut anywhere and may belong to a question
  the user has moved on from; searches overtake each other.

What makes each part correct is stated as the properties of section 3;
`PROJECT.json` lists the hazards line by line with the properties aimed at them.

## 2. The modules

| Module | What it is |
|---|---|
| `DocDiscovery` | `discover_documents`: the pass over checkouts that may be pulled meanwhile. |
| `Chunker` | `chunk_text`: its loops over sections, paragraphs and words, with what it promises. |
| `Ingest` | `DocDiscovery` and `Chunker` in a row, as the build runs them. |
| `IndexBuild` | `build_candidate`, with both embedding passes and each file it writes. |
| `IndexDerive` | The two derivations with their shared partial directories. |
| `IndexStore` | Abstract: at most one current index and a set of retained ones. An index stops being current only by being retained. |
| `IndexLifecycle` | The data volume with `promote_index.py` promote and rollback, one file operation or one group of reads per action; implements `IndexStore`. |
| `IndexServing` | `IndexLifecycle` and the container that checks its environment, verifies, waits for, loads and serves `faiss_index`. |
| `FilteredSearch` | `search_allowed`: the scan of a window, and its widening. |
| `Retrieval` | `retrieve` on top of it: who may read what, scopes, floor and reranking. |
| `AskPromise` | Abstract: what a `/rag/stream` response promises whoever reads it. |
| `AskServer` | The handler of `/rag/stream` and the grounded-answer contract; implements `AskPromise`. |
| `AskChat` | The Ask page and `ragStream` over any server that keeps `AskPromise`. |
| `SearchPage` | The Search page and the tool discovery inside it. |
| `StructuredDiscovery` | `/api/discovery`: who is let in, which source is asked, and what its reply or its failure becomes. |
| `Subsequences`, `SubsequenceTheorems` | Sequences cut down to some of their places, which is what the de-duplicating loops compute; and what that returns. |
| `*Proofs` | Theorems and proofs about the module they are named after; `IndexLifecycleProofs` is about `IndexServing` too, `IngestProofs` about `DocDiscovery` and `Chunker`, `RetrievalProofs` about `FilteredSearch`, `ApiProofs` about `AskServer` and `StructuredDiscovery`, `PagesProofs` about `AskChat` and `SearchPage`. |
| `MC*` | The constants of the runs. `MCAskServer` puts the discovery API beside the Ask API, `MCAskChat` the Search page beside the Ask page. |

### How they correspond to the code

**IndexLifecycle.** `fs` maps the paths of the volume to directories. A
directory is its content (one value for vectors, metadata, hashes and build
id, or `None` for a directory without artifacts), a manifest reduced to the
fields that steer the lifecycle, and the REJECTED marker. `job[o]` is a running command: its program counter and the
local variables that survive between two file operations. `PromoteInspect`,
`PromoteStage`, `PromoteValidate`, `Observe`, `Displace`, `SwapIn` /
`SwapFails`, `Restore` / `RestoreFails`, `ReadManifest`, `WriteManifest`,
`RereadManifest`, `RecordCheck` are the stretches of `cmd_promote`,
`promote_candidate`, `rollback` and `_swap_in` between two effects. `Fail` is an
exception that reaches `main`, `Crash` a kill. `Tick` advances the clock whose
second names retained directories, so two commands can compute one name.
`write_manifest` makes the directory it writes into (`WithManifest`): when a
second command has just moved `faiss_index` away, a manifest, or with
`WriteBreaks` nothing at all, then lies in a directory without an index. A
rename goes onto nothing or onto an empty directory (`CanRename`), so one with a
manifest stands in the way of the other command's swap and of its undo.
`RecoverByHand` is what the message of a failed undo tells the operator to do;
`Damage` changes a retained directory from outside, which is what the hash gate
of a rollback is for. `owed`, `last`, `wreck`, the field `displaced` and the
flag `commands.alone` (no command so far was issued while another ran) are
history: no guard of the code's actions reads them, but for the two bounds on
the number of commands.

**IndexServing.** A container is started in one of `Settings`, of which the
entrypoint, the reading of the proxy secret and the startup event each see a
part: the shell compares JWT_SECRET unstripped, only `validate_auth_config`
asks for audience and issuer. `ServiceVerify` is the entrypoint with
`verify_index.py --require-public-only`. It leaves the container `ready` to
load or `waiting` for Ollama, a wait that nothing bounds and that
`OllamaAnswers` may end. `ServiceLoadVectors` and `ServiceLoadMetadata` are the
two reads of `VectorStore.load`, by path; `ServiceStartup` is the startup event,
after which the control plane is READY and requests are served. A step that
refuses does not happen; what follows it is `ServiceStop` and another start.
`Maintenance` is any step of `IndexLifecycle`, at any moment of a start. The
comments of the code ask the operator to freeze restarts meanwhile; nothing
enforces it and the model does not assume it. `undisturbed` is history: whether
`faiss_index` has held the same artifacts from the verification to the end of
the load.

**DocDiscovery.** A checkout is a history of commits; `tree` says of each file
which commit is on disk and `head` which one `git rev-parse` names. `PullFile`
and `PullDone` are a `git pull`: file by file, then HEAD. The pass reads the
revision (`EnterRepo`), the inventory, the manifest and the policy, then one
directory after the other (`ListDir`) and the files in it (`ReadDoc`).
`Resolve` is `VisibilityResolver.resolve`, and `Settled` the check of its result
that fails closed. The pass goes along `Configured`, the list of repository
names, where one may come twice; what it returns are lists, as in the code, so
that a document can be in one of them twice. The contents of a document, its
class and its skip reasons are all there; its title, type, route and authority
are not. `overlapped` is history: the repositories pulled while they were read.

**Chunker.** A text is what the function cuts after its first step, which puts
a placeholder in the place of each fenced block: a sequence of characters,
spaces, newlines, heading lines of three levels, and the two ends of a
placeholder. A paragraph ends at two newlines or more; a single one is part of
it (`Breaks`). The regular expressions are represented by what they recognise,
and the rest is the code. `Enter` takes the next section with its breadcrumb;
`TakeWhole`, `TakeWords` and `TakeParagraphs` are the three ways on from there.
`SkipBlank`, `CutParagraph`, `StartPiece` and `JoinParagraph` are the branches
of the loop of `_split_at_paragraphs` (`tail` is what it still has to read,
`joined` and `size` are `current_parts` and `current_len`), `CutWords` and
`LastWords` those of `_split_at_word_boundary` (`rest`). Lengths count a fence
as it will be restored. A heading stands for its place in the text, so a crumb
is a sequence of places. `Ingest` lets each text of a document stand for any of
a set.

**IndexBuild.** A chunk stands for its text, id and vector; a file is a
sequence of chunks, so index and metadata can disagree. `SkipRepository` and
`ReadRepository` are the loop of the discovery, one repository at a time in the
order they are configured; what it counts goes to the manifest, and `Deduped`
(each chunk id at its first place) to the embedding. `EmbedPass` and
`SecondChance` produce the lists of `embed_metadata`; `MakeDir`, `SaveIndex`,
`SaveMeta`, `Hash`, `WriteManifest`, `Validate` are the order of
`build_candidate`. `Die` stops a build anywhere, `DieWriting` in the middle of
an artifact. `contended` is history: under which ids builds ran at once.

**IndexDerive.** An artifact is the set of the documents whose rows it holds
(both derivations keep the order of their source). `tmp[kind]` is the
directory `.{build_id}.partial`, which all runs of one build id share.
`Promote` renames a finished candidate away or copies it, as
`promote_index.py` does. A manifest has the hashes and the counts that
`validate_index_directory` compares with the rows (`CountsOf`).

**FilteredSearch.** A flat index ranks all rows by one score, so the k nearest
are the first k of one ranking, and what the filters read of a row is its kind.
`Skip` and `Take` are the two ways through the loop body, `GiveUp` and `Widen`
the two ways to continue after a window.

**Retrieval.** A row has a visibility, a repository, a bundle and a side of the
floor. `AcceptsAny` is the `accept` of `retrieve`, `AcceptsScoped` the one of
`filter_search`, which takes over when there is a scope. A scoped request starts with a window of three times what it
wants. The cross-encoder of `rerank` may put what was fetched in any order.

**AskServer.** `job[q]` follows one request through `retrieve`,
`answer_from_docs` and `generate_grounded_answer`. The model's text is what the
checks read of it: whether it is the refusal sentence, the numbers it cites, the
names and plain numbers it `says`, and which of the names it spells like names
(`named`): "S3", or a capital inside a sentence, but not "aws". A question has
the same two sets. `UnsupportedTerms` is the pre-check of the question, which
looks for what is spelled like a name and for nothing else; `InventedTerms` are
the three checks of an answer: names against everything in the excerpts, numbers
against their texts and titles, the terms of the prompt's own examples against
their texts, each of them also against whatever the question says. `Texts` and
`Verdicts` are the environment. `Break` is an exception of what the generator
does outside its guarded calls, after the status event: it becomes an error
event. DEVHUB_ENTAILMENT_CHECK is read for every request and is chosen with it.

**AskChat.** An event is two half-events. A read returns at least one half; the
client acts on an event when its second half is there. One that completes
several events is as many pieces, since the loop over them gives nobody else a
turn that could tell. `OnDone`, `OnError`,
`OnResult` are the callbacks of `ChatPage.send`, which write to the *last*
message. `early` is history: whether a question was ever asked before an
earlier stream had closed.

**SearchPage.** Both modes have one request pattern: `Begin` clears what is
shown, `Arrives` and `Rejects` are the two ends of the fetch. They differ in
what they keep and in being unmounted. `hasty` is history: the modes in which
a search was made while another one was running.

**StructuredDiscovery.** A request goes through `Arrive` (`require_auth`), its
routing, and the calls of its adapter; every call reads the catalog file anew,
and `ReplaceCatalog` may come between two. A service answers with one of
`Replies`. Items are what a record or an edge shows of its identity and class.

## 3. The runs

No run reduces what the code can do except by the bounds named here.

| Run | Question | Bounds |
|---|---|---|
| `ingest` | Does a checkout that is left alone become one commit's documents, each as often as it is configured, and is nothing PUBLIC that was not, whatever is pulled meanwhile? Do the chunks keep the text, and the budget? | the docs checkout and a tool's, which is configured twice; four files; one pull of either, between two commits of which at most two of four facts differ from a published page; every text of up to five tokens (a character, a word of four, a space, a blank line, a fence), or up to four with single newlines, under no heading or one; up to four tokens under two or three nested headings; and any five headings and characters; MAX_CHARS 8 |
| `ingest_crumbs` (violation) | Is a chunk always prefixed with its ancestor headings? | as above |
| `build` | Is a candidate that validates complete, aligned and final? | one build id, 3 builds by 2 processes, 2 repositories, 3 chunks |
| `build_twice` (violation) | Is a complete build accepted when a repository is configured twice? | one process |
| `derive_restarts` | Is a derived candidate whole, verified and complete through deaths and reruns? | one process, 6 derivations, 5 documents, 2 sitemaps |
| `derive_sitemaps` (violation) | Is it still verified when two derivations run at once? | 2 processes, 3 derivations |
| `serving` | Is any index lost and is the offered rollback the undo, when commands crash, fail and fail to undo, alone or two at once? Does the service ever run misconfigured, or on a torn, missing or non-PUBLIC index, and does it come up? | 3 commands one after another, or 2 that overlap; 2 seconds, 5 contents (a legacy index, two good candidates, a mixed and a damaged one), 6 environments; maintenance at any moment of a start |
| `lifecycle_repromote` (violation) | Is a promotion that was cut short always labelled CANDIDATE? | 4 commands one after another, and a promotion may be pointed at a retained directory |
| `search` | Is the widening search the filter of the whole ranking, does it end, and is what `retrieve` returns readable, in scope and the best? | every ranking of at most 5 rows of every kind, at most 2 results wanted; every index of at most 3 rows and 32 requests |
| `ask` | Is what is sent as grounded checked and cited right, and does every request end? Do the discovery routes keep failures and classes apart? | one question, 2 excerpts, one name, two numbers of which one is a term of the prompt's examples, up to three rows, the last of them no repetition; one discovery request of every kind, 2 services with a route each, one replacement of the catalog |
| `chat` | Do the pages show only verified answers, in their place, only the last search, and never hang? | 2 questions, 1 excerpt; 3 searches |
| `chat_pending` (violation) | Does a pending question always show as searching? | 2 questions |

Why the bounds are enough. In `ingest` one pull is enough for every mixture of
two commits, and two faults for each pair of conditions of the resolver to
disagree; the tool's checkout is passed a second time, also when the pull comes
between the two visits. Five tokens exceed the budget under one heading or none, and
four that under two or three: a word, a fence and a blank line fall on either
side of a cut. In `build` the third build can
retry or race with what two earlier ones left, and three chunks let the second
chance reorder one past two others. In `derive_restarts` six derivations run
each kind, die, run again, and are promoted in between; one document has no
route and one is INTERNAL. In `serving` three commands allow promote,
promote, rollback with a crash in any of them; two that overlap are enough for
each to move what the other is about to read, write or move. Three that
overlap are beyond what TLC explores in minutes; that they lose nothing either
is proved (section 4). Two seconds make a
repeated and a fresh directory name, and the environments hold each way one of
the three checks can refuse what the others accept; missing claims, refused
where a blank JWT_SECRET is, are left to the proof of `ServesVerified`. No content is published
(`Published = {}`), so every promotion of the run skips the published check,
whose outcome the lifecycle only records. `FirstFree`, an action
constraint, is the symmetry of the two operators, who are alike: a command that
is issued alone is called `o1`. In `search` five rows need a window
of 1, 4 and the cap. In `ask` requests share nothing in the code, so one is
enough; three rows of two excerpts force a duplicate (one at the end is left
out: without it the prompt is the same), and a name occurs in one
excerpt, in the other, or in neither; two services tell their own routes from
the other's. In `chat` two questions suffice for callbacks of one to meet the
message of the other, and three searches for a reply to come late, in order and
after a change of modes.

What they show, besides types:

* `OneCommit`, `PublicSinceRevision`, `EveryFileAccounted`: without a pull, a
  document is text, class and revision of one commit, PUBLIC exactly if that
  commit publishes it, and every selected file is in exactly one of three lists,
  once for each time its repository is configured: a repository that is
  configured twice is read twice. With a pull, the three conditions of PUBLIC may be met in different commits, but
  none older than the recorded revision.
* `ChunksKeepTheText`, `ChunksFit`, `CrumbsOfWellNested`: no text or heading is
  lost, doubled or moved; a fence is cut only where a whole budget has no place
  to cut; a chunk is too long only for its own headings or a fence in one
  paragraph; breadcrumbs are right in documents that skip no level.
* `EmbeddingAccounted`, `PromotableIsComplete`, `RowsAligned`,
  `ValidatedIsFrozen`: nothing that failed to embed is forgotten, row n of the
  vectors belongs to row n of the metadata, a validated candidate is not
  written to again.
* `VerifiedBeforeUse`, `DerivedIsWhole`, `NothingPublishedIsLost`: what stands
  at the name of a derived candidate, or was promoted from it, passed its
  verification as a whole and misses no published document.
* `NoIndexLost`, `ImplementsStore`: no crash, failure, collision of names or
  second command destroys an index that was current, not even with a directory
  that a manifest write has put in the place of `faiss_index`.
  `MissingCurrentIsRecoverable`: as long as commands had the volume to
  themselves, the directories named in the recovery message exist.
* `OfferedRollbackIsUndo`, `PromotedIsStartable`, of such commands too: chains of
  promotions and rollbacks undo in the right order although each directory keeps
  its own record; what a promotion accepts, the entrypoint accepts. With two
  commands at once neither holds: the manifest of one lands beside the artifacts
  of the other.
* `ServesVerified`: a misconfigured deployment serves no request; and what is
  loaded is what was verified, whatever commands validate, stage, rewrite, fail
  or crash in between, unless the artifacts of `faiss_index` were exchanged in
  that window. Without this exception (`undisturbed`) TLC finds a start that
  comes up without the index it verified, which a command moved away during the
  wait for Ollama. `ServiceComesUp`: nothing but a refused environment, a running
  command, an index that does not verify or Ollama keeps the service down.
* `ExactResult`, `NoOverreach`, `Terminates`: excluded rows never starve a
  question, and the widening stops as soon as it can. `AnswersWithinScope`,
  `AnswersAreBest`: neither widening nor reranking brings in a row that the
  caller may not read or did not ask for, or drops a better one.
* `GroundedIsSupported`, `CitationIsWhatWasRead`, `KeepsPromise`,
  `EveryAskEnds`: whatever the model says, every specific of a grounded answer
  is in the excerpts or was in the question (there, not spelled like a name),
  the answer passed the fact-check if it is on, its markers name the excerpts of the prompt, and the stream has the
  promised shape and an end.
* `EdgesAreRestrictive`, `FailuresAreFailures`: an edge shows a class only if
  both its ends had it when they were read, and no failure of a source becomes
  a success.
* `ShownIsVerified`, `NoAbandonedSpinner`, `PagesSettle` hold for every user.
  `ShownIsVerified` says that what is shown is a verified response the server
  sent; that it is the one to the question above it is `PatientIsInStep`, for a
  user whose questions wait for the stream before (`~early`). `AnswerStays`: an
  answer with a question under it never changes; the last answer of a patient
  user changes only into the error of its own connection, if that fails between
  the answer and the close, and it then does. `ShowsTheLastSearch` and
  `OneOutcome` are for searches that wait for the reply before (`hasty`).

Deadlock is not checked: commands, builds, passes, requests and users may all be
finished, which is where the system rests.

### Fairness

* `ServiceFairness`: the restart policy repeats a failed start (weak fairness
  of `ServiceVerify`), and not every start is killed in the middle (strong
  fairness of the two loads and of the startup event). Nothing is assumed of
  Ollama: `docker-entrypoint.sh:58` waits for it without bound, `OllamaAnswers`
  has no fairness, and `ServiceComesUp` exempts a service that waits.
* `AskServer!Fairness`: every call the handler makes has a timeout (60 s to
  embed, 300 s to generate), so a request that is being served takes its next
  step.
* `AskChat!Fairness`: the server serves, as just stated, and a read that has
  something to return returns. Nothing is assumed of the connection: `Cut` may
  happen at any time and is never forced.
* `SearchFairness`: a fetch resolves or rejects.
* `FilteredSearch`: the loop of a function runs.

Builds, passes, derivations and lifecycle commands have no fairness: an operator
may kill any of them and never come back. Nothing is claimed of the end of a
discovery request, which waits for nobody but its sources.

### Disagreements between the code and what is said of it

* `lifecycle_repromote`: `index/lifecycle.py:183` says a crash after the swap
  leaves the directory labelled CANDIDATE. If the source is a copy of a
  retained index, it is labelled PROMOTED, with the record of its earlier
  promotion, which `rollback` would follow.
* `build_twice`: `build_manifest` counts before `embed_metadata` deduplicates.
  A repository that is configured twice makes a complete build fail its own
  validation, after the whole embedding.
* `derive_sitemaps`: two derivations with one build id share the partial
  directory, so what one renames into place may be what the other wrote after
  the verification. Hashes do not tell, nor do counts if both sitemaps keep as
  many rows.
* `chat_pending`: `loading` is cleared by the response, not by the end of the
  stream. A question asked in between loses its searching state to the late
  callbacks of the stream before.
* `ingest_crumbs`: `processing/chunker.py:111` says each chunk is prefixed with
  its ancestor header chain. The stack is cut to its first *level - 1* entries,
  which are the ancestors only if no level was skipped: after `# T` and `### A`,
  the heading `### B` gets the prefix `# T > ### A > ### B`.

Seen while modelling and not turned into a run:

* *Lifecycle.* Racing commands can write one index's manifest beside another's
  artifacts (nothing locks the volume; `verify_index` then refuses it by its
  hashes). A promotion that crashed between the renames and is simply repeated
  records `previous_index: null`.
* *Builds.* `build_trusted_index.py:7` says an interrupted build leaves no
  partial candidate, but artifacts without a manifest remain and their build id
  is refused afterwards. Racing builds under one id can pair the vectors of one
  with the metadata of the other.
* *Ingestion.* `ingestion/trusted.py:241` says a missing manifest or policy makes
  every docs file REVIEW_REQUIRED; one that the inventory calls INTERNAL stays
  INTERNAL. `README.md:423` says shared boilerplate is deduplicated within a
  repository, but only repeated chunk ids are. The hard cut of a run without
  spaces can fall inside the placeholder of a fence, which is then not restored.
* *Retrieval.* When a request names a bundle and a repository, the bundle alone
  is the scope. Reranking is asked for by `scripts/run_eval.py` only.
* *Ask.* `rag/answering.py:15-18` says a grounded answer states no name or
  number that appears in none of the supplied excerpts; `:243` also takes what
  the question says, so a number or a lower-case name of the question that no
  excerpt has may come back as grounded. `README.md:644-690` and `:806` describe token streaming, but
  `/rag/stream` sends one verified response.
* *Discovery.* A 503 of the Model Registry reaches the caller as 502, a 503 of
  TES as 503. Nested fields of a TES reply and catalog metadata that are not
  what they should be escape as 500 (as 503 in the relationships of a service).
  The edges of one reply can join two versions of the catalog.
  `ModelDiscoveryClient.get_model` does not send its `model_name`. The comment
  at `api/auth.py:112-115` says nginx marks the built UI's requests, but
  `docker-entrypoint.sh:67` does so under `/rag/` only: with AUTH_ENABLED the
  UI's own calls of `/api/discovery` are answered 401.
* *Search page.* After searches that overtake each other the outcome of an older
  one may stay on the screen.

## 4. What is proved

TLAPS checks every theorem for all values of the constants that satisfy the
named ASSUMEs, which TLC evaluates in the runs. Most of these are natural
bounds, the kinds of the constants, and that `None`, `Null` or `Nothing` is none
of the values it stands beside. Three say more, and say it of what a model
starts from: `VolumeAssumption` (every initial directory has
artifacts, the current index is one without a manifest, one that was rolled back
to or one that starts, and no record names a directory that is yet to be
retained), `BuiltAssumption` (a mixed
candidate that validates is what `IndexBuildProofs` proves it to be: aligned,
not empty, without a sitemap) and `ContextAssumption` (retrieval returns no more
than it may). `DiscoveryAssumption` has the directories of a checkout closed
under "parent of".

Each module proves that one invariant is inductive; the properties follow. Some
theorems have a hypothesis on how the system is run, which is the one its run
has, and without which another run or a racing command violates them.

* **IndexLifecycleProofs**: any contents, paths, number of operators and of
  commands that overlap in any way, and any damage. `TypeCorrect`; `Conservation`
  (`NoIndexLost`); `Refinement` (`Spec => ImplementsStore`). They cover the
  directory that `write_manifest` makes where a racing command has just moved
  one away: it has no content, so it is no index to lose, and it blocks the
  renames that come to its name unless it is empty. `TypeOK` alone is not
  inductive: a command that resumes must find in its registers what its next
  step uses. `IInv` adds `JobOK`: from "stage" on a source and a target under
  `faiss_candidates`, at "displace" and "restore" a retained path, before a
  manifest is written a manifest. The rest is one lemma, `StepShape`, on what
  the artifacts on the volume look like after any step: as they were (a
  manifest rewritten, an empty directory made), a candidate written, one
  directory moved to a name that holds no artifacts, or damage to a retained
  directory. No step overwrites artifacts, and each shape is a step of
  `IndexStore` or leaves it alone.

  With one command at a time (`OneCommand`, which gives the `commands.alone` that
  the three properties ask for): `Recoverable`
  (`MissingCurrentIsRecoverable`) and `PromotedStarts` (`PromotedIsStartable`),
  through crashes, failed undos and recoveries by hand; and, if no retained
  directory is promoted again (`~Repromote`, see `lifecycle_repromote`),
  `RollbackUndoes` (`OfferedRollbackIsUndo`). `MInv` says where the index that
  was current is while there is none, `VerifiedInv` what a manifest says of the
  content beside it, `RecordInv` that the records along a chain of promotions
  name the directories in the order they were displaced. `ServesOnlyVerified`
  (`ServesVerified`) is of any number of commands again, at any moment of a
  start: `ServingInv` follows a container from its environment to the index it
  holds, as long as it is `undisturbed`.
* **IngestProofs**, of the discovery: any repositories, files, histories and pulls.
  `DiscoveryTypeCorrect`, `IndexedAsOneCommit`, `PublicIsSinceRevision`. `IInv`
  adds what is known in the middle of a repository: files are not behind HEAD
  and HEAD is not behind the recorded revision (`Ordered`), the resolver holds
  what some commit since then says (`Since`), and while nobody pulls that
  commit is HEAD (`Quiet`). `EachFileOnce` (`EveryFileAccounted`) counts the
  entries of a path in the three lists, once for each time its repository is
  configured: those written plus the one the walk owes (`Owed`). Of the walk it
  says (`Walked`) that each directory still to be listed is named once, none is
  below another that is listed later, and every directory of the checkout is
  listed, pruned or under one that is to be listed (`AInv`).
* **IngestProofs**, of the chunker: any text, single newlines inside paragraphs
  included, whose fences are whole (`ContentsAssumption`, which is what the
  placeholders are put in for), any positive limits and lengths
  (`LengthAssumption`). `ChunksStayShort`
  (`ChunksFit`): `Pieces` says that what is joined so far has the length the
  loop counted and is within the budget, and that a piece cut at words is part
  of one paragraph if the crumb leaves a budget. `CrumbsAreChains`
  (`CrumbsOfWellNested`): `StackInv` has the stack as headings in order, the
  last of them the latest, which in a well-nested text is the whole ancestry.
  `NothingIsLost` (`ChunksKeepTheText`) rests on `KeepInv`: the ink of the
  chunks, of what is joined, of the words and of the tail, in this order, is
  that of the sections so far (`TextKept`); every heading so far heads a chunk,
  or is that of the section, of which something with ink is pending
  (`HeadsCovered`); the tail and the words are parts of their section
  (`WholeInv`), so that a blank the section is known to have is one the loop
  finds. `Concat` is a recursive function over the chunks: that it exists and
  grows with them is proved by the least length at which it would not
  (`MinFacts`), which needs no induction theorem.
* **IndexBuildProofs**: any repositories, chunks and builds, whatever fails or
  dies. `CandidatesAreAligned` (`RowsAligned`), `ValidatedStaysFrozen`. The
  properties speak of a candidate that validates; `Stage` says how far the
  directory of an uncontended build id is at each step of its only build, up to
  the second manifest, which says what the first one did. `ChunksAccounted`
  (`EmbeddingAccounted`) and `CandidatesAreComplete` (`PromotableIsComplete`)
  also hold of builds that raced, as long as all were configured alike: a file
  written by any of them is without repetitions and has only wanted chunks, and
  such a file with as many chunks as the manifest counts is all of them.
  `BuildTypeCorrect` is the type invariant. `AloneAndAccepted` says when
  `CompleteBuildIsAccepted`, which the run `build_twice` refutes, does hold: if no
  chunk was discovered twice and no other build has the id. It needs that an
  absent or torn file is no list of chunks (`AbsentAssumption`).
* **IndexDeriveProofs**: any documents, routes, sitemaps and number of runs, one
  at a time (`OneDeriver`; `derive_sitemaps` shows what two do).
  `DeriveTypeCorrect`, `VerifiedIsUsed`, `NothingHalfDerived`,
  `PublishedIsKept`. `JobsInStep` says what is in the partial directory at each
  step of the only run, `DirsWhole` what is at the final names: what a run that
  dies leaves in the partial directory is never what a later one verifies.
* **RetrievalProofs**: every ranking, want, first window and floor; every index
  and request. `SearchTypeCorrect`, `SearchIsExact`, `SearchIsBounded`: the
  invariant says what the scan of a window knows, that `found` is the qualifying
  ranks before `row`, in order, and fewer than wanted. Both exits then give the
  result. `RetrievalIsFiltered`, `RetrievalIsBest`: `CallInv` ties the kinds the
  search saw to the rows and the request, and `AnswerInv` says that an answer
  has some of the ranks found, each once, and all of them without a
  cross-encoder.
* **ApiProofs**, of the Ask API: any number of requests, excerpts and attempts,
  whatever the model and the judge say. `AnswersAreSupported`
  (`GroundedIsSupported`), `CitationsAreRead` (`CitationIsWhatWasRead`),
  `ModelIsCalledForCause`. The properties speak of what was sent; `Told` says
  the same of a result before it is sent, `JobInv` what has been checked by the
  time a request is at each step. `PromiseKept` is the refinement
  `Spec => KeepsPromise`: each step of the handler is a step of `AskPromise` or
  a stutter. It needs that a prompt has each excerpt once and at most
  `MaxContext` of them, which is where `DistinctFacts` comes in.
* **ApiProofs**, of the discovery API: any catalogs, callers and replies.
  `RequestTypeCorrect`, `EdgesStayRestrictive`, `FailuresStayFailures`,
  `RegistryStaysAuthority`. The properties speak of answered requests; `Steps`
  says that nothing is attached to one on its way, and that one between its two
  reads of the catalog remembers the first.
* **PagesProofs**: any number of searches and questions, any server that keeps
  its promise, any connection. `LastSearchIsShown`, `OneOutcomeIsShown`:
  a mode whose last search overtook no other waits for that search at most, and
  shows nothing while it waits (`Settled`). `ChatTypes`, `ShowsOnlyVerified`
  (`ShownIsVerified`), `SpinnerIsLoading` (`NoAbandonedSpinner`),
  `PatientInStep` (`PatientIsInStep`), `AnswersStay` (`AnswerStays`): callbacks
  write to the last message whosever they are, so `ChatInv` has to know that no
  two messages are of one question and that, unless a question came early, the
  last message is the one being read (`LastIsRead`).
* **SubsequenceTheorems**: a sequence at a set of places has as many elements as
  there are places, and exactly those; `Distinct` has each element of its
  argument, once. `Rank` counts the places, so that no proof needs an induction
  along a sequence.

Only model-checked: liveness (`ServiceComesUp`, `EveryAskEnds`, `PagesSettle`,
`Terminates`), which the prover cannot treat. Every other property of a passing
run is stated by a theorem.

## 5. What is not modelled

* *Ingestion.* The descriptive fields of a document (title, type, authority,
  route). Regular expressions of the chunker are represented by what they recognise; a
  fence that is never closed is not among it. What git does to
  one file (unlink, then create) is one step of `PullFile`.
* *Builds and lifecycle.* Batching, cooldowns and telemetry of the embedding;
  `failed_build_preserves_current`, which only tests call; the UID check of the
  entrypoint and the nginx configuration.
* *Retrieval and answers.* The arithmetic of scores, of the floor and of the
  cross-encoder; prompts; the regular expressions that find names, numbers and
  citations: the model of the checks starts from what they find. `/rag/query`
  runs the same functions and differs in its envelope.
* *Pages.* Token events, which the server does not send; rendering; the facets
  and the status line of the Search page; the other pages, each of which
  renders what one fetch returned.
* *Discovery.* Filters of a listing, the facets of TES, the whitelist of model
  fields, configuration from the environment.
* *Control plane and authentication.* The startup event is one action of
  `IndexServing`, the gate on requests a choice of `AskServer`; decoding a token
  is external. `/health` and `/status` only read.
* *Graph and plugin stores.* Filled once with constants and read by `/status`.
* *The reindex job.* It records a release and restarts the service after a build
  that only writes a candidate, and two runs share one state file. The script
  states no claim about either; the build, promotion and restart are modelled.
* *Evaluation, calibration, release checks.* Outside the system.
* `rag/query_router.py`, `tool_executor.py`, `memory_store.py`,
  `retrieval/retriever.py`, `embeddings/embedder.py`, `ingestion/doc_loader.py`,
  `api/middleware/trace.py`: only tests reach them.

## 6. Plan

What is left: `ReindexJob` as a client of `IndexBuild` and `IndexLifecycle`, and
the traversal of the graph store as a function.
