----------------------------- MODULE AskServer ------------------------------
(***************************************************************************)
(* The handler of POST /rag/stream: api/routes/rag.py `stream`, the        *)
(* retrieval and the model calls of rag/engine.py, and the grounded-answer *)
(* contract of rag/answering.py (`generate_grounded_answer`), which        *)
(* /rag/query runs as well.                                                *)
(*                                                                         *)
(* One request is a job that moves from step to step: embed the question   *)
(* (three attempts), rank the excerpts, pre-check, generate, verify,       *)
(* judge, respond.  The language model is the environment: it may raise,   *)
(* refuse, cite anything and name anything, and the judge may say          *)
(* anything.  Text is abstracted to what the checks read of it: the        *)
(* excerpt numbers it cites, the names and numbers it says, and which of   *)
(* the names it spells like a name ("AWS", "S3", capitalised within a      *)
(* sentence) and not like a word ("aws").                                  *)
(***************************************************************************)
EXTENDS SequencesExt, Subsequences

CONSTANTS
    Questions, Chunks, MaxContext,  \* as in AskPromise
    Names, Numbers, \* names and plain numbers a text can say
    ExampleOnly,    \* EXAMPLE_ONLY_TERMS, of both kinds
    Excerpt,        \* what the parts of each excerpt say
    MaxDocs,        \* bound: most rows one retrieval returns
    Attempts,       \* ollama_embed: attempts = 3
    Null

ASSUME MaxContextAssumption == MaxContext \in Nat
ASSUME ExcerptAssumption ==
    Excerpt \in [Chunks -> [{"text", "title", "path"} -> SUBSET (Names \cup Numbers)]]
ASSUME AttemptsAssumption == Attempts \in Nat \ {0}

VARIABLES stream, job

vars == <<stream, job>>

Promise == INSTANCE AskPromise

\* What a passage says, and what of that it spells like a name.
Said == {w \in [says : SUBSET (Names \cup Numbers), named : SUBSET Names] :
            w.named \subseteq w.says}

\* What verify_answer and the term checks read of the model's text.
Refusal == [refuses |-> TRUE, cites |-> {}, said |-> [says |-> {}, named |-> {}]]
Texts == {Refusal} \cup
         [refuses : {FALSE}, cites : SUBSET (0 .. MaxContext + 1), said : Said]

\* JUDGE_SUPPORTED, any other reply, or an exception of the call.
Verdicts == {"SUPPORTED", "other", "raises"}

Idle == [pc |-> "idle", attempt |-> 0, asked |-> Null, docs |-> <<>>,
         judging |-> FALSE, prompt |-> <<>>, text |-> Null, judged |-> FALSE,
         result |-> Null]
-----------------------------------------------------------------------------
(* Helpers of rag/answering.py *)

\* dedupe_chunks: keeps the first of each chunk_id, in order.
Dedupe(docs) == Distinct(docs)

\* No retrieval brings more excerpts than MaxContext.
ASSUME ContextAssumption ==
    /\ MaxDocs \in Nat
    /\ \A docs \in BoundedSeq(Chunks, MaxDocs) : Len(Dedupe(docs)) <= MaxContext

\* The haystacks: all of the excerpts, for names; without the paths, for
\* numbers; the texts alone, for the terms of the prompt's examples.
Mentioned(chunks) ==
    UNION {Excerpt[c].text \cup Excerpt[c].title \cup Excerpt[c].path : c \in ToSet(chunks)}
Stated(chunks) == UNION {Excerpt[c].text \cup Excerpt[c].title : c \in ToSet(chunks)}
Texted(chunks) == UNION {Excerpt[c].text : c \in ToSet(chunks)}

\* unsupported_terms: what is spelled like a name and found nowhere.  Numbers
\* and names spelled like words are not looked for.
UnsupportedTerms(said, found) == said.named \ found

\* unsupported_answer_terms and the example-only terms: whatever the question
\* says, in any spelling, counts as found.
InventedTerms(text, chunks, asked) ==
    UnsupportedTerms(text.said, Mentioned(chunks) \cup asked.says)
        \cup ((text.said.says \cap Numbers) \ (Stated(chunks) \cup asked.says))
        \cup ((text.said.says \cap ExampleOnly) \ (Texted(chunks) \cup asked.says))

\* Mutant: a text without citations gets through.
VerifyAnswer_Uncited(text, n) ==
    /\ ~text.refuses
    /\ text.cites \subseteq 1 .. n

\* verify_answer: only a text that answers, cites, and cites what it was
\* given gets through.
VerifyAnswer(text, n) ==
    /\ ~text.refuses
    /\ text.cites # {}
    /\ text.cites \subseteq 1 .. n

BuildCitations(chunks, cites) == {[index |-> n, chunk |-> chunks[n]] : n \in cites}

NoAnswer(q, context, invoked) ==
    [about |-> q, grounded |-> FALSE, citations |-> {},
     context_used |-> context, llm_invoked |-> invoked]

\* Mutant: the rows retrieved instead of the excerpts numbered in the prompt.
Grounded_FromRows(q, chunks, text) ==
    [about |-> q, grounded |-> TRUE,
     citations |-> BuildCitations(job[q].docs, text.cites),
     context_used |-> Len(chunks), llm_invoked |-> TRUE]

Grounded(q, chunks, text) ==
    [about |-> q, grounded |-> TRUE, citations |-> BuildCitations(chunks, text.cites),
     context_used |-> Len(chunks), llm_invoked |-> TRUE]
-----------------------------------------------------------------------------
At(q, pc) == job[q].pc = pc

Goto(q, pc) == job' = [job EXCEPT ![q].pc = pc]

Conclude(q, result) ==
    /\ job' = [job EXCEPT ![q].pc = "respond", ![q].result = result]
    /\ UNCHANGED stream

\* The generator's `except`: the error event ends the stream.
Raise(q) ==
    /\ Promise!SendLast(q, Promise!Failure)
    /\ Goto(q, "over")

Init ==
    /\ Promise!Init
    /\ job = [q \in Questions |-> Idle]

Receive(q) ==
    /\ Promise!Ask(q)
    /\ \E asked \in Said :
        job' = [job EXCEPT ![q].pc = "guard", ![q].asked = asked]

\* require_auth, guard_requests and QueryRequest answer before the handler.
Reject(q) ==
    /\ At(q, "guard")
    /\ Promise!Refuse(q)
    /\ Goto(q, "over")

GetEngine(q) ==
    /\ At(q, "guard")
    /\ \/ /\ job' = [job EXCEPT ![q].pc = "embed", ![q].attempt = 1]
          /\ UNCHANGED stream
       \/ Raise(q)          \* the control plane stopped being READY

\* A RequestException is retried; anything else (bad JSON, bad dimension)
\* and the last attempt's exception leave ollama_embed.
EmbedFails(q) ==
    /\ At(q, "embed")
    /\ \/ /\ job[q].attempt < Attempts
          /\ job' = [job EXCEPT ![q].attempt = @ + 1]
          /\ UNCHANGED stream
       \/ Raise(q)

\* The rows of the index, and DEVHUB_ENTAILMENT_CHECK, which is read for
\* every request before its answer is checked.
Retrieve(q) ==
    /\ At(q, "embed")
    /\ \E docs \in BoundedSeq(Chunks, MaxDocs), judging \in BOOLEAN :
        job' = [job EXCEPT ![q].pc = "check", ![q].attempt = 0,
                           ![q].docs = docs, ![q].judging = judging]
    /\ Promise!Send(q, Promise!Status)

PreCheck(q) ==
    /\ At(q, "check")
    /\ LET chunks == Dedupe(job[q].docs) IN
        \/ /\ chunks = <<>>
           /\ Conclude(q, NoAnswer(q, 0, FALSE))            \* NO_TRUSTED_CONTEXT
        \/ /\ chunks # <<>>
           /\ UnsupportedTerms(job[q].asked, Mentioned(chunks)) # {}
           /\ Conclude(q, NoAnswer(q, Len(chunks), FALSE))  \* UNSUPPORTED_TERM
        \/ /\ chunks # <<>>
           /\ UnsupportedTerms(job[q].asked, Mentioned(chunks)) = {}
           /\ job' = [job EXCEPT ![q].pc = "generate", ![q].prompt = chunks]
           /\ UNCHANGED stream

Generate(q) ==
    /\ At(q, "generate")
    /\ \/ \E text \in Texts :
            /\ job' = [job EXCEPT ![q].pc = "verify", ![q].text = text]
            /\ UNCHANGED stream
       \/ Conclude(q, NoAnswer(q, Len(job[q].prompt), TRUE)) \* LLM_UNAVAILABLE

Verify(q) ==
    /\ At(q, "verify")
    /\ LET chunks == Dedupe(job[q].docs)
           text == job[q].text
           shown == /\ VerifyAnswer(text, Len(chunks))
                    /\ InventedTerms(text, chunks, job[q].asked) = {}
       IN
        \/ /\ ~shown
           /\ Conclude(q, NoAnswer(q, Len(chunks), TRUE))
        \/ /\ shown /\ job[q].judging
           /\ Goto(q, "judge")
           /\ UNCHANGED stream
        \/ /\ shown /\ ~job[q].judging
           /\ Conclude(q, Grounded(q, chunks, text))

\* Mutant: a fact-check that failed counts as passed.
Judge_FailOpen(q) ==
    /\ At(q, "judge")
    /\ LET chunks == Dedupe(job[q].docs) IN
        \E verdict \in Verdicts :
            /\ job' = [job EXCEPT
                    ![q].pc = "respond",
                    ![q].judged = verdict = "SUPPORTED",
                    ![q].result = IF verdict # "other"
                                  THEN Grounded(q, chunks, job[q].text)
                                  ELSE NoAnswer(q, Len(chunks), TRUE)]
            /\ UNCHANGED stream

\* Fails closed: a reply that is not the bare word, or an exception of the
\* call, gives no answer.
Judge(q) ==
    /\ At(q, "judge")
    /\ LET chunks == Dedupe(job[q].docs) IN
        \E verdict \in Verdicts :
            /\ job' = [job EXCEPT
                    ![q].pc = "respond",
                    ![q].judged = verdict = "SUPPORTED",
                    ![q].result = IF verdict = "SUPPORTED"
                                  THEN Grounded(q, chunks, job[q].text)
                                  ELSE NoAnswer(q, Len(chunks), TRUE)]
            /\ UNCHANGED stream

\* Mutant: the generator returns without the done event.
Respond_NoDone(q) ==
    /\ At(q, "respond")
    /\ Promise!Send(q, Promise!Response(job[q].result))
    /\ Goto(q, "over")

Respond(q) ==
    /\ At(q, "respond")
    /\ Promise!Send(q, Promise!Response(job[q].result))
    /\ Goto(q, "finish")

\* What answer_from_docs and the response event do outside the two guarded
\* calls raises into the generator: a reply of the model that is no string,
\* metadata of an unexpected shape.
Break(q) ==
    /\ job[q].pc \in {"check", "verify", "respond"}
    /\ Raise(q)

Finish(q) ==
    /\ At(q, "finish")
    /\ Promise!SendLast(q, Promise!Done)
    /\ Goto(q, "over")

Handle(q) ==
    \/ Reject(q) \/ GetEngine(q) \/ EmbedFails(q) \/ Retrieve(q)
    \/ PreCheck(q) \/ Generate(q) \/ Verify(q) \/ Judge(q)
    \/ Respond(q) \/ Break(q) \/ Finish(q)

Next == \E q \in Questions : Receive(q) \/ Handle(q)

\* Every call the handler makes has a timeout (60 s to embed, 300 s to
\* generate), so a request that is being served always takes its next step.
Fairness == \A q \in Questions : WF_vars(Handle(q))

Spec == Init /\ [][Next]_vars /\ Fairness
-----------------------------------------------------------------------------
(* Properties *)

Sent(q) == {stream[q].events[i] : i \in DOMAIN stream[q].events}

GroundedSent(q) == {e.result : e \in {e \in Sent(q) :
                        e.type = "response" /\ e.result.grounded}}

\* The names, numbers and example terms a text commits itself to.
Specifics(said) == said.named \cup (said.says \cap (Numbers \cup ExampleOnly))

\* Whatever specific a grounded answer that was sent states is in the excerpts
\* of its prompt, or the question said it, and not spelled like a name; and
\* the answer passed the fact-check when it is on (rag/answering.py:321).
GroundedIsSupported ==
    \A q \in Questions : GroundedSent(q) # {} =>
        /\ Specifics(job[q].text.said) \subseteq
               Mentioned(job[q].prompt) \cup (job[q].asked.says \ job[q].asked.named)
        /\ job[q].judging => job[q].judged

\* Marker [n] of a sent answer names the excerpt the prompt numbered n, also
\* when retrieval returned one chunk twice (rag/answering.py:282 build_citations).
CitationIsWhatWasRead ==
    \A q \in Questions : \A r \in GroundedSent(q) :
        /\ {c.index : c \in r.citations} = job[q].text.cites
        /\ \A c \in r.citations : c.chunk = job[q].prompt[c.index]

\* The model is called only for a question whose names, as far as they are
\* spelled like names, the excerpts mention, and then the reply says that it
\* was called (llm_invoked).
ModelNeedsContext ==
    \A q \in Questions : job[q].text # Null =>
        /\ job[q].asked.named \subseteq Mentioned(job[q].prompt)
        /\ \A e \in Sent(q) : e.type = "response" => e.result.llm_invoked

\* The handler keeps the promise of the stream.
KeepsPromise == Promise!Spec

\* Every request ends: with done, with an error event, or refused.
EveryAskEnds ==
    \A q \in Questions :
        stream[q].state = "open" ~> stream[q].state \in {"ended", "refused"}
=============================================================================
