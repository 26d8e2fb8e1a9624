------------------------------ MODULE ApiProofs ------------------------------
(***************************************************************************)
(* The two handlers of the hub's API, which share no state.                *)
(*                                                                         *)
(* AskServer: what the grounded-answer contract guarantees of every answer *)
(* that is sent, for any excerpts, names, numbers, questions and           *)
(* attempts, and whatever the language model writes and the judge says.    *)
(* The properties speak of answers that were sent.  Told says the same of  *)
(* an answer about to be sent; JobInv follows a request there: what has    *)
(* been checked of its text by the time it is at each step.                *)
(*                                                                         *)
(* StructuredDiscovery: what the discovery API may claim, for any          *)
(* catalogs, callers, upstreams and moments at which the catalog is        *)
(* replaced.  The properties speak of an answered request.  What is needed *)
(* of the steps before is Steps: nothing is attached to a request on its   *)
(* way, and one that is between its two reads of the catalog remembers the *)
(* first.                                                                  *)
(***************************************************************************)
EXTENDS AskServer, StructuredDiscovery, SubsequenceTheorems

-----------------------------------------------------------------------------
(* AskServer *)

JobFields == {"pc", "attempt", "asked", "docs", "judging", "prompt", "text", "judged", "result"}

JobShape == DOMAIN job = Questions /\ \A q \in Questions : DOMAIN job[q] = JobFields

StreamShape ==
    /\ DOMAIN stream = Questions
    /\ \A q \in Questions : /\ DOMAIN stream[q] = {"state", "events"}
                           /\ stream[q].events \in Seq(Sent(q))

\* Every specific of the text is in the excerpts, or in the question as a word.
Supported(q) ==
    Specifics(job[q].text.said) \subseteq
        Mentioned(job[q].prompt) \cup (job[q].asked.says \ job[q].asked.named)

\* What answer r to question q may say.
Told(q, r) ==
    /\ job[q].text # Null => r.llm_invoked
    /\ r.grounded =>
        /\ Supported(q)
        /\ job[q].asked.named \subseteq Mentioned(job[q].prompt)
        /\ job[q].judging => job[q].judged
        /\ {c.index : c \in r.citations} = job[q].text.cites
        /\ \A c \in r.citations : c.chunk = job[q].prompt[c.index]

JobInv(q) ==
    /\ job[q].pc \in {"idle", "guard", "embed", "check", "generate"} => job[q].text = Null
    /\ job[q].pc \in {"generate", "verify", "judge"} =>
           /\ job[q].prompt = Dedupe(job[q].docs)
           /\ job[q].asked.named \subseteq Mentioned(job[q].prompt)
    /\ job[q].text # Null => job[q].asked.named \subseteq Mentioned(job[q].prompt)
    /\ job[q].pc = "judge" => InventedTerms(job[q].text, job[q].prompt, job[q].asked) = {}
    /\ job[q].pc = "respond" => Told(q, job[q].result)
    /\ \A e \in Sent(q) : e.type = "response" =>
           job[q].pc \in {"finish", "over"} /\ Told(q, e.result)

\* No request is worked on before it was asked.
Opened == \A q \in Questions : stream[q].state = "idle" => job[q].pc = "idle"

IInv == JobShape /\ StreamShape /\ Opened /\ \A q \in Questions : JobInv(q)
-----------------------------------------------------------------------------
\* What appending does to the set of the events sent.
LEMMA Appending ==
    ASSUME NEW s, NEW e, NEW t, s \in Seq({s[i] : i \in DOMAIN s}), t = Append(s, e)
    PROVE  /\ {t[i] : i \in DOMAIN t} = {s[i] : i \in DOMAIN s} \cup {e}
           /\ t \in Seq({t[i] : i \in DOMAIN t})
<1> DEFINE S == {s[i] : i \in DOMAIN s}
<1>1. s \in Seq(S \cup {e}) /\ DOMAIN s = 1 .. Len(s) /\ Len(s) \in Nat
    OBVIOUS
<1>2. /\ DOMAIN t = 1 .. Len(s) + 1 /\ Len(t) = Len(s) + 1
      /\ \A i \in 1 .. Len(s) : t[i] = s[i]
      /\ t[Len(s) + 1] = e
      /\ t \in Seq(S \cup {e})
    BY <1>1
<1>3. {t[i] : i \in DOMAIN t} = S \cup {e}
    BY <1>1, <1>2
<1> QED BY <1>2, <1>3

\* A request is not touched by what is done for another.
LEMMA Frame ==
    ASSUME NEW p \in Questions, JobInv(p), job'[p] = job[p], stream'[p] = stream[p]
    PROVE  JobInv(p)'
<1>1. Sent(p)' = Sent(p)
    BY DEF Sent
<1>2. \A r : Told(p, r) <=> Told(p, r)'
    BY DEF Told, Supported
<1> QED BY <1>1, <1>2 DEF JobInv

\* What the steps of a handler do to its request and to its stream.
JobStep(q) ==
    /\ JobShape'
    /\ \A p \in Questions \ {q} : job'[p] = job[p]

StreamStep(q, sent) ==
    /\ StreamShape'
    /\ \A p \in Questions \ {q} : stream'[p] = stream[p]
    /\ Sent(q)' = Sent(q) \cup sent
    /\ stream'[q].state = "idle" => stream[q].state = "idle"

LEMMA Sending ==
    ASSUME StreamShape, NEW q \in Questions, NEW e, Promise!Send(q, e) \/ Promise!SendLast(q, e)
    PROVE  StreamStep(q, {e})
<1>1. /\ DOMAIN stream' = Questions /\ \A p \in Questions \ {q} : stream'[p] = stream[p]
      /\ DOMAIN stream'[q] = {"state", "events"}
      /\ stream'[q].events = Append(stream[q].events, e)
      /\ stream'[q].state = "idle" => stream[q].state = "idle"
    BY DEF StreamShape, Promise!Send, Promise!SendLast
<1>2. /\ {stream'[q].events[i] : i \in DOMAIN stream'[q].events} = Sent(q) \cup {e}
      /\ stream'[q].events \in Seq({stream'[q].events[i] : i \in DOMAIN stream'[q].events})
    <2> DEFINE s == stream[q].events
               t == stream'[q].events
    <2>1. s \in Seq({s[i] : i \in DOMAIN s}) /\ t = Append(s, e)
        BY <1>1 DEF StreamShape, Sent
    <2> HIDE DEF s, t
    <2>2. /\ {t[i] : i \in DOMAIN t} = {s[i] : i \in DOMAIN s} \cup {e}
          /\ t \in Seq({t[i] : i \in DOMAIN t})
        BY <2>1, Appending
    <2> QED BY <2>2 DEF s, t, Sent
<1>3. Sent(q)' = Sent(q) \cup {e} /\ stream'[q].events \in Seq(Sent(q)')
    BY <1>2 DEF Sent
<1>4. ASSUME NEW p \in Questions \ {q}
      PROVE  DOMAIN stream'[p] = {"state", "events"} /\ stream'[p].events \in Seq(Sent(p)')
    <2>1. stream'[p] = stream[p] /\ Sent(p)' = Sent(p)
        BY <1>1 DEF Sent
    <2> QED BY <2>1 DEF StreamShape
<1>5. StreamShape'
    <2>1. \A p \in Questions : /\ DOMAIN stream'[p] = {"state", "events"}
                             /\ stream'[p].events \in Seq(Sent(p)')
        BY <1>1, <1>3, <1>4
    <2> QED BY <1>1, <2>1 DEF StreamShape
<1> QED BY <1>1, <1>3, <1>5 DEF StreamStep

LEMMA Silence ==
    ASSUME StreamShape, NEW q \in Questions, UNCHANGED stream
    PROVE  StreamStep(q, {})
BY DEF StreamShape, StreamStep, Sent

LEMMA StateChange ==
    ASSUME StreamShape, NEW q \in Questions, Promise!Ask(q) \/ Promise!Refuse(q)
    PROVE  StreamStep(q, {})
<1>1. PICK state : state # "idle" /\ stream' = [stream EXCEPT ![q].state = state]
    BY DEF Promise!Ask, Promise!Refuse
<1>2. /\ DOMAIN stream' = Questions /\ \A p \in Questions \ {q} : stream'[p] = stream[p]
      /\ DOMAIN stream'[q] = {"state", "events"}
      /\ stream'[q].events = stream[q].events /\ stream'[q].state # "idle"
    BY <1>1 DEF StreamShape
<1>3. Sent(q)' = Sent(q) /\ stream'[q].events \in Seq(Sent(q)')
    BY <1>2 DEF StreamShape, Sent
<1>4. ASSUME NEW p \in Questions \ {q}
      PROVE  DOMAIN stream'[p] = {"state", "events"} /\ stream'[p].events \in Seq(Sent(p)')
    <2>1. stream'[p] = stream[p] /\ Sent(p)' = Sent(p)
        BY <1>2 DEF Sent
    <2> QED BY <2>1 DEF StreamShape
<1>5. StreamShape'
    <2>1. \A p \in Questions : /\ DOMAIN stream'[p] = {"state", "events"}
                             /\ stream'[p].events \in Seq(Sent(p)')
        BY <1>2, <1>3, <1>4
    <2> QED BY <1>2, <2>1 DEF StreamShape
<1> QED BY <1>2, <1>3, <1>5 DEF StreamStep

-----------------------------------------------------------------------------
(* One lemma for each step of a handler. *)

Keeps(q) ==
    /\ JobStep(q) /\ StreamShape'
    /\ \A p \in Questions \ {q} : stream'[p] = stream[p]
    /\ stream'[q].state = "idle" => stream[q].state = "idle"
    /\ JobInv(q)'

SameChecks(q) ==
    /\ job'[q].asked = job[q].asked /\ job'[q].docs = job[q].docs
    /\ job'[q].prompt = job[q].prompt /\ job'[q].text = job[q].text
    /\ job'[q].judging = job[q].judging /\ job'[q].judged = job[q].judged

LEMMA ToldIsKept ==
    ASSUME NEW q, NEW r, SameChecks(q), Told(q, r)
    PROVE  Told(q, r)'
BY DEF SameChecks, Told, Supported

\* A step that only moves on, and sends nothing that is a response.
LEMMA MovingOn ==
    ASSUME JobShape, NEW q \in Questions, JobInv(q), NEW pc, Goto(q, pc),
           NEW sent, StreamStep(q, sent), \A e \in sent : e.type # "response",
           \/ pc \in {"finish", "over"}
           \/ job[q].pc \notin {"finish", "over"} /\ pc \in {"guard", "embed", "check"} /\ job[q].text = Null
           \/ job[q].pc = "verify" /\ pc = "judge"
                 /\ InventedTerms(job[q].text, job[q].prompt, job[q].asked) = {}
    PROVE  Keeps(q)
<1>1. JobStep(q) /\ SameChecks(q) /\ job'[q].pc = pc
    BY DEF JobShape, JobStep, JobFields, Goto, SameChecks
<1>2. \A e \in Sent(q)' : e.type = "response" => e \in Sent(q)
    BY DEF StreamStep
<1>3. \A e \in Sent(q)' : e.type = "response" => job'[q].pc \in {"finish", "over"} /\ Told(q, e.result)'
    <2> SUFFICES ASSUME NEW e \in Sent(q)', e.type = "response"
                 PROVE  job'[q].pc \in {"finish", "over"} /\ Told(q, e.result)'
        OBVIOUS
    <2>1. job[q].pc \in {"finish", "over"} /\ Told(q, e.result)
        BY <1>2 DEF JobInv
    <2>2. Told(q, e.result)'
        BY <1>1, <2>1, ToldIsKept
    <2> QED BY <1>1, <2>1, <2>2
<1>4. JobInv(q)'
    BY <1>1, <1>3 DEF JobInv, SameChecks
<1> QED BY <1>1, <1>4 DEF Keeps, StreamStep

LEMMA Concluding ==
    ASSUME JobShape, StreamShape, NEW q \in Questions, JobInv(q), job[q].pc \notin {"finish", "over"},
           NEW r, Conclude(q, r), Told(q, r)
    PROVE  Keeps(q)
<1>1. /\ JobStep(q) /\ SameChecks(q) /\ job'[q].pc = "respond" /\ job'[q].result = r
      /\ UNCHANGED stream
    BY DEF JobShape, JobStep, JobFields, Conclude, SameChecks
<1>2. StreamStep(q, {})
    BY <1>1, Silence
<1>3. \A e \in Sent(q)' : e.type # "response"
    <2>1. Sent(q)' = Sent(q)
        BY <1>2 DEF StreamStep
    <2>2. \A e \in Sent(q) : e.type # "response"
        BY DEF JobInv
    <2> QED BY <2>1, <2>2
<1>4. Told(q, job[q].result)'
    <2>1. Told(q, r)'
        BY <1>1, ToldIsKept
    <2> QED BY <1>1, <2>1 DEF Told
<1>5. JobInv(q)'
    BY <1>1, <1>3, <1>4 DEF JobInv, SameChecks
<1> QED BY <1>1, <1>2, <1>5 DEF Keeps, StreamStep

LEMMA Failing ==
    ASSUME JobShape, StreamShape, NEW q \in Questions, JobInv(q), Raise(q)
    PROVE  Keeps(q)
<1>1. StreamStep(q, {Promise!Failure})
    BY Sending DEF Raise
<1>2. \A e \in {Promise!Failure} : e.type # "response"
    BY DEF Promise!Failure
<1>3. Goto(q, "over")
    BY DEF Raise
<1> QED BY <1>1, <1>2, <1>3, MovingOn

LEMMA ReceiveKeeps ==
    ASSUME JobShape, StreamShape, NEW q \in Questions, JobInv(q), job[q].pc = "idle", Receive(q)
    PROVE  Keeps(q)
<1>1. PICK asked \in Said : job' = [job EXCEPT ![q].pc = "guard", ![q].asked = asked]
    BY DEF Receive
<1>2. /\ JobStep(q) /\ job'[q].pc = "guard" /\ job'[q].text = job[q].text
    BY <1>1 DEF JobShape, JobStep, JobFields
<1>3. StreamStep(q, {})
    BY StateChange DEF Receive
<1>4. job'[q].text = Null /\ \A e \in Sent(q)' : e.type # "response"
    BY <1>2, <1>3 DEF JobInv, StreamStep
<1>5. JobInv(q)'
    BY <1>2, <1>4 DEF JobInv
<1> QED BY <1>2, <1>3, <1>5 DEF Keeps, StreamStep

LEMMA RejectKeeps ==
    ASSUME JobShape, StreamShape, NEW q \in Questions, JobInv(q), Reject(q)
    PROVE  Keeps(q)
<1>1. StreamStep(q, {}) /\ Goto(q, "over")
    BY StateChange DEF Reject
<1> QED BY <1>1, MovingOn

\* The two steps before there are excerpts.
LEMMA RetryKeeps ==
    ASSUME JobShape, StreamShape, NEW q \in Questions, JobInv(q), GetEngine(q) \/ EmbedFails(q)
    PROVE  Keeps(q)
<1>1. CASE Raise(q)
    BY <1>1, Failing
<1>2. ASSUME NEW n, UNCHANGED stream, At(q, "guard") \/ At(q, "embed"),
             job' = [job EXCEPT ![q].pc = "embed", ![q].attempt = n]
      PROVE  Keeps(q)
    <2>1. JobStep(q) /\ SameChecks(q) /\ job'[q].pc = "embed"
        BY <1>2 DEF JobShape, JobStep, JobFields, SameChecks
    <2>2. StreamStep(q, {})
        BY <1>2, Silence
    <2>3. job'[q].text = Null /\ \A e \in Sent(q)' : e.type # "response"
        BY <1>2, <2>1, <2>2 DEF JobInv, StreamStep, SameChecks, At
    <2>4. JobInv(q)'
        BY <2>1, <2>3 DEF JobInv
    <2> QED BY <2>1, <2>2, <2>4 DEF Keeps, StreamStep
<1>3. CASE GetEngine(q)
    BY <1>1, <1>2, <1>3 DEF GetEngine
<1>4. CASE At(q, "embed") /\ UNCHANGED stream /\ job' = [job EXCEPT ![q].attempt = @ + 1]
    <2>1. JobStep(q) /\ SameChecks(q) /\ job'[q].pc = "embed"
        BY <1>4 DEF JobShape, JobStep, JobFields, SameChecks, At
    <2>2. StreamStep(q, {})
        BY <1>4, Silence
    <2>3. job'[q].text = Null /\ \A e \in Sent(q)' : e.type # "response"
        BY <1>4, <2>1, <2>2 DEF JobInv, StreamStep, SameChecks, At
    <2>4. JobInv(q)'
        BY <2>1, <2>3 DEF JobInv
    <2> QED BY <2>1, <2>2, <2>4 DEF Keeps, StreamStep
<1> QED BY <1>1, <1>3, <1>4 DEF EmbedFails

LEMMA RetrieveKeeps ==
    ASSUME JobShape, StreamShape, NEW q \in Questions, JobInv(q), Retrieve(q)
    PROVE  Keeps(q)
<1>1. PICK docs, judging :
          job' = [job EXCEPT ![q].pc = "check", ![q].attempt = 0,
                             ![q].docs = docs, ![q].judging = judging]
    BY DEF Retrieve
<1>2. JobStep(q) /\ job'[q].pc = "check" /\ job'[q].text = job[q].text
    BY <1>1 DEF JobShape, JobStep, JobFields
<1>3. StreamStep(q, {Promise!Status})
    BY Sending DEF Retrieve
<1>4. Promise!Status.type # "response"
    BY DEF Promise!Status
<1>5. job'[q].text = Null /\ \A e \in Sent(q)' : e.type # "response"
    BY <1>2, <1>3, <1>4 DEF JobInv, StreamStep, Retrieve, At
<1>6. JobInv(q)'
    BY <1>2, <1>5 DEF JobInv
<1> QED BY <1>2, <1>3, <1>6 DEF Keeps, StreamStep

\* A reply without an answer is always in order once it says whether the
\* model was called.
LEMMA NothingTold ==
    ASSUME NEW q, NEW context, NEW invoked, job[q].text # Null => invoked
    PROVE  Told(q, NoAnswer(q, context, invoked))
BY DEF Told, NoAnswer

LEMMA PreCheckKeeps ==
    ASSUME JobShape, StreamShape, NEW q \in Questions, JobInv(q), PreCheck(q)
    PROVE  Keeps(q)
<1> DEFINE chunks == Dedupe(job[q].docs)
<1>1. job[q].pc = "check" /\ job[q].text = Null
    BY DEF PreCheck, At, JobInv
<1>2. ASSUME NEW context, Conclude(q, NoAnswer(q, context, FALSE)) PROVE Keeps(q)
    BY <1>1, <1>2, NothingTold, Concluding
<1>3. CASE /\ UnsupportedTerms(job[q].asked, Mentioned(chunks)) = {}
           /\ job' = [job EXCEPT ![q].pc = "generate", ![q].prompt = chunks]
           /\ UNCHANGED stream
    <2>1. /\ JobStep(q) /\ job'[q].pc = "generate" /\ job'[q].text = Null /\ job'[q].prompt = chunks
          /\ job'[q].docs = job[q].docs /\ job'[q].asked = job[q].asked
        BY <1>1, <1>3 DEF JobShape, JobStep, JobFields
    <2>2. StreamStep(q, {})
        BY <1>3, Silence
    <2>3. \A e \in Sent(q)' : e.type # "response"
        BY <1>1, <2>2 DEF StreamStep, JobInv
    <2>4. job'[q].asked.named \subseteq Mentioned(job'[q].prompt)
        BY <1>3, <2>1 DEF UnsupportedTerms
    <2>5. JobInv(q)'
        BY <2>1, <2>3, <2>4 DEF JobInv
    <2> QED BY <2>1, <2>2, <2>5 DEF Keeps, StreamStep
<1> QED BY <1>2, <1>3 DEF PreCheck

LEMMA GenerateKeeps ==
    ASSUME JobShape, StreamShape, NEW q \in Questions, JobInv(q), Generate(q)
    PROVE  Keeps(q)
<1>1. /\ job[q].pc = "generate" /\ job[q].prompt = Dedupe(job[q].docs)
      /\ job[q].asked.named \subseteq Mentioned(job[q].prompt)
    BY DEF Generate, At, JobInv
<1>2. CASE Conclude(q, NoAnswer(q, Len(job[q].prompt), TRUE))
    BY <1>1, <1>2, NothingTold, Concluding
<1>3. ASSUME NEW text \in Texts, job' = [job EXCEPT ![q].pc = "verify", ![q].text = text], UNCHANGED stream
      PROVE  Keeps(q)
    <2>1. /\ JobStep(q) /\ job'[q].pc = "verify" /\ job'[q].text = text /\ job'[q].prompt = job[q].prompt
          /\ job'[q].docs = job[q].docs /\ job'[q].asked = job[q].asked
        BY <1>1, <1>3 DEF JobShape, JobStep, JobFields
    <2>2. StreamStep(q, {})
        BY <1>3, Silence
    <2>3. \A e \in Sent(q)' : e.type # "response"
        BY <1>1, <2>2 DEF StreamStep, JobInv
    <2>4. JobInv(q)'
        BY <1>1, <2>1, <2>3 DEF JobInv
    <2> QED BY <2>1, <2>2, <2>4 DEF Keeps, StreamStep
<1> QED BY <1>2, <1>3 DEF Generate

LEMMA CitationsOf ==
    ASSUME NEW chunks, NEW cites
    PROVE  /\ {c.index : c \in BuildCitations(chunks, cites)} = cites
           /\ \A c \in BuildCitations(chunks, cites) : c.chunk = chunks[c.index]
<1>1. \A c \in BuildCitations(chunks, cites) : c.index \in cites /\ c.chunk = chunks[c.index]
    BY DEF BuildCitations
<1>2. ASSUME NEW n \in cites PROVE n \in {c.index : c \in BuildCitations(chunks, cites)}
    <2>1. [index |-> n, chunk |-> chunks[n]] \in BuildCitations(chunks, cites)
        BY Zenon DEF BuildCitations
    <2>2. [index |-> n, chunk |-> chunks[n]].index = n
        OBVIOUS
    <2> QED BY <2>1, <2>2, Zenon
<1> QED BY <1>1, <1>2, Zenon

\* What the two checks of the terms are for: the excerpts mention what they
\* state, and the names of the question.
LEMMA FoundIsSupported ==
    ASSUME NEW q, job[q].asked.named \subseteq Mentioned(job[q].prompt),
           InventedTerms(job[q].text, job[q].prompt, job[q].asked) = {}
    PROVE  Supported(q)
<1> DEFINE said == job[q].text.said
           asked == job[q].asked
           M == Mentioned(job[q].prompt)
           S == Stated(job[q].prompt)
           T == Texted(job[q].prompt)
<1>1. S \subseteq M /\ T \subseteq M
    BY DEF Mentioned, Stated, Texted
<1>2. /\ said.named \subseteq M \cup asked.says
      /\ said.says \cap Numbers \subseteq S \cup asked.says
      /\ said.says \cap ExampleOnly \subseteq T \cup asked.says
    BY DEF InventedTerms, UnsupportedTerms
<1>3. asked.named \subseteq M
    OBVIOUS
<1> HIDE DEF said, asked, M, S, T
<1>4. said.named \cup (said.says \cap (Numbers \cup ExampleOnly))
          \subseteq M \cup (asked.says \ asked.named)
    BY <1>1, <1>2, <1>3
<1> QED BY <1>4 DEF Supported, Specifics, said, asked, M

\* An answer whose names were found and whose verdict is in.
LEMMA GroundedTold ==
    ASSUME NEW q, job[q].asked.named \subseteq Mentioned(job[q].prompt),
           InventedTerms(job[q].text, job[q].prompt, job[q].asked) = {},
           job[q].judging => job[q].judged
    PROVE  Told(q, Grounded(q, job[q].prompt, job[q].text))
<1> DEFINE r == Grounded(q, job[q].prompt, job[q].text)
<1>1. r.llm_invoked /\ r.citations = BuildCitations(job[q].prompt, job[q].text.cites)
    BY DEF Grounded
<1>2. /\ {c.index : c \in BuildCitations(job[q].prompt, job[q].text.cites)} = job[q].text.cites
      /\ \A c \in BuildCitations(job[q].prompt, job[q].text.cites) : c.chunk = job[q].prompt[c.index]
    BY CitationsOf, Zenon
<1>3. Supported(q)
    BY FoundIsSupported
<1> HIDE DEF r
<1> QED BY <1>1, <1>2, <1>3 DEF Told, r

LEMMA VerifyKeeps ==
    ASSUME JobShape, StreamShape, NEW q \in Questions, JobInv(q), Verify(q)
    PROVE  Keeps(q)
<1>1. /\ job[q].pc = "verify" /\ job[q].prompt = Dedupe(job[q].docs)
      /\ job[q].asked.named \subseteq Mentioned(job[q].prompt)
    BY DEF Verify, At, JobInv
<1>2. CASE Conclude(q, NoAnswer(q, Len(job[q].prompt), TRUE))
    BY <1>1, <1>2, NothingTold, Concluding
<1>3. CASE /\ InventedTerms(job[q].text, job[q].prompt, job[q].asked) = {}
           /\ Goto(q, "judge") /\ UNCHANGED stream
    <2>1. StreamStep(q, {})
        BY <1>3, Silence
    <2> QED BY <1>1, <1>3, <2>1, MovingOn
<1>4. CASE /\ InventedTerms(job[q].text, job[q].prompt, job[q].asked) = {} /\ ~job[q].judging
           /\ Conclude(q, Grounded(q, job[q].prompt, job[q].text))
    <2>1. Told(q, Grounded(q, job[q].prompt, job[q].text))
        BY <1>1, <1>4, GroundedTold
    <2> QED BY <1>1, <1>4, <2>1, Concluding
<1> QED BY <1>1, <1>2, <1>3, <1>4 DEF Verify

\* Judge decides and answers in one step.
LEMMA JudgeKeeps ==
    ASSUME JobShape, StreamShape, NEW q \in Questions, JobInv(q), Judge(q)
    PROVE  Keeps(q)
<1> DEFINE chunks == Dedupe(job[q].docs)
<1>1. /\ job[q].pc = "judge" /\ job[q].prompt = chunks
      /\ job[q].asked.named \subseteq Mentioned(job[q].prompt)
      /\ InventedTerms(job[q].text, job[q].prompt, job[q].asked) = {}
    BY DEF Judge, At, JobInv
<1>2. ASSUME NEW verdict, NEW r, UNCHANGED stream,
             job' = [job EXCEPT ![q].pc = "respond", ![q].judged = verdict = "SUPPORTED", ![q].result = r],
             \/ r = NoAnswer(q, Len(chunks), TRUE)
             \/ verdict = "SUPPORTED" /\ r = Grounded(q, chunks, job[q].text)
      PROVE  Keeps(q)
    <2>1. /\ JobStep(q) /\ job'[q].pc = "respond" /\ job'[q].result = r
          /\ job'[q].judged = (verdict = "SUPPORTED")
          /\ job'[q].asked = job[q].asked /\ job'[q].docs = job[q].docs
          /\ job'[q].prompt = job[q].prompt /\ job'[q].text = job[q].text
          /\ job'[q].judging = job[q].judging
        BY <1>2 DEF JobShape, JobStep, JobFields
    <2>2. StreamStep(q, {})
        BY <1>2, Silence
    <2>3. \A e \in Sent(q)' : e.type # "response"
        BY <1>1, <2>2 DEF StreamStep, JobInv
    <2>4. Told(q, r)'
        <3>1. CASE r = NoAnswer(q, Len(chunks), TRUE)
            BY <3>1 DEF Told, NoAnswer
        <3>2. CASE verdict = "SUPPORTED" /\ r = Grounded(q, chunks, job[q].text)
            <4>1. r.llm_invoked /\ r.citations = BuildCitations(job[q].prompt, job[q].text.cites)
                BY <1>1, <3>2 DEF Grounded
            <4>2. /\ {c.index : c \in BuildCitations(job[q].prompt, job[q].text.cites)} = job[q].text.cites
                  /\ \A c \in BuildCitations(job[q].prompt, job[q].text.cites) :
                         c.chunk = job[q].prompt[c.index]
                BY CitationsOf, Zenon
            <4>3. Supported(q)'
                BY <1>1, <2>1, FoundIsSupported DEF Supported
            <4> QED BY <1>1, <2>1, <3>2, <4>1, <4>2, <4>3 DEF Told
        <3> QED BY <1>2, <3>1, <3>2
    <2>5. Told(q, job[q].result)'
        BY <2>1, <2>4 DEF Told
    <2>6. JobInv(q)'
        BY <1>1, <2>1, <2>3, <2>5 DEF JobInv
    <2> QED BY <2>1, <2>2, <2>6 DEF Keeps, StreamStep
<1>3. PICK verdict \in Verdicts :
          /\ job' = [job EXCEPT ![q].pc = "respond", ![q].judged = verdict = "SUPPORTED",
                                ![q].result = IF verdict = "SUPPORTED"
                                              THEN Grounded(q, chunks, job[q].text)
                                              ELSE NoAnswer(q, Len(chunks), TRUE)]
          /\ UNCHANGED stream
    BY DEF Judge
<1>4. CASE verdict = "SUPPORTED"
    BY <1>2, <1>3, <1>4
<1>5. CASE verdict # "SUPPORTED"
    BY <1>2, <1>3, <1>5
<1> QED BY <1>4, <1>5

LEMMA RespondKeeps ==
    ASSUME JobShape, StreamShape, NEW q \in Questions, JobInv(q), Respond(q)
    PROVE  Keeps(q)
<1>1. job[q].pc = "respond" /\ Goto(q, "finish") /\ Told(q, job[q].result)
    BY DEF Respond, At, JobInv
<1>2. /\ JobStep(q) /\ SameChecks(q) /\ job'[q].pc = "finish"
    BY <1>1 DEF JobShape, JobStep, JobFields, Goto, SameChecks
<1>3. StreamStep(q, {Promise!Response(job[q].result)})
    BY Sending DEF Respond
<1>4. \A e \in Sent(q)' : e.type = "response" => e.result = job[q].result
    BY <1>1, <1>3 DEF StreamStep, JobInv, Promise!Response
<1>6. \A e \in Sent(q)' : e.type = "response" => Told(q, e.result)'
    <2> SUFFICES ASSUME NEW e \in Sent(q)', e.type = "response"
                 PROVE  Told(q, e.result)'
        OBVIOUS
    <2>1. e.result = job[q].result
        BY <1>4
    <2>2. Told(q, e.result)
        BY <1>1, <2>1
    <2> QED BY <1>2, <2>2, ToldIsKept
<1>7. JobInv(q)'
    BY <1>1, <1>2, <1>6 DEF JobInv, SameChecks
<1> QED BY <1>2, <1>3, <1>7 DEF Keeps, StreamStep

LEMMA BreakKeeps ==
    ASSUME JobShape, StreamShape, NEW q \in Questions, JobInv(q), Break(q)
    PROVE  Keeps(q)
BY Failing DEF Break

LEMMA FinishKeeps ==
    ASSUME JobShape, StreamShape, NEW q \in Questions, JobInv(q), Finish(q)
    PROVE  Keeps(q)
<1>1. StreamStep(q, {Promise!Done}) /\ Goto(q, "over")
    BY Sending DEF Finish
<1>2. \A e \in {Promise!Done} : e.type # "response"
    BY DEF Promise!Done
<1> QED BY <1>1, <1>2, MovingOn

LEMMA HandleKeeps ==
    ASSUME JobShape, StreamShape, NEW q \in Questions, JobInv(q), Handle(q)
    PROVE  Keeps(q)
BY RejectKeeps, RetryKeeps, RetrieveKeeps, PreCheckKeeps, GenerateKeeps, VerifyKeeps,
   JudgeKeeps, RespondKeeps, BreakKeeps, FinishKeeps DEF Handle
-----------------------------------------------------------------------------
LEMMA InitHolds == Init => IInv
<1> SUFFICES ASSUME Init PROVE IInv
    OBVIOUS
<1>1. /\ stream = [q \in Questions |-> [state |-> "idle", events |-> <<>>]]
      /\ job = [q \in Questions |-> Idle]
    BY DEF Init, Promise!Init
<1>2. \A q \in Questions : Sent(q) = {}
    BY <1>1 DEF Sent
<1>3. JobShape
    BY <1>1 DEF JobShape, JobFields, Idle
<1>4. StreamShape
    <2>1. \A q \in Questions : stream[q] = [state |-> "idle", events |-> <<>>]
        BY <1>1
    <2>2. \A q \in Questions : /\ DOMAIN stream[q] = {"state", "events"}
                               /\ stream[q].events = <<>>
        BY <2>1
    <2>3. ASSUME NEW S PROVE <<>> \in Seq(S)
        OBVIOUS
    <2>4. DOMAIN stream = Questions
        BY <1>1
    <2>5. \A q \in Questions : stream[q].events \in Seq(Sent(q))
        BY <2>2, <2>3
    <2> QED BY <2>2, <2>4, <2>5 DEF StreamShape
<1>5. Opened
    BY <1>1 DEF Opened, Idle
<1>6. \A q \in Questions : JobInv(q)
    BY <1>1, <1>2 DEF JobInv, Idle
<1> QED BY <1>3, <1>4, <1>5, <1>6 DEF IInv

\* A step of one request leaves every other as it was.
LEMMA OneMoves ==
    ASSUME IInv, NEW q \in Questions, Keeps(q), stream'[q].state # "idle"
    PROVE  IInv'
<1>1. \A p \in Questions \ {q} : job'[p] = job[p] /\ stream'[p] = stream[p]
    BY DEF Keeps, JobStep
<1>2. ASSUME NEW p \in Questions PROVE JobInv(p)'
    <2>1. CASE p = q
        BY <2>1 DEF Keeps
    <2>2. CASE p # q
        <3>1. JobInv(p) /\ job'[p] = job[p] /\ stream'[p] = stream[p]
            BY <1>1, <2>2 DEF IInv
        <3> QED BY <3>1, Frame
    <2> QED BY <2>1, <2>2
<1>3. Opened'
    BY <1>1 DEF Opened, IInv
<1>4. JobShape' /\ StreamShape'
    BY DEF Keeps, JobStep
<1> QED BY <1>2, <1>3, <1>4 DEF IInv

LEMMA NextKeeps ==
    ASSUME IInv, [Next]_vars
    PROVE  IInv'
<1>1. ASSUME NEW q \in Questions, Receive(q) PROVE IInv'
    <2>1. stream[q].state = "idle" /\ stream' = [stream EXCEPT ![q].state = "open"]
        BY <1>1 DEF Receive, Promise!Ask
    <2>2. JobShape /\ StreamShape /\ JobInv(q) /\ job[q].pc = "idle"
        BY <2>1 DEF IInv, Opened
    <2>3. Keeps(q)
        BY <1>1, <2>2, ReceiveKeeps
    <2>4. stream'[q].state # "idle"
        BY <2>1, <2>2 DEF StreamShape
    <2> QED BY <2>3, <2>4, OneMoves
<1>2. ASSUME NEW q \in Questions, Handle(q) PROVE IInv'
    <2>1. JobShape /\ StreamShape /\ JobInv(q)
        BY DEF IInv
    <2>2. Keeps(q)
        BY <1>2, <2>1, HandleKeeps
    <2>3. job[q].pc # "idle"
        BY <1>2 DEF Handle, Reject, GetEngine, EmbedFails, Retrieve, PreCheck, Generate,
                    Verify, Judge, Respond, Break, Finish, At
    <2>4. stream'[q].state # "idle"
        BY <2>2, <2>3 DEF Keeps, IInv, Opened
    <2> QED BY <2>2, <2>4, OneMoves
<1>3. CASE UNCHANGED vars
    <2>1. job' = job /\ stream' = stream
        BY <1>3 DEF vars
    <2>2. \A q \in Questions : Sent(q)' = Sent(q)
        BY <2>1 DEF Sent
    <2>3. ASSUME NEW q \in Questions PROVE JobInv(q)'
        <3>1. JobInv(q) /\ job'[q] = job[q] /\ stream'[q] = stream[q]
            BY <2>1 DEF IInv
        <3> QED BY <3>1, Frame
    <2> QED BY <2>1, <2>2, <2>3 DEF IInv, JobShape, StreamShape, Opened
<1> QED BY <1>1, <1>2, <1>3 DEF Next

LEMMA Inductive == Spec => []IInv
<1>1. IInv /\ [Next]_vars => IInv'
    BY NextKeeps
<1> QED BY <1>1, InitHolds, PTL DEF Spec

\* What was sent was told, and what was told is in order.
LEMMA SentIsTold ==
    ASSUME IInv, NEW q \in Questions, NEW r \in GroundedSent(q)
    PROVE  Told(q, r) /\ r.grounded
<1>1. PICK e \in Sent(q) : e.type = "response" /\ e.result.grounded /\ r = e.result
    BY DEF GroundedSent
<1> QED BY <1>1 DEF IInv, JobInv

\* Whatever specific a grounded answer that was sent states is in the excerpts
\* of its prompt, or in the question and not spelled like a name there; and the
\* answer passed the fact-check when it is on: rag/answering.py
\* generate_grounded_answer.
THEOREM AnswersAreSupported == Spec => []GroundedIsSupported
<1>1. ASSUME IInv PROVE GroundedIsSupported
    <2> SUFFICES ASSUME NEW q \in Questions, GroundedSent(q) # {}
                 PROVE  Supported(q) /\ (job[q].judging => job[q].judged)
        BY DEF GroundedIsSupported, Supported
    <2>1. PICK r \in GroundedSent(q) : TRUE
        OBVIOUS
    <2>2. Told(q, r) /\ r.grounded
        BY <1>1, SentIsTold
    <2> QED BY <2>2 DEF Told
<1> QED BY <1>1, Inductive, PTL

\* Marker [n] of a sent answer names the excerpt the prompt numbered n, and
\* the citations are those of the text: rag/answering.py build_citations.
THEOREM CitationsAreRead == Spec => []CitationIsWhatWasRead
<1>1. ASSUME IInv PROVE CitationIsWhatWasRead
    <2> SUFFICES ASSUME NEW q \in Questions, NEW r \in GroundedSent(q)
                 PROVE  /\ {c.index : c \in r.citations} = job[q].text.cites
                        /\ \A c \in r.citations : c.chunk = job[q].prompt[c.index]
        BY DEF CitationIsWhatWasRead
    <2>1. Told(q, r) /\ r.grounded
        BY <1>1, SentIsTold
    <2> QED BY <2>1 DEF Told
<1> QED BY <1>1, Inductive, PTL

\* Once the model has written a text for a question, everything the question
\* spells like a name is in the excerpts, and the reply says that the model
\* was called: rag/answering.py unsupported_terms.
THEOREM ModelIsCalledForCause == Spec => []ModelNeedsContext
<1>1. ASSUME IInv PROVE ModelNeedsContext
    <2> SUFFICES ASSUME NEW q \in Questions, job[q].text # Null
                 PROVE  /\ job[q].asked.named \subseteq Mentioned(job[q].prompt)
                        /\ \A e \in Sent(q) : e.type = "response" => e.result.llm_invoked
        BY DEF ModelNeedsContext
    <2>1. JobInv(q)
        BY <1>1 DEF IInv
    <2> QED BY <2>1 DEF JobInv, Told
<1> QED BY <1>1, Inductive, PTL
-----------------------------------------------------------------------------
(* AskServer implements AskPromise                                         *)
(*                                                                         *)
(* A step of a handler is a step of the promise or changes no stream.  For *)
(* that a handler has to know at each step what it has sent so far, and an *)
(* answer about to be sent has to be one the promise allows: its citations *)
(* are excerpts, with the numbers they have in a prompt that is not empty. *)

Served == {"guard", "embed", "check", "generate", "verify", "judge", "respond", "finish"}

\* The status, then the response.
Sends(s) == DOMAIN s = 1 .. 2 /\ s[1].type = "status" /\ s[2].type = "response"

\* What has been sent at each step.
InStep(q) ==
    /\ job[q].pc \in Served => stream[q].state = "open"
    /\ job[q].pc \in {"idle", "guard", "embed"} => stream[q].events = <<>>
    /\ job[q].pc \in {"check", "generate", "verify", "judge", "respond"} =>
           stream[q].events = <<Promise!Status>>
    /\ job[q].pc = "finish" => Sends(stream[q].events)

\* What is known of the excerpts and of the answer.
InOrder(q) ==
    /\ job[q].pc \in {"check", "generate", "verify", "judge"} =>
           job[q].docs \in BoundedSeq(Chunks, MaxDocs)
    /\ job[q].pc \in {"generate", "verify", "judge"} => Dedupe(job[q].docs) # <<>>
    /\ job[q].pc = "judge" => VerifyAnswer(job[q].text, Len(Dedupe(job[q].docs)))
    /\ job[q].pc = "respond" => job[q].result \in Promise!Promised(q)

KInv == IInv /\ \A q \in Questions : InStep(q) /\ InOrder(q)

\* The excerpts of an answer are distinct and no more than MaxContext.
LEMMA ExcerptsOf ==
    ASSUME NEW docs \in BoundedSeq(Chunks, MaxDocs)
    PROVE  /\ Dedupe(docs) \in Seq(Chunks)
           /\ Len(Dedupe(docs)) \in 0 .. MaxContext
           /\ Dedupe(docs) # <<>> => Len(Dedupe(docs)) > 0
<1>1. docs \in Seq(Chunks)
    <2>1. PICK n \in 0 .. MaxDocs : docs \in [1 .. n -> Chunks]
        BY DEF BoundedSeq, SeqOf
    <2>2. n \in Nat
        BY ContextAssumption
    <2> QED BY <2>1, <2>2
<1>2. Distinct(docs) \in Seq(Chunks)
    BY <1>1, DistinctFacts
<1>3. Dedupe(docs) \in Seq(Chunks)
    BY <1>2 DEF Dedupe
<1>4. Len(Dedupe(docs)) <= MaxContext
    BY ContextAssumption
<1> HIDE DEF Dedupe
<1>5. Len(Dedupe(docs)) \in Nat /\ (Dedupe(docs) # <<>> => Len(Dedupe(docs)) > 0)
    BY <1>3
<1> QED BY <1>3, <1>4, <1>5, MaxContextAssumption

\* A reply without an answer is allowed if the model was not called, or
\* there was an excerpt.
LEMMA NoAnswerPromised ==
    ASSUME NEW q \in Questions, NEW n \in 0 .. MaxContext, NEW invoked \in BOOLEAN, invoked => n > 0
    PROVE  NoAnswer(q, n, invoked) \in Promise!Promised(q)
<1> DEFINE r == NoAnswer(q, n, invoked)
<1>1. r \in Promise!Responses
    BY Zenon DEF NoAnswer, Promise!Responses
<1>2. /\ r.about = q /\ r.grounded = FALSE /\ r.citations = {}
      /\ r.context_used = n /\ r.llm_invoked = invoked
    BY DEF NoAnswer
<1>3. (r.grounded <=> r.citations # {}) /\ (r.grounded => r.llm_invoked)
    BY <1>2, Zenon
<1>4. r.llm_invoked => r.context_used > 0
    BY <1>2, Zenon
<1> HIDE DEF r
<1> QED BY <1>1, <1>2, <1>3, <1>4, Zenon DEF Promise!Promised, r

\* A verified answer is allowed.
LEMMA GroundedPromised ==
    ASSUME NEW q \in Questions, NEW chunks \in Seq(Chunks), Len(chunks) \in 0 .. MaxContext,
           NEW text, VerifyAnswer(text, Len(chunks)), Len(chunks) > 0
    PROVE  Grounded(q, chunks, text) \in Promise!Promised(q)
<1> DEFINE C == BuildCitations(chunks, text.cites)
           r == Grounded(q, chunks, text)
<1>1. /\ text.cites # {} /\ text.cites \subseteq 1 .. Len(chunks)
      /\ MaxContext \in Nat /\ Len(chunks) \in Nat
    BY MaxContextAssumption DEF VerifyAnswer
<1>2. \A n \in text.cites : /\ n \in 1 .. MaxContext /\ n \in Nat /\ n <= Len(chunks)
                            /\ chunks[n] \in Chunks
    BY <1>1
<1>3. ASSUME NEW c \in C
      PROVE  /\ c \in Promise!Citations /\ c.index \in text.cites
             /\ c = [index |-> c.index, chunk |-> chunks[c.index]]
    <2>1. PICK n \in text.cites : c = [index |-> n, chunk |-> chunks[n]]
        BY DEF BuildCitations
    <2> QED BY <1>2, <2>1 DEF Promise!Citations
<1>4. C # {}
    BY <1>1 DEF BuildCitations
<1>5. C \in SUBSET Promise!Citations
    BY <1>3
<1>6. \A c \in C : c.index <= Len(chunks) /\ \A d \in C : d.index = c.index => d = c
    BY <1>2, <1>3
<1>7. r \in Promise!Responses
    BY <1>5, Zenon DEF Grounded, Promise!Responses
<1>8. /\ r.about = q /\ r.grounded = TRUE /\ r.citations = C
      /\ r.context_used = Len(chunks) /\ r.llm_invoked = TRUE
    BY DEF Grounded
<1> HIDE DEF C, r
<1>9. (r.grounded <=> r.citations # {}) /\ (r.grounded => r.llm_invoked)
    BY <1>4, <1>8, Zenon
<1>10. r.context_used > 0
    BY <1>8
<1>11. \A c \in r.citations : /\ c.index <= r.context_used
                              /\ \A d \in r.citations : d.index = c.index => d = c
    BY <1>6, <1>8
<1> QED BY <1>7, <1>8, <1>9, <1>10, <1>11, Zenon DEF Promise!Promised, r

\* What a step of q's handler must do: what the promise allows, and leave the
\* handler knowing what it has sent.
Follows(q) ==
    /\ Promise!Next \/ UNCHANGED stream
    /\ (InStep(q) /\ InOrder(q))'

\* The steps that send nothing.
LEMMA Working ==
    ASSUME KInv, NEW q \in Questions, UNCHANGED stream,
           job[q].pc \in Served, job'[q].pc \in Served \ {"finish"},
           job[q].pc \in {"guard", "embed"} <=> job'[q].pc \in {"guard", "embed"},
           job[q].pc # "finish", InOrder(q)'
    PROVE  Follows(q)
<1>1. InStep(q) /\ stream'[q] = stream[q]
    BY DEF KInv
<1>2. InStep(q)'
    BY <1>1 DEF InStep, Served
<1> QED BY <1>2 DEF Follows

LEMMA RaiseFollows ==
    ASSUME KInv, NEW q \in Questions, Raise(q),
           job[q].pc \in {"guard", "embed", "check", "verify", "respond"}
    PROVE  Follows(q)
<1>1. /\ stream[q].state = "open" /\ JobShape /\ StreamShape
      /\ stream[q].events = <<>> \/ stream[q].events = <<Promise!Status>>
    BY DEF KInv, IInv, InStep, Served
<1>2. \A i \in DOMAIN stream[q].events : stream[q].events[i].type # "response"
    BY <1>1 DEF Promise!Status
<1>3. Promise!SendFailure(q)
    BY <1>1, <1>2 DEF Raise, Promise!SendFailure
<1>4. Promise!Next
    BY <1>3 DEF Promise!Next, Promise!Serve
<1>5. job'[q].pc = "over"
    BY <1>1 DEF Raise, Goto, JobShape, JobFields
<1>6. (InStep(q) /\ InOrder(q))'
    BY <1>5 DEF InStep, InOrder, Served
<1> QED BY <1>4, <1>6 DEF Follows

LEMMA ReceiveFollows ==
    ASSUME KInv, NEW q \in Questions, Receive(q)
    PROVE  Follows(q)
<1>1. stream[q].state = "idle" /\ stream' = [stream EXCEPT ![q].state = "open"]
    BY DEF Receive, Promise!Ask
<1>2. JobShape /\ StreamShape /\ job[q].pc = "idle" /\ stream[q].events = <<>>
    BY <1>1 DEF KInv, IInv, Opened, InStep
<1>3. PICK asked \in Said : job' = [job EXCEPT ![q].pc = "guard", ![q].asked = asked]
    BY DEF Receive
<1>4. job'[q].pc = "guard"
    BY <1>2, <1>3 DEF JobShape, JobFields
<1>5. stream'[q].state = "open" /\ stream'[q].events = <<>>
    BY <1>1, <1>2 DEF StreamShape
<1>6. (InStep(q) /\ InOrder(q))'
    BY <1>4, <1>5 DEF InStep, InOrder, Served
<1>7. Promise!Next
    BY DEF Receive, Promise!Next
<1> QED BY <1>6, <1>7 DEF Follows

LEMMA RejectFollows ==
    ASSUME KInv, NEW q \in Questions, Reject(q)
    PROVE  Follows(q)
<1>1. JobShape
    BY DEF KInv, IInv
<1>2. job'[q].pc = "over"
    BY <1>1 DEF Reject, Goto, JobShape, JobFields
<1>3. (InStep(q) /\ InOrder(q))'
    BY <1>2 DEF InStep, InOrder, Served
<1>4. Promise!Next
    BY DEF Reject, Promise!Next, Promise!Serve
<1> QED BY <1>3, <1>4 DEF Follows

\* The engine and the attempts to embed.
LEMMA RetryFollows ==
    ASSUME KInv, NEW q \in Questions, GetEngine(q) \/ EmbedFails(q)
    PROVE  Follows(q)
<1>1. job[q].pc \in {"guard", "embed"} /\ JobShape
    BY DEF GetEngine, EmbedFails, At, KInv, IInv
<1>2. CASE Raise(q)
    BY <1>1, <1>2, RaiseFollows
<1>3. ASSUME UNCHANGED stream, job'[q].pc = "embed" PROVE Follows(q)
    <2>1. job[q].pc \in Served /\ job[q].pc # "finish"
        BY <1>1 DEF Served
    <2>2. job'[q].pc \in Served \ {"finish"} /\ job'[q].pc \in {"guard", "embed"}
        BY <1>3 DEF Served
    <2>3. InOrder(q)'
        BY <1>3 DEF InOrder
    <2> QED BY <1>1, <1>3, <2>1, <2>2, <2>3, Working
<1>4. CASE GetEngine(q) /\ ~Raise(q)
    <2>1. UNCHANGED stream /\ job'[q].pc = "embed"
        BY <1>1, <1>4 DEF GetEngine, JobShape, JobFields
    <2> QED BY <1>3, <2>1
<1>5. CASE EmbedFails(q) /\ ~Raise(q)
    <2>1. UNCHANGED stream /\ job'[q].pc = "embed"
        BY <1>1, <1>5 DEF EmbedFails, At, JobShape, JobFields
    <2> QED BY <1>3, <2>1
<1> QED BY <1>2, <1>4, <1>5

LEMMA RetrieveFollows ==
    ASSUME KInv, NEW q \in Questions, Retrieve(q)
    PROVE  Follows(q)
<1>1. /\ job[q].pc = "embed" /\ JobShape /\ StreamShape
      /\ stream[q].state = "open" /\ stream[q].events = <<>>
    BY DEF Retrieve, At, KInv, IInv, InStep, Served
<1>2. PICK docs \in BoundedSeq(Chunks, MaxDocs), judging \in BOOLEAN :
          job' = [job EXCEPT ![q].pc = "check", ![q].attempt = 0,
                             ![q].docs = docs, ![q].judging = judging]
    BY DEF Retrieve
<1>3. job'[q].pc = "check" /\ job'[q].docs = docs
    BY <1>1, <1>2 DEF JobShape, JobFields
<1>4. Promise!Send(q, Promise!Status)
    BY DEF Retrieve
<1>5. Promise!Next
    BY <1>1, <1>4 DEF Promise!Next, Promise!Serve, Promise!SendStatus
<1>6. stream'[q].state = "open" /\ stream'[q].events = Append(<<>>, Promise!Status)
    BY <1>1, <1>4 DEF Promise!Send, StreamShape
<1>7. stream'[q].events = <<Promise!Status>>
    BY <1>6
<1>8. InStep(q)'
    <2>1. job'[q].pc \notin {"idle", "guard", "embed", "finish"}
        BY <1>3
    <2> QED BY <1>6, <1>7, <2>1 DEF InStep
<1>9. InOrder(q)'
    BY <1>3 DEF InOrder
<1> QED BY <1>5, <1>8, <1>9 DEF Follows

\* A handler that comes to a conclusion the promise allows.
LEMMA ConcludeFollows ==
    ASSUME KInv, NEW q \in Questions, job[q].pc \in {"check", "generate", "verify", "judge"},
           UNCHANGED stream, job'[q].pc = "respond", job'[q].result \in Promise!Promised(q)
    PROVE  Follows(q)
<1>1. InOrder(q)'
    <2>1. Promise!Promised(q)' = Promise!Promised(q)
        OBVIOUS
    <2> QED BY <2>1 DEF InOrder
<1>2. /\ job[q].pc \in Served /\ job[q].pc \notin {"finish", "guard", "embed"}
      /\ job'[q].pc \in Served \ {"finish"} /\ job'[q].pc \notin {"guard", "embed"}
    BY DEF Served
<1> QED BY <1>1, <1>2, Working

LEMMA ConcludesFollows ==
    ASSUME KInv, NEW q \in Questions, job[q].pc \in {"check", "generate", "verify", "judge"},
           NEW r, Conclude(q, r), r \in Promise!Promised(q)
    PROVE  Follows(q)
<1>1. JobShape
    BY DEF KInv, IInv
<1>2. UNCHANGED stream /\ job'[q].pc = "respond" /\ job'[q].result = r
    BY <1>1 DEF Conclude, JobShape, JobFields
<1>3. job'[q].result \in Promise!Promised(q)
    BY <1>2
<1> QED BY <1>2, <1>3, ConcludeFollows

LEMMA PreCheckFollows ==
    ASSUME KInv, NEW q \in Questions, PreCheck(q)
    PROVE  Follows(q)
<1> DEFINE chunks == Dedupe(job[q].docs)
<1>1. job[q].pc = "check" /\ JobShape /\ job[q].docs \in BoundedSeq(Chunks, MaxDocs)
    BY DEF PreCheck, At, KInv, IInv, InOrder
<1>2. chunks \in Seq(Chunks) /\ Len(chunks) \in 0 .. MaxContext
    BY <1>1, ExcerptsOf
<1>3. ASSUME NEW n \in 0 .. MaxContext, Conclude(q, NoAnswer(q, n, FALSE)) PROVE Follows(q)
    <2>1. NoAnswer(q, n, FALSE) \in Promise!Promised(q)
        BY NoAnswerPromised
    <2> QED BY <1>1, <1>3, <2>1, ConcludesFollows
<1>4. 0 \in 0 .. MaxContext
    BY MaxContextAssumption
<1>5. CASE /\ chunks # <<>>
           /\ job' = [job EXCEPT ![q].pc = "generate", ![q].prompt = chunks] /\ UNCHANGED stream
    <2>1. job'[q].pc = "generate" /\ job'[q].docs = job[q].docs
        BY <1>1, <1>5 DEF JobShape, JobFields
    <2>2. InOrder(q)'
        BY <1>1, <1>5, <2>1 DEF InOrder
    <2>3. /\ job[q].pc \in Served /\ job[q].pc \notin {"finish", "guard", "embed"}
          /\ job'[q].pc \in Served \ {"finish"} /\ job'[q].pc \notin {"guard", "embed"}
        BY <1>1, <2>1 DEF Served
    <2> QED BY <1>5, <2>2, <2>3, Working
<1> HIDE DEF chunks
<1>6. \/ Conclude(q, NoAnswer(q, 0, FALSE)) \/ Conclude(q, NoAnswer(q, Len(chunks), FALSE))
      \/ /\ chunks # <<>>
         /\ job' = [job EXCEPT ![q].pc = "generate", ![q].prompt = chunks] /\ UNCHANGED stream
    BY DEF PreCheck, chunks
<1> QED BY <1>2, <1>3, <1>4, <1>5, <1>6

LEMMA GenerateFollows ==
    ASSUME KInv, NEW q \in Questions, Generate(q)
    PROVE  Follows(q)
<1>1. /\ job[q].pc = "generate" /\ JobShape /\ job[q].docs \in BoundedSeq(Chunks, MaxDocs)
      /\ Dedupe(job[q].docs) # <<>> /\ job[q].prompt = Dedupe(job[q].docs)
    BY DEF Generate, At, KInv, IInv, InOrder, JobInv
<1>2. CASE Conclude(q, NoAnswer(q, Len(job[q].prompt), TRUE))
    <2>1. Len(job[q].prompt) \in 0 .. MaxContext /\ Len(job[q].prompt) > 0
        BY <1>1, ExcerptsOf
    <2>2. NoAnswer(q, Len(job[q].prompt), TRUE) \in Promise!Promised(q)
        BY <2>1, NoAnswerPromised
    <2> QED BY <1>1, <1>2, <2>2, ConcludesFollows
<1>3. ASSUME NEW text \in Texts, job' = [job EXCEPT ![q].pc = "verify", ![q].text = text], UNCHANGED stream
      PROVE  Follows(q)
    <2>1. job'[q].pc = "verify" /\ job'[q].docs = job[q].docs
        BY <1>1, <1>3 DEF JobShape, JobFields
    <2>2. InOrder(q)'
        BY <1>1, <2>1 DEF InOrder
    <2>3. /\ job[q].pc \in Served /\ job[q].pc \notin {"finish", "guard", "embed"}
          /\ job'[q].pc \in Served \ {"finish"} /\ job'[q].pc \notin {"guard", "embed"}
        BY <1>1, <2>1 DEF Served
    <2> QED BY <1>3, <2>2, <2>3, Working
<1> QED BY <1>2, <1>3 DEF Generate

\* The two steps that let an answer through, or not.
LEMMA CheckedFollows ==
    ASSUME KInv, NEW q \in Questions, Verify(q) \/ Judge(q)
    PROVE  Follows(q)
<1> DEFINE chunks == Dedupe(job[q].docs)
           text == job[q].text
<1>1. /\ job[q].pc \in {"verify", "judge"} /\ JobShape
      /\ job[q].docs \in BoundedSeq(Chunks, MaxDocs) /\ chunks # <<>>
    BY DEF Verify, Judge, At, KInv, IInv, InOrder
<1>2. chunks \in Seq(Chunks) /\ Len(chunks) \in 0 .. MaxContext /\ Len(chunks) > 0
    BY <1>1, ExcerptsOf
<1> HIDE DEF chunks, text
<1>3. NoAnswer(q, Len(chunks), TRUE) \in Promise!Promised(q)
    BY <1>2, NoAnswerPromised
<1>4. VerifyAnswer(text, Len(chunks)) => Grounded(q, chunks, text) \in Promise!Promised(q)
    BY <1>2, GroundedPromised
<1>5. CASE Verify(q)
    <2>1. \/ Conclude(q, NoAnswer(q, Len(chunks), TRUE))
          \/ VerifyAnswer(text, Len(chunks)) /\ Conclude(q, Grounded(q, chunks, text))
          \/ VerifyAnswer(text, Len(chunks)) /\ Goto(q, "judge") /\ UNCHANGED stream
        BY <1>5 DEF Verify, chunks, text
    <2>2. CASE Conclude(q, NoAnswer(q, Len(chunks), TRUE))
        BY <1>1, <1>3, <2>2, ConcludesFollows
    <2>3. CASE VerifyAnswer(text, Len(chunks)) /\ Conclude(q, Grounded(q, chunks, text))
        BY <1>1, <1>4, <2>3, ConcludesFollows
    <2>4. CASE VerifyAnswer(text, Len(chunks)) /\ Goto(q, "judge") /\ UNCHANGED stream
        <3>1. /\ job'[q].pc = "judge" /\ job'[q].docs = job[q].docs /\ job'[q].text = job[q].text
            BY <1>1, <2>4 DEF Goto, JobShape, JobFields
        <3>2. InOrder(q)'
            BY <1>1, <2>4, <3>1 DEF InOrder, chunks, text
        <3>3. /\ job[q].pc \in Served /\ job[q].pc \notin {"finish", "guard", "embed"}
              /\ job'[q].pc \in Served \ {"finish"} /\ job'[q].pc \notin {"guard", "embed"}
            BY <1>1, <3>1 DEF Served
        <3> QED BY <2>4, <3>2, <3>3, Working
    <2> QED BY <2>1, <2>2, <2>3, <2>4
<1>6. CASE Judge(q)
    <2>1. job[q].pc = "judge" /\ VerifyAnswer(text, Len(chunks))
        BY <1>6 DEF Judge, At, KInv, InOrder, chunks, text
    <2>2. PICK verdict \in Verdicts :
              /\ job' = [job EXCEPT ![q].pc = "respond", ![q].judged = verdict = "SUPPORTED",
                                    ![q].result = IF verdict = "SUPPORTED" THEN Grounded(q, chunks, text)
                                                  ELSE NoAnswer(q, Len(chunks), TRUE)]
              /\ UNCHANGED stream
        BY <1>6 DEF Judge, chunks, text
    <2>3. job'[q].pc = "respond" /\ job'[q].result = IF verdict = "SUPPORTED" THEN Grounded(q, chunks, text)
                                                     ELSE NoAnswer(q, Len(chunks), TRUE)
        BY <1>1, <2>2 DEF JobShape, JobFields
    <2>4. job'[q].result \in Promise!Promised(q)
        BY <1>3, <1>4, <2>1, <2>3
    <2> QED BY <2>1, <2>2, <2>3, <2>4, ConcludeFollows
<1> QED BY <1>5, <1>6

LEMMA RespondFollows ==
    ASSUME KInv, NEW q \in Questions, Respond(q)
    PROVE  Follows(q)
<1> DEFINE e == Promise!Response(job[q].result)
<1>1. /\ job[q].pc = "respond" /\ JobShape /\ StreamShape /\ stream[q].state = "open"
      /\ stream[q].events = <<Promise!Status>> /\ job[q].result \in Promise!Promised(q)
    BY DEF Respond, At, KInv, IInv, InStep, InOrder, Served
<1>2. Promise!Types(q) = <<"status">>
    BY <1>1 DEF Promise!Types, Promise!Status
<1>3. Promise!Send(q, e)
    BY DEF Respond
<1>4. Promise!SendResponse(q)
    BY <1>1, <1>2, <1>3 DEF Promise!SendResponse
<1>5. Promise!Next
    BY <1>4 DEF Promise!Next, Promise!Serve
<1> HIDE DEF e
<1>6. stream'[q].state = "open" /\ stream'[q].events = Append(<<Promise!Status>>, e)
    BY <1>1, <1>3 DEF Promise!Send, StreamShape
<1>7. Sends(Append(<<Promise!Status>>, e))
    BY DEF Sends, Promise!Status, Promise!Response, e
<1>8. job'[q].pc = "finish"
    BY <1>1 DEF Respond, Goto, JobShape, JobFields
<1>9. Sends(stream'[q].events)
    BY <1>6, <1>7
<1>10. (InStep(q) /\ InOrder(q))'
    BY <1>6, <1>8, <1>9 DEF InStep, InOrder
<1> QED BY <1>5, <1>10 DEF Follows

LEMMA BreakFollows ==
    ASSUME KInv, NEW q \in Questions, Break(q)
    PROVE  Follows(q)
BY RaiseFollows DEF Break

LEMMA FinishFollows ==
    ASSUME KInv, NEW q \in Questions, Finish(q)
    PROVE  Follows(q)
<1>1. job[q].pc = "finish" /\ JobShape /\ stream[q].state = "open"
    BY DEF Finish, At, KInv, IInv, InStep, Served
<1>2. Sends(stream[q].events)
    BY <1>1 DEF KInv, InStep
<1>3. Promise!Types(q) = <<"status", "response">>
    <2>1. /\ DOMAIN stream[q].events = 1 .. 2
          /\ stream[q].events[1].type = "status" /\ stream[q].events[2].type = "response"
        BY <1>2 DEF Sends
    <2> QED BY <2>1 DEF Promise!Types
<1>4. Promise!Next
    BY <1>1, <1>3 DEF Finish, Promise!SendDone, Promise!Next, Promise!Serve
<1>5. job'[q].pc = "over"
    BY <1>1 DEF Finish, Goto, JobShape, JobFields
<1>6. (InStep(q) /\ InOrder(q))'
    BY <1>5 DEF InStep, InOrder, Served
<1> QED BY <1>4, <1>6 DEF Follows

LEMMA KInvInit == Init => KInv
<1> SUFFICES ASSUME Init PROVE KInv
    OBVIOUS
<1>1. \A q \in Questions : job[q].pc = "idle" /\ stream[q].events = <<>>
    BY DEF Init, Promise!Init, Idle
<1> QED BY <1>1, InitHolds DEF KInv, InStep, InOrder, Served

\* Every step keeps the promise.
LEMMA StepFollows ==
    ASSUME KInv, [Next]_vars
    PROVE  KInv' /\ [Promise!Next]_stream
<1>1. IInv'
    BY NextKeeps DEF KInv
<1>2. ASSUME NEW q \in Questions, Receive(q) \/ Handle(q)
      PROVE  KInv' /\ [Promise!Next]_stream
    <2>1. Follows(q)
        BY <1>2, ReceiveFollows, RejectFollows, RetryFollows, RetrieveFollows, PreCheckFollows,
           GenerateFollows, CheckedFollows, RespondFollows, BreakFollows, FinishFollows DEF Handle
    <2>2. Keeps(q)
        <3>1. JobShape /\ StreamShape /\ JobInv(q)
            BY DEF KInv, IInv
        <3>2. CASE Receive(q)
            <4>1. job[q].pc = "idle"
                BY <3>2 DEF Receive, Promise!Ask, KInv, IInv, Opened
            <4> QED BY <3>1, <3>2, <4>1, ReceiveKeeps
        <3> QED BY <1>2, <3>1, <3>2, HandleKeeps
    <2>3. ASSUME NEW p \in Questions PROVE (InStep(p) /\ InOrder(p))'
        <3>1. CASE p = q
            BY <2>1, <3>1 DEF Follows
        <3>2. CASE p # q
            <4>1. job'[p] = job[p] /\ stream'[p] = stream[p] /\ InStep(p) /\ InOrder(p)
                BY <2>2, <3>2 DEF Keeps, JobStep, KInv
            <4> QED BY <4>1 DEF InStep, InOrder
        <3> QED BY <3>1, <3>2
    <2> QED BY <1>1, <2>1, <2>3 DEF KInv, Follows
<1>3. CASE UNCHANGED vars
    <2>1. job' = job /\ stream' = stream
        BY <1>3 DEF vars
    <2>2. ASSUME NEW p \in Questions PROVE (InStep(p) /\ InOrder(p))'
        <3>1. job'[p] = job[p] /\ stream'[p] = stream[p] /\ InStep(p) /\ InOrder(p)
            BY <2>1 DEF KInv
        <3> QED BY <3>1 DEF InStep, InOrder
    <2> QED BY <1>1, <2>1, <2>2 DEF KInv
<1> QED BY <1>2, <1>3 DEF Next

\* The handler keeps the promise of the stream, whatever the model writes,
\* the judge says and the calls raise: api/routes/rag.py stream.
THEOREM PromiseKept == Spec => KeepsPromise
<1>1. Init => Promise!Init
    BY DEF Init
<1> QED BY <1>1, KInvInit, StepFollows, PTL DEF Spec, KeepsPromise, Promise!Spec
-----------------------------------------------------------------------------
(* StructuredDiscovery *)

Steps ==
    /\ request.pc # "answered" =>
           request.items = {} /\ request.upstream = Nothing /\ request.status = 0
    /\ request.pc \in {"first", "second"} =>
           request.asks = "relationships" /\ request.entity = "service" /\ request.service \in Services
    /\ request.pc = "call" /\ request.asks = "relationships" => request.entity = "tool"
    /\ request.pc \in {"route", "call", "first", "second"} =>
           Admits(request.token, request.proxied)
    /\ request.pc \notin {"idle", "answered"} => request.asks \in {"records", "relationships"}
    /\ request.pc = "call" => request.sent = request.token
    /\ request.pc = "second" => request.read \in Records /\ (replaced = 0 => request.read = catalog)

DiscoveryInv == RequestTypeOK /\ Steps /\ EdgesAreRestrictive /\ FailuresAreFailures /\ RegistryDecides
-----------------------------------------------------------------------------
\* A request with one field changed within its type is one.
LEMMA FieldTyped ==
    ASSUME NEW r \in Requests
    PROVE  /\ \A x \in {"idle", "route", "call", "first", "second", "answered"} : [r EXCEPT !.pc = x] \in Requests
           /\ \A x \in Statuses : [r EXCEPT !.status = x] \in Requests
           /\ \A x \in SUBSET Items : [r EXCEPT !.items = x] \in Requests
           /\ \A x \in {"records", "relationships"} : [r EXCEPT !.asks = x] \in Requests
           /\ \A x \in Entities : [r EXCEPT !.entity = x] \in Requests
           /\ \A x \in RelationshipTypes : [r EXCEPT !.type = x] \in Requests
           /\ \A x \in Services \cup {Nothing} : [r EXCEPT !.service = x] \in Requests
           /\ \A x \in Tokens \cup {Nothing} : [r EXCEPT !.token = x] \in Requests
           /\ \A x \in Tokens \cup {Nothing} : [r EXCEPT !.sent = x] \in Requests
           /\ \A x \in BOOLEAN : [r EXCEPT !.proxied = x] \in Requests
           /\ \A x \in Replies \cup {Nothing} : [r EXCEPT !.upstream = x] \in Requests
           /\ \A x \in Records : [r EXCEPT !.read = x] \in Requests
<1>1. \A x \in {"idle", "route", "call", "first", "second", "answered"} : [r EXCEPT !.pc = x] \in Requests
    BY DEF Requests
<1>2. \A x \in Statuses : [r EXCEPT !.status = x] \in Requests
    BY DEF Requests
<1>3. \A x \in SUBSET Items : [r EXCEPT !.items = x] \in Requests
    BY DEF Requests
<1>4. \A x \in {"records", "relationships"} : [r EXCEPT !.asks = x] \in Requests
    BY DEF Requests
<1>5. \A x \in Entities : [r EXCEPT !.entity = x] \in Requests
    BY DEF Requests
<1>6. \A x \in RelationshipTypes : [r EXCEPT !.type = x] \in Requests
    BY DEF Requests
<1>7. \A x \in Services \cup {Nothing} : [r EXCEPT !.service = x] \in Requests
    BY DEF Requests
<1>8. \A x \in Tokens \cup {Nothing} : [r EXCEPT !.token = x] \in Requests
    BY DEF Requests
<1>9. \A x \in Tokens \cup {Nothing} : [r EXCEPT !.sent = x] \in Requests
    BY DEF Requests
<1>10. \A x \in BOOLEAN : [r EXCEPT !.proxied = x] \in Requests
    BY DEF Requests
<1>11. \A x \in Replies \cup {Nothing} : [r EXCEPT !.upstream = x] \in Requests
    BY DEF Requests
<1>12. \A x \in Records : [r EXCEPT !.read = x] \in Requests
    BY DEF Requests
<1> QED BY <1>1, <1>2, <1>3, <1>4, <1>5, <1>6, <1>7, <1>8, <1>9, <1>10, <1>11, <1>12

LEMMA AnswerTyped ==
    ASSUME NEW r \in Requests, NEW status \in Statuses, NEW items \in SUBSET Items
    PROVE  [r EXCEPT !.pc = "answered", !.status = status, !.items = items] \in Requests
BY FieldTyped

LEMMA ReplyTyped ==
    ASSUME NEW r \in Requests, NEW status \in Statuses, NEW items \in SUBSET Items, NEW upstream \in Replies
    PROVE  [r EXCEPT !.pc = "answered", !.upstream = upstream, !.status = status, !.items = items] \in Requests
BY FieldTyped

LEMMA DiscoveryInitHolds == RequestInit => DiscoveryInv
<1> SUFFICES ASSUME RequestInit PROVE DiscoveryInv
    OBVIOUS
<1>1. RequestTypeOK
    BY DEF RequestInit, RequestTypeOK, NoRequest, Requests, Statuses, RelationshipTypes
<1>2. request.pc = "idle" /\ request.items = {} /\ request.upstream = Nothing /\ request.status = 0
    BY DEF RequestInit, NoRequest
<1>3. Steps
    BY <1>2 DEF Steps
<1>4. EdgesAreRestrictive
    BY <1>2 DEF EdgesAreRestrictive
<1>5. FailuresAreFailures
    <2>1. request.upstream \notin Replies
        BY <1>2, NothingAssumption
    <2>2. request.upstream # "503"
        BY <2>1 DEF Replies
    <2> QED BY <1>2, <2>1, <2>2 DEF FailuresAreFailures
<1>6. RegistryDecides
    BY <1>2 DEF RegistryDecides
<1> QED BY <1>1, <1>3, <1>4, <1>5, <1>6 DEF DiscoveryInv

-----------------------------------------------------------------------------
\* The docs pipeline writes while a request is on its way.
LEMMA ReplacingIsSafe ==
    ASSUME DiscoveryInv, ReplaceCatalog
    PROVE  DiscoveryInv'
<1>1. request' = request /\ request.pc \notin {"idle", "answered"}
    BY DEF ReplaceCatalog
<1>2. RequestTypeOK' /\ replaced' # 0
    BY DEF DiscoveryInv, RequestTypeOK, ReplaceCatalog
<1>3. request.items = {}
    BY <1>1 DEF DiscoveryInv, Steps
<1>4. Steps'
    BY <1>1, <1>2 DEF DiscoveryInv, Steps, Admits
<1>5. EdgesAreRestrictive' /\ RegistryDecides'
    BY <1>1, <1>3 DEF EdgesAreRestrictive, RegistryDecides
<1>6. FailuresAreFailures'
    <2>1. request.upstream \notin Replies /\ request.status = 0
        BY <1>1, NothingAssumption DEF DiscoveryInv, Steps
    <2>2. request.upstream # "503"
        BY <2>1 DEF Replies
    <2> QED BY <1>1, <1>3, <2>1, <2>2 DEF FailuresAreFailures
<1> QED BY <1>2, <1>4, <1>5, <1>6 DEF DiscoveryInv

LEMMA AnsweringTyped ==
    ASSUME RequestTypeOK, NEW status \in Statuses, NEW items \in SUBSET Items, Answer(status, items)
    PROVE  RequestTypeOK'
<1>1. request \in Requests
    BY DEF RequestTypeOK
<1>2. [request EXCEPT !.pc = "answered", !.status = status, !.items = items] \in Requests
    BY <1>1, AnswerTyped, Zenon
<1> QED BY <1>2 DEF RequestTypeOK, Answer

\* What holds of an answer that no upstream had a part in.
LEMMA AnswersHold ==
    ASSUME DiscoveryInv, request.pc # "answered",
           NEW status \in Statuses, NEW items \in SUBSET Items, Answer(status, items),
           items # {} => status = 200,
           status = 500 => catalog = Odd /\ request.asks = "records",
           ~ \E i \in items : i.kind = "model",
           EdgesAreRestrictive'
    PROVE  DiscoveryInv'
<1>1. request' = [request EXCEPT !.pc = "answered", !.status = status, !.items = items]
    BY DEF Answer
<1>2. request \in Requests
    BY DEF DiscoveryInv, RequestTypeOK
<1>3. RequestTypeOK'
    BY AnsweringTyped DEF DiscoveryInv
<1>4. /\ request'.pc = "answered" /\ request'.status = status /\ request'.items = items
      /\ request'.upstream = request.upstream /\ request'.asks = request.asks
      /\ catalog' = catalog
    BY <1>1, <1>2 DEF Requests, Answer
<1>5. Steps'
    BY <1>4 DEF Steps
<1>6. RegistryDecides'
    BY <1>4 DEF RegistryDecides
<1>7. FailuresAreFailures'
    <2>1. request.upstream \notin Replies
        BY NothingAssumption DEF DiscoveryInv, Steps
    <2>2. request.upstream # "503"
        BY <2>1 DEF Replies
    <2> QED BY <1>4, <2>1, <2>2 DEF FailuresAreFailures
<1> QED BY <1>3, <1>5, <1>6, <1>7 DEF DiscoveryInv

\* ... and not about the relationships of a service either.
LEMMA OtherAnswersHold ==
    ASSUME DiscoveryInv, request.pc # "answered",
           NEW status \in Statuses, NEW items \in SUBSET Items, Answer(status, items),
           items # {} => status = 200,
           status = 500 => catalog = Odd /\ request.asks = "records",
           ~ \E i \in items : i.kind = "model",
           items = {} \/ request.asks = "records" \/ request.entity # "service"
    PROVE  DiscoveryInv'
<1>1. request' = [request EXCEPT !.pc = "answered", !.status = status, !.items = items]
    BY DEF Answer
<1>2. request \in Requests
    BY DEF DiscoveryInv, RequestTypeOK
<1>3. request'.items = items /\ request'.asks = request.asks /\ request'.entity = request.entity
    BY <1>1, <1>2 DEF Requests
<1>4. EdgesAreRestrictive'
    BY <1>3 DEF EdgesAreRestrictive
<1> QED BY <1>4, AnswersHold

LEMMA ArrivingTyped ==
    ASSUME RequestTypeOK, Arrive
    PROVE  RequestTypeOK'
<1>1. PICK asks \in {"records", "relationships"}, entity \in Entities, type \in RelationshipTypes,
           service \in Services \cup {Nothing}, token \in Tokens \cup {Nothing}, proxied \in BOOLEAN :
        /\ asks = "records" => type = Nothing
        /\ entity \notin {"service", "api"} => service = Nothing
        /\ LET admitted == Admits(token, proxied) IN
           request' = [NoRequest EXCEPT
               !.pc = IF admitted THEN "route" ELSE "answered", !.status = IF admitted THEN 0 ELSE 401,
               !.asks = asks, !.entity = entity, !.type = type, !.service = service,
               !.token = token, !.proxied = proxied]
    BY Zenon DEF Arrive
<1> DEFINE pc == IF Admits(token, proxied) THEN "route" ELSE "answered"
           status == IF Admits(token, proxied) THEN 0 ELSE 401
<1>2. pc \in {"route", "answered"} /\ status \in {0, 401}
    OBVIOUS
<1>3. request' = [NoRequest EXCEPT !.pc = pc, !.status = status, !.asks = asks, !.entity = entity,
                      !.type = type, !.service = service, !.token = token, !.proxied = proxied]
    BY <1>1, Zenon
<1> HIDE DEF pc, status
<1>4. [NoRequest EXCEPT !.pc = pc, !.status = status] \in Requests
    <2>1. NoRequest \in Requests
        BY DEF NoRequest, Requests, Statuses, RelationshipTypes
    <2>2. [NoRequest EXCEPT !.pc = pc] \in Requests
        BY <1>2, <2>1, FieldTyped
    <2>3. status \in Statuses
        BY <1>2 DEF Statuses
    <2> QED BY <2>2, <2>3, FieldTyped, Zenon
<1>5. [NoRequest EXCEPT !.pc = pc, !.status = status, !.asks = asks, !.entity = entity] \in Requests
    BY <1>4, FieldTyped
<1>6. [NoRequest EXCEPT !.pc = pc, !.status = status, !.asks = asks, !.entity = entity,
                        !.type = type, !.service = service] \in Requests
    BY <1>5, FieldTyped
<1>7. request' \in Requests
    BY <1>3, <1>6, FieldTyped
<1> QED BY <1>7 DEF RequestTypeOK, Arrive

LEMMA ArrivingIsSafe ==
    ASSUME DiscoveryInv, Arrive
    PROVE  DiscoveryInv'
<1>1. PICK asks \in {"records", "relationships"}, entity \in Entities, type \in RelationshipTypes,
           service \in Services \cup {Nothing}, token \in Tokens \cup {Nothing}, proxied \in BOOLEAN :
        /\ asks = "records" => type = Nothing
        /\ entity \notin {"service", "api"} => service = Nothing
        /\ LET admitted == Admits(token, proxied) IN
           request' = [NoRequest EXCEPT
               !.pc = IF admitted THEN "route" ELSE "answered", !.status = IF admitted THEN 0 ELSE 401,
               !.asks = asks, !.entity = entity, !.type = type, !.service = service,
               !.token = token, !.proxied = proxied]
    BY Zenon DEF Arrive
<1>2. /\ request'.pc = IF Admits(token, proxied) THEN "route" ELSE "answered"
      /\ request'.status = IF Admits(token, proxied) THEN 0 ELSE 401
      /\ request'.asks = asks /\ request'.items = {} /\ request'.upstream = Nothing
      /\ request'.token = token /\ request'.proxied = proxied
    BY <1>1 DEF NoRequest
<1>3. RequestTypeOK'
    BY ArrivingTyped DEF DiscoveryInv
<1>4. Steps'
    BY <1>2 DEF Steps
<1>5. EdgesAreRestrictive' /\ RegistryDecides'
    BY <1>2 DEF EdgesAreRestrictive, RegistryDecides
<1>6. FailuresAreFailures'
    <2>1. request'.upstream \notin Replies
        BY <1>2, NothingAssumption
    <2>2. request'.upstream # "503"
        BY <2>1 DEF Replies
    <2>3. request'.status \notin {200, 500}
        BY <1>2
    <2> QED BY <1>2, <2>1, <2>2, <2>3 DEF FailuresAreFailures
<1> QED BY <1>3, <1>4, <1>5, <1>6 DEF DiscoveryInv

\* A request that goes on to its first call.
LEMMA CallingIsSafe ==
    ASSUME DiscoveryInv, request.pc = "route", NEW pc \in {"call", "first"}, Call(pc),
           pc = "call" /\ request.asks = "relationships" => request.entity = "tool",
           pc = "first" => /\ request.asks = "relationships" /\ request.entity = "service"
                           /\ request.service \in Services
    PROVE  DiscoveryInv'
<1>1. request' = [request EXCEPT !.pc = pc, !.sent = request.token]
    BY DEF Call, Forwarded
<1>2. request \in Requests
    BY DEF DiscoveryInv, RequestTypeOK
<1>3. RequestTypeOK'
    <2>1. request' \in Requests
        BY <1>1, <1>2 DEF Requests
    <2> QED BY <2>1 DEF DiscoveryInv, RequestTypeOK, Call
<1>4. /\ request'.pc = pc /\ request'.sent = request'.token
      /\ request'.items = request.items /\ request'.upstream = request.upstream
      /\ request'.status = request.status /\ request'.asks = request.asks
      /\ request'.entity = request.entity /\ request'.service = request.service
      /\ request'.token = request.token /\ request'.proxied = request.proxied
    BY <1>1, <1>2 DEF Requests
<1>5. request.items = {} /\ request.upstream = Nothing /\ request.status = 0
    BY DEF DiscoveryInv, Steps
<1>6. Steps'
    BY <1>4, <1>5 DEF DiscoveryInv, Steps
<1>7. EdgesAreRestrictive' /\ RegistryDecides'
    BY <1>4, <1>5 DEF EdgesAreRestrictive, RegistryDecides
<1>8. FailuresAreFailures'
    <2>1. request'.upstream \notin Replies
        BY <1>4, <1>5, NothingAssumption
    <2>2. request'.upstream # "503"
        BY <2>1 DEF Replies
    <2> QED BY <1>4, <1>5, <2>1, <2>2 DEF FailuresAreFailures
<1> QED BY <1>3, <1>6, <1>7, <1>8 DEF DiscoveryInv

\* A request that is refused or has nothing to be told.
LEMMA EmptyAnswersHold ==
    ASSUME DiscoveryInv, request.pc # "answered", NEW status \in Statuses \ {500}, Answer(status, {})
    PROVE  DiscoveryInv'
<1>1. {} \in SUBSET Items /\ status \in Statuses /\ status # 500
    OBVIOUS
<1> QED BY <1>1, OtherAnswersHold

LEMMA RoutingRecordsIsSafe ==
    ASSUME DiscoveryInv, RouteRecords
    PROVE  DiscoveryInv'
<1>1. request.pc = "route" /\ request.asks = "records"
    BY DEF RouteRecords
<1>2. CASE Answer(200, {[kind |-> "next_route"]})
    <2> DEFINE items == {[kind |-> "next_route"]}
    <2>1. items \in SUBSET Items /\ 200 \in Statuses /\ Answer(200, items)
        BY <1>2 DEF Items, Statuses
    <2>2. ~ \E i \in items : i.kind = "model"
        OBVIOUS
    <2> HIDE DEF items
    <2> QED BY <1>1, <2>1, <2>2, OtherAnswersHold
<1>3. CASE Answer(400, {})
    <2>1. 400 \in Statuses \ {500}
        BY DEF Statuses
    <2> QED BY <1>1, <1>3, <2>1, EmptyAnswersHold
<1>4. CASE Answer(501, {})
    <2>1. 501 \in Statuses \ {500}
        BY DEF Statuses
    <2> QED BY <1>1, <1>4, <2>1, EmptyAnswersHold
<1>5. CASE Call("call")
    BY <1>1, <1>5, CallingIsSafe
<1> QED BY <1>1, <1>2, <1>3, <1>4, <1>5 DEF RouteRecords

LEMMA RoutingRelationshipsIsSafe ==
    ASSUME DiscoveryInv, RouteRelationships
    PROVE  DiscoveryInv'
<1>1. request.pc = "route" /\ request.asks = "relationships"
    BY DEF RouteRelationships
<1>2. request \in Requests
    BY DEF DiscoveryInv, RequestTypeOK
<1>3. ASSUME NEW status \in {200, 404, 422, 501}, Answer(status, {}) PROVE DiscoveryInv'
    <2>1. status \in Statuses \ {500}
        BY DEF Statuses
    <2> QED BY <1>1, <1>3, <2>1, EmptyAnswersHold
<1>4. CASE request.entity = "service" /\ request.service # Nothing /\ Call("first")
    <2>1. request.service \in Services
        BY <1>2, <1>4 DEF Requests
    <2> QED BY <1>1, <1>4, <2>1, CallingIsSafe
<1>5. CASE request.entity = "tool" /\ Call("call")
    BY <1>1, <1>5, CallingIsSafe
<1> QED BY <1>1, <1>3, <1>4, <1>5 DEF RouteRelationships

-----------------------------------------------------------------------------
\* What a service answered, and what the adapter made of it.
Replied(reply, status, items) ==
    /\ request' = [request EXCEPT !.pc = "answered", !.upstream = reply, !.status = status, !.items = items]
    /\ UNCHANGED <<catalog, replaced>>

Honest(reply, status, items) ==
    /\ reply \in Replies \ {"object", "odd"} => status \notin {200, 500}
    /\ status = 500 => reply = "odd" /\ request.asks = "relationships"
    /\ reply = "503" => status = IF request.entity = "tool" THEN 503 ELSE 502
    /\ items # {} => status = 200
    /\ (\E i \in items : i.kind = "model") => request.token \in Granted

LEMMA ReplyingTyped ==
    ASSUME RequestTypeOK, NEW status \in Statuses, NEW items \in SUBSET Items, NEW reply \in Replies,
           Replied(reply, status, items)
    PROVE  RequestTypeOK'
<1>1. request \in Requests
    BY DEF RequestTypeOK
<1>2. [request EXCEPT !.pc = "answered", !.upstream = reply, !.status = status, !.items = items] \in Requests
    BY <1>1, ReplyTyped, Zenon
<1> QED BY <1>2 DEF RequestTypeOK, Replied

LEMMA RepliesHold ==
    ASSUME DiscoveryInv, request.pc = "call", request.entity \in {"tool", "model"},
           NEW status \in Statuses, NEW items \in SUBSET Items, NEW reply \in Replies,
           Replied(reply, status, items), Honest(reply, status, items)
    PROVE  DiscoveryInv'
<1>1. request \in Requests
    BY DEF DiscoveryInv, RequestTypeOK
<1>2. /\ request'.pc = "answered" /\ request'.status = status /\ request'.items = items
      /\ request'.upstream = reply /\ request'.asks = request.asks /\ request'.entity = request.entity
      /\ request'.token = request.token /\ request'.proxied = request.proxied
    BY <1>1 DEF Requests, Replied
<1>3. RequestTypeOK'
    BY ReplyingTyped DEF DiscoveryInv
<1>4. Steps' /\ EdgesAreRestrictive'
    BY <1>2 DEF Steps, EdgesAreRestrictive
<1>5. FailuresAreFailures'
    BY <1>2 DEF FailuresAreFailures, Honest
<1>6. RegistryDecides'
    BY <1>2 DEF DiscoveryInv, Steps, RegistryDecides, Admits, Honest
<1> QED BY <1>3, <1>4, <1>5, <1>6 DEF DiscoveryInv

\* The status of what came back is one of the hub's, and never 500.
LEMMA RepliesHaveStatuses ==
    ASSUME NEW source \in {"tes", "registry"}, NEW reply \in Replies
    PROVE  /\ StatusOfReply(source, reply) \in Statuses \ {500}
           /\ StatusOfReply(source, reply) = 200 <=> reply \in {"object", "odd"}
           /\ reply = "503" => StatusOfReply(source, reply) = IF source = "tes" THEN 503 ELSE 502
BY DEF StatusOfReply, Replies, Statuses

LEMMA CallingTesIsSafe ==
    ASSUME DiscoveryInv, CallTes
    PROVE  DiscoveryInv'
<1>1. request.pc = "call" /\ request.entity = "tool" /\ UNCHANGED <<catalog, replaced>>
    BY DEF CallTes
<1> DEFINE edges == request.asks = "relationships"
           StatusOf(reply, noBackends) ==
               IF noBackends THEN 422
               ELSE IF edges /\ reply = "odd" THEN 500 ELSE StatusOfReply("tes", reply)
           ItemsOf(status) == IF status = 200 THEN {[kind |-> IF edges THEN "backend" ELSE "tool"]} ELSE {}
<1>2. PICK reply \in Replies :
          \E noBackends \in {b \in BOOLEAN : b => edges /\ StatusOfReply("tes", reply) = 200} :
              request' = [request EXCEPT !.pc = "answered", !.upstream = reply,
                                         !.status = StatusOf(reply, noBackends),
                                         !.items = ItemsOf(StatusOf(reply, noBackends))]
    BY Zenon DEF CallTes
<1>3. PICK noBackends \in {b \in BOOLEAN : b => edges /\ StatusOfReply("tes", reply) = 200} :
          request' = [request EXCEPT !.pc = "answered", !.upstream = reply,
                                     !.status = StatusOf(reply, noBackends),
                                     !.items = ItemsOf(StatusOf(reply, noBackends))]
    BY <1>2
<1> DEFINE status == StatusOf(reply, noBackends)
           items == ItemsOf(status)
<1>4. /\ StatusOfReply("tes", reply) \in Statuses \ {500}
      /\ StatusOfReply("tes", reply) = 200 <=> reply \in {"object", "odd"}
      /\ reply = "503" => StatusOfReply("tes", reply) = 503
    BY RepliesHaveStatuses
<1>5. /\ status \in Statuses
      /\ reply \in Replies \ {"object", "odd"} => status \notin {200, 500}
      /\ status = 500 => reply = "odd" /\ edges
      /\ reply = "503" => status = 503
    BY <1>4 DEF Statuses
<1>6. /\ items \in SUBSET Items /\ (items # {} => status = 200)
      /\ ~ \E i \in items : i.kind = "model"
    BY DEF Items
<1>7. Replied(reply, status, items)
    BY <1>1, <1>3, Zenon DEF Replied
<1>8. Honest(reply, status, items)
    BY <1>1, <1>5, <1>6 DEF Honest
<1> HIDE DEF status, items
<1> QED BY <1>1, <1>5, <1>6, <1>7, <1>8, RepliesHold

LEMMA CallingRegistryIsSafe ==
    ASSUME DiscoveryInv, CallRegistry
    PROVE  DiscoveryInv'
<1>1. request.pc = "call" /\ request.entity = "model" /\ UNCHANGED <<catalog, replaced>>
    BY DEF CallRegistry
<1> DEFINE ItemsOf(status) == IF status = 200 THEN {[kind |-> "model"]} ELSE {}
<1>2. PICK reply \in Replies :
          /\ reply \in {"object", "odd"} => request.sent \in Granted
          /\ request' = [request EXCEPT !.pc = "answered", !.upstream = reply,
                                        !.status = StatusOfReply("registry", reply),
                                        !.items = ItemsOf(StatusOfReply("registry", reply))]
    BY Zenon DEF CallRegistry
<1> DEFINE status == StatusOfReply("registry", reply)
           items == ItemsOf(status)
<1>3. /\ status \in Statuses \ {500}
      /\ status = 200 <=> reply \in {"object", "odd"}
      /\ reply = "503" => status = 502
    BY RepliesHaveStatuses
<1>4. items \in SUBSET Items /\ (items # {} => status = 200)
    BY DEF Items
<1>5. Replied(reply, status, items)
    BY <1>1, <1>2, Zenon DEF Replied
<1>6. Honest(reply, status, items)
    <2>1. items # {} => request.token \in Granted
        BY <1>1, <1>2, <1>3, <1>4 DEF DiscoveryInv, Steps
    <2> HIDE DEF status, items
    <2> QED BY <1>1, <1>3, <1>4, <2>1 DEF Honest
<1> HIDE DEF status, items
<1> QED BY <1>1, <1>3, <1>4, <1>5, <1>6, RepliesHold
-----------------------------------------------------------------------------
\* What a readable catalog lists are records with classes of its own.
LEMMA RecordsAreItems ==
    ASSUME NEW file \in Records, NEW service
    PROVE  /\ ServiceRecords(file) \subseteq Items /\ ApiRecords(file, service) \subseteq Items
           /\ \A i \in ServiceRecords(file) \cup ApiRecords(file, service) : i.kind # "model"
<1>1. \A s \in Services : file.service[s] # "absent" => file.service[s] \in Visibility
    BY DEF Records
<1>2. \A a \in Apis : file.api[a] # "absent" => file.api[a] \in Visibility
    BY DEF Records
<1>3. \A s \in Services, v \in Visibility : [kind |-> "service", id |-> s, visibility |-> v] \in Items
    BY DEF Items
<1>4. \A a \in Apis, v \in Visibility : [kind |-> "api", id |-> a, visibility |-> v] \in Items
    BY DEF Items
<1>5. ServiceRecords(file) \subseteq Items /\ \A i \in ServiceRecords(file) : i.kind # "model"
    BY <1>1, <1>3 DEF ServiceRecords
<1>6. ApiRecords(file, service) \subseteq Items /\ \A i \in ApiRecords(file, service) : i.kind # "model"
    BY <1>2, <1>4 DEF ApiRecords, RoutesOf
<1> QED BY <1>5, <1>6

LEMMA CatalogsHaveStatuses ==
    ASSUME NEW file
    PROVE  /\ StatusOfCatalog(file) \in Statuses \ {500}
           /\ StatusOfCatalog(file) = 200 <=> file \notin {Unreadable, Malformed}
BY DEF StatusOfCatalog, Statuses

LEMMA ReadingRecordsIsSafe ==
    ASSUME DiscoveryInv, ReadRecords
    PROVE  DiscoveryInv'
<1>1. request.pc = "call" /\ request.entity \in {"service", "api"} /\ request.asks = "records"
    BY DEF ReadRecords, DiscoveryInv, Steps
<1>2. {} \in SUBSET Items /\ {200, 404, 500} \subseteq Statuses
    BY DEF Statuses
<1>3. CASE StatusOfCatalog(catalog) # 200
    <2>1. Answer(StatusOfCatalog(catalog), {})
        BY <1>3 DEF ReadRecords
    <2> QED BY <1>1, <2>1, CatalogsHaveStatuses, EmptyAnswersHold
<1>4. CASE StatusOfCatalog(catalog) = 200 /\ catalog = Odd
    <2>1. CASE Answer(500, {})
        BY <1>1, <1>2, <1>4, <2>1, OtherAnswersHold
    <2>2. CASE Answer(200, {})
        BY <1>1, <1>2, <1>4, <2>2, OtherAnswersHold
    <2> QED BY <1>4, <2>1, <2>2 DEF ReadRecords
<1>5. CASE StatusOfCatalog(catalog) = 200 /\ catalog # Odd
    <2>1. catalog \in Records
        BY <1>5, CatalogsHaveStatuses DEF DiscoveryInv, RequestTypeOK, Broken
    <2>2. ASSUME NEW items \in SUBSET (ServiceRecords(catalog) \cup ApiRecords(catalog, request.service)),
                 Answer(200, items)
          PROVE  DiscoveryInv'
        <3>1. items \in SUBSET Items /\ ~ \E i \in items : i.kind = "model"
            BY <2>1, RecordsAreItems
        <3> QED BY <1>1, <1>2, <2>2, <3>1, OtherAnswersHold
    <2>3. CASE Answer(404, {})
        BY <1>1, <1>2, <2>3, OtherAnswersHold
    <2>4. CASE Answer(200, ApiRecords(catalog, request.service))
        BY <2>2, <2>4
    <2>5. CASE Answer(200, {r \in ServiceRecords(catalog) : request.service \in {r.id, Nothing}})
        BY <2>2, <2>5
    <2> QED BY <1>5, <2>3, <2>4, <2>5, Zenon DEF ReadRecords
<1> QED BY <1>3, <1>4, <1>5

-----------------------------------------------------------------------------
\* The first of the two reads is remembered.
LEMMA ReadingServiceIsSafe ==
    ASSUME DiscoveryInv, ReadService
    PROVE  DiscoveryInv'
<1>1. request.pc = "first" /\ request \in Requests
    BY DEF ReadService, DiscoveryInv, RequestTypeOK
<1>2. CASE catalog \in Broken
    <2> DEFINE status == IF catalog = Odd THEN 503 ELSE StatusOfCatalog(catalog)
    <2>1. status \in Statuses \ {500}
        BY CatalogsHaveStatuses DEF Statuses
    <2>2. Answer(status, {})
        BY <1>2 DEF ReadService
    <2> HIDE DEF status
    <2> QED BY <1>1, <2>1, <2>2, EmptyAnswersHold
<1>3. CASE Answer(404, {})
    <2>1. 404 \in Statuses \ {500}
        BY DEF Statuses
    <2> QED BY <1>1, <1>3, <2>1, EmptyAnswersHold
<1>4. CASE /\ catalog \notin Broken
           /\ request' = [request EXCEPT !.pc = "second", !.read = catalog]
           /\ UNCHANGED <<catalog, replaced>>
    <2>1. catalog \in Records
        BY <1>4 DEF DiscoveryInv, RequestTypeOK
    <2>2. /\ request'.pc = "second" /\ request'.read = catalog /\ request'.sent = request.sent
          /\ request'.items = request.items /\ request'.upstream = request.upstream
          /\ request'.status = request.status /\ request'.asks = request.asks
          /\ request'.entity = request.entity /\ request'.service = request.service
          /\ request'.token = request.token /\ request'.proxied = request.proxied
        BY <1>1, <1>4 DEF Requests
    <2>3. request.items = {} /\ request.upstream = Nothing /\ request.status = 0
        BY <1>1 DEF DiscoveryInv, Steps
    <2>4. RequestTypeOK'
        <3>1. request' \in Requests
            BY <1>1, <1>4, <2>1, FieldTyped
        <3> QED BY <1>4, <3>1 DEF DiscoveryInv, RequestTypeOK
    <2>5. Steps'
        BY <1>1, <1>4, <2>1, <2>2, <2>3 DEF DiscoveryInv, Steps
    <2>6. EdgesAreRestrictive' /\ RegistryDecides'
        BY <2>2, <2>3 DEF EdgesAreRestrictive, RegistryDecides
    <2>7. FailuresAreFailures'
        <3>1. request'.upstream \notin Replies
            BY <2>2, <2>3, NothingAssumption
        <3>2. request'.upstream # "503"
            BY <3>1 DEF Replies
        <3> QED BY <2>2, <2>3, <3>1, <3>2 DEF FailuresAreFailures
    <2> QED BY <2>4, <2>5, <2>6, <2>7 DEF DiscoveryInv
<1> QED BY <1>2, <1>3, <1>4 DEF ReadService

\* An edge has the class of both its ends or the restrictive one.
LEMMA EdgesHold ==
    ASSUME NEW file \in Records, NEW service \in Services, NEW class \in Visibility \cup {"absent"}
    PROVE  /\ Edges(file, service, class) \subseteq Items
           /\ \A e \in Edges(file, service, class) :
                  /\ e.kind = "edge"
                  /\ e.visibility \in Visibility => e.visibility = class /\ e.visibility = file.api[e.id]
           /\ {e.id : e \in Edges(file, service, class)} =
                  {a \in Apis : file.api[a] # "absent" /\ OwnerOf[a] = service}
<1> DEFINE Edge(a) == [kind |-> "edge", id |-> a, visibility |-> EdgeVisibility(class, file.api[a])]
<1>1. RoutesOf(file, service) = {a \in Apis : file.api[a] # "absent" /\ OwnerOf[a] = service}
    BY NothingAssumption DEF RoutesOf
<1>2. \A a \in Apis : file.api[a] # "absent" =>
          /\ EdgeVisibility(class, file.api[a]) \in Visibility \cup {"RESTRICTIVE_INTERSECTION"}
          /\ EdgeVisibility(class, file.api[a]) \in Visibility =>
                 EdgeVisibility(class, file.api[a]) = class /\ class = file.api[a]
    BY VisibilityAssumption DEF EdgeVisibility, Records
<1>3. \A a \in Apis, v \in Visibility \cup {"RESTRICTIVE_INTERSECTION"} :
          [kind |-> "edge", id |-> a, visibility |-> v] \in Items
    BY DEF Items
<1>4. Edges(file, service, class) = {Edge(a) : a \in RoutesOf(file, service)}
    BY DEF Edges
<1>5. \A a \in RoutesOf(file, service) :
          /\ Edge(a) \in Items /\ Edge(a).kind = "edge" /\ Edge(a).id = a
          /\ Edge(a).visibility \in Visibility =>
                 Edge(a).visibility = class /\ Edge(a).visibility = file.api[Edge(a).id]
    BY <1>1, <1>2, <1>3
<1> HIDE DEF Edge
<1> QED BY <1>1, <1>4, <1>5

\* The second read joins the first.
LEMMA ReadingApisIsSafe ==
    ASSUME DiscoveryInv, ReadApis
    PROVE  DiscoveryInv'
<1>1. /\ request.pc = "second" /\ request.asks = "relationships" /\ request.entity = "service"
      /\ request.service \in Services /\ request.read \in Records
      /\ replaced = 0 => request.read = catalog
    BY DEF ReadApis, DiscoveryInv, Steps
<1>2. request \in Requests /\ {200, 503} \subseteq Statuses \ {500}
    BY DEF DiscoveryInv, RequestTypeOK, Statuses
<1>3. CASE StatusOfCatalog(catalog) # 200
    <2>1. Answer(StatusOfCatalog(catalog), {})
        BY <1>3 DEF ReadApis
    <2> QED BY <1>1, <2>1, CatalogsHaveStatuses, EmptyAnswersHold
<1>4. CASE Answer(503, {})
    BY <1>1, <1>2, <1>4, EmptyAnswersHold
<1>5. CASE Answer(200, {})
    BY <1>1, <1>2, <1>5, EmptyAnswersHold
<1>6. CASE /\ StatusOfCatalog(catalog) = 200 /\ catalog # Odd
           /\ Answer(200, Edges(catalog, request.service, request.read.service[request.service]))
    <2> DEFINE class == request.read.service[request.service]
               items == Edges(catalog, request.service, class)
    <2>1. catalog \in Records
        BY <1>6, CatalogsHaveStatuses DEF DiscoveryInv, RequestTypeOK, Broken
    <2>2. class \in Visibility \cup {"absent"}
        BY <1>1 DEF Records
    <2> HIDE DEF class
    <2>3. /\ items \subseteq Items
          /\ \A e \in items :
                 /\ e.kind = "edge"
                 /\ e.visibility \in Visibility => e.visibility = class /\ e.visibility = catalog.api[e.id]
          /\ {e.id : e \in items} = {a \in Apis : catalog.api[a] # "absent" /\ OwnerOf[a] = request.service}
        BY <1>1, <2>1, <2>2, EdgesHold
    <2>4. Answer(200, items)
        BY <1>6 DEF class
    <2> HIDE DEF items
    <2>5. /\ request'.items = items /\ request'.read = request.read /\ request'.service = request.service
          /\ catalog' = catalog /\ replaced' = replaced
        BY <1>2, <2>4 DEF Answer, Requests
    <2>6. EdgesAreRestrictive'
        BY <1>1, <2>3, <2>5 DEF EdgesAreRestrictive, class
    <2>7. ~ \E i \in items : i.kind = "model"
        BY <2>3
    <2> QED BY <1>1, <1>2, <2>3, <2>4, <2>6, <2>7, AnswersHold
<1> QED BY <1>3, <1>4, <1>5, <1>6 DEF ReadApis

-----------------------------------------------------------------------------
LEMMA RequestSteps ==
    ASSUME DiscoveryInv, [RequestNext]_discoveryVars
    PROVE  DiscoveryInv'
<1>1. CASE Arrive
    BY <1>1, ArrivingIsSafe
<1>2. CASE ReplaceCatalog
    BY <1>2, ReplacingIsSafe
<1>3. CASE RouteRecords
    BY <1>3, RoutingRecordsIsSafe
<1>4. CASE RouteRelationships
    BY <1>4, RoutingRelationshipsIsSafe
<1>5. CASE CallTes
    BY <1>5, CallingTesIsSafe
<1>6. CASE CallRegistry
    BY <1>6, CallingRegistryIsSafe
<1>7. CASE ReadRecords
    BY <1>7, ReadingRecordsIsSafe
<1>8. CASE ReadService
    BY <1>8, ReadingServiceIsSafe
<1>9. CASE ReadApis
    BY <1>9, ReadingApisIsSafe
<1>10. CASE UNCHANGED discoveryVars
    BY <1>10 DEF DiscoveryInv, RequestTypeOK, Steps, EdgesAreRestrictive, FailuresAreFailures, RegistryDecides,
                 discoveryVars, Admits
<1> QED BY <1>1, <1>2, <1>3, <1>4, <1>5, <1>6, <1>7, <1>8, <1>9, <1>10 DEF RequestNext, Serve

LEMMA Invariance == RequestSpec => []DiscoveryInv
<1>1. RequestInit => DiscoveryInv
    BY DiscoveryInitHolds
<1>2. DiscoveryInv /\ [RequestNext]_discoveryVars => DiscoveryInv'
    BY RequestSteps
<1> QED BY <1>1, <1>2, PTL DEF RequestSpec

\* A request is always one of the handler's, with an answer of its kind.
THEOREM RequestTypeCorrect == RequestSpec => []RequestTypeOK
<1>1. DiscoveryInv => RequestTypeOK
    BY DEF DiscoveryInv
<1> QED BY <1>1, Invariance, PTL

\* Whenever and however often the catalog is replaced between the two reads
\* of relationship_discovery.service_apis, an edge shows a class only if both
\* its ends had it, and every edge of an undisturbed catalog is there.
THEOREM EdgesStayRestrictive == RequestSpec => []EdgesAreRestrictive
<1>1. DiscoveryInv => EdgesAreRestrictive
    BY DEF DiscoveryInv
<1> QED BY <1>1, Invariance, PTL

\* No failure of TES, of the registry or of the catalog file is told as a
\* success or, but for the shape of nested fields, as a fault of the hub.
THEOREM FailuresStayFailures == RequestSpec => []FailuresAreFailures
<1>1. DiscoveryInv => FailuresAreFailures
    BY DEF DiscoveryInv
<1> QED BY <1>1, Invariance, PTL

\* Whoever is shown a model's metadata sent a header the registry accepts,
\* through an entrance of the hub: the header is forwarded as it came.
THEOREM RegistryStaysAuthority == RequestSpec => []RegistryDecides
<1>1. DiscoveryInv => RegistryDecides
    BY DEF DiscoveryInv
<1> QED BY <1>1, Invariance, PTL
=============================================================================
