----------------------------- MODULE AskPromise -----------------------------
(***************************************************************************)
(* What POST /rag/stream promises its caller, whatever the model behind it *)
(* says: one response or one error, never both; a grounded response cites  *)
(* at least one excerpt it was given; a response that is not grounded      *)
(* cites nothing; the language model is not called without an excerpt.     *)
(* The promise is the docstring of api/routes/rag.py `stream` and the      *)
(* header of rag/answering.py.  AskServer implements it, AskChat reads it. *)
(***************************************************************************)
EXTENDS Naturals, Sequences, FiniteSets

CONSTANTS
    Questions,      \* requests, one per question asked
    Chunks,         \* documentation excerpts a citation can name
    MaxContext      \* most excerpts one answer is given

VARIABLE stream     \* [Questions -> state of the request and events sent]

Citations == [index : 1 .. MaxContext, chunk : Chunks]

\* The fields of the `response` event.  `about` is the question the answer
\* was computed for: the handler closes over its own request.
Responses ==
    [about : Questions, grounded : BOOLEAN, citations : SUBSET Citations,
     context_used : 0 .. MaxContext, llm_invoked : BOOLEAN]

Promised(q) ==
    {r \in Responses :
        /\ r.about = q
        /\ r.grounded <=> r.citations # {}
        /\ r.grounded => r.llm_invoked
        /\ r.llm_invoked => r.context_used > 0
        /\ \A c \in r.citations :
            /\ c.index <= r.context_used
            /\ \A d \in r.citations : d.index = c.index => d = c}

Status == [type |-> "status"]
Response(r) == [type |-> "response", result |-> r]
Done == [type |-> "done"]
Failure == [type |-> "error"]

Types(q) == [i \in DOMAIN stream[q].events |-> stream[q].events[i].type]

Send(q, e) == stream' = [stream EXCEPT ![q].events = Append(@, e)]
SendLast(q, e) == stream' = [stream EXCEPT ![q] =
                                [state |-> "ended", events |-> Append(@.events, e)]]
-----------------------------------------------------------------------------
Init == stream = [q \in Questions |-> [state |-> "idle", events |-> <<>>]]

Ask(q) ==
    /\ stream[q].state = "idle"
    /\ stream' = [stream EXCEPT ![q].state = "open"]

\* An HTTP error status instead of a stream: no token, not ready, bad body.
Refuse(q) ==
    /\ stream[q].state = "open"
    /\ stream[q].events = <<>>
    /\ stream' = [stream EXCEPT ![q].state = "refused"]

SendStatus(q) ==
    /\ stream[q].state = "open"
    /\ stream[q].events = <<>>
    /\ Send(q, Status)

SendResponse(q) ==
    /\ stream[q].state = "open"
    /\ Types(q) = <<"status">>
    /\ \E r \in Promised(q) : Send(q, Response(r))

SendDone(q) ==
    /\ stream[q].state = "open"
    /\ Types(q) = <<"status", "response">>
    /\ SendLast(q, Done)

\* An exception before the response; the stream ends with the error event.
SendFailure(q) ==
    /\ stream[q].state = "open"
    /\ \A i \in DOMAIN stream[q].events : stream[q].events[i].type # "response"
    /\ SendLast(q, Failure)

Serve(q) ==
    \/ Refuse(q)
    \/ SendStatus(q)
    \/ SendResponse(q)
    \/ SendDone(q)
    \/ SendFailure(q)

Next == \E q \in Questions : Ask(q) \/ Serve(q)

Spec == Init /\ [][Next]_stream
=============================================================================
