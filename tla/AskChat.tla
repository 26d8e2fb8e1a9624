------------------------------ MODULE AskChat -------------------------------
(***************************************************************************)
(* The Ask page and the stream it reads: pages/ChatPage.tsx on top of      *)
(* api/client.ts `ragStream`, against any server that keeps AskPromise.    *)
(*                                                                         *)
(* The network delivers the event stream in pieces that end anywhere: an   *)
(* event is two half-events, a read returns at least one of them, and the  *)
(* client acts on an event when its second half is in the buffer.  Every   *)
(* call of ragStream has callbacks that change the LAST message of the     *)
(* page, whichever question that message belongs to; the page blocks a new *)
(* question by `loading`, which the response already clears, not by the    *)
(* end of the stream.                                                      *)
(*                                                                         *)
(* A message is the reply bubble of one question; its text is that of its  *)
(* result, or the error, or empty.                                         *)
(***************************************************************************)
EXTENDS Integers, Sequences

CONSTANTS
    Questions, Chunks, MaxContext,  \* as in AskPromise
    Null

ASSUME MaxContextAssumption == MaxContext \in Nat

VARIABLES
    stream,         \* what the server sent, as in AskPromise
    got,            \* half-events of each question the client has read
    reading,        \* the questions whose ragStream call has not returned
    messages,       \* the page's reply bubbles, oldest first
    loading,        \* the page's `loading`
    early           \* a question was asked before an earlier stream closed

vars == <<stream, got, reading, messages, loading, early>>

Promise == INSTANCE AskPromise

Bubble == [asked : Questions, streaming : BOOLEAN, error : BOOLEAN,
           result : Promise!Responses \cup {Null}]

TypeOK ==
    /\ got \in [Questions -> 0 .. 6]
    /\ reading \subseteq Questions
    /\ messages \in Seq(Bubble)
    /\ loading \in BOOLEAN
    /\ early \in BOOLEAN
-----------------------------------------------------------------------------
(* The callbacks `send` gives to ragStream: what each makes of a bubble. *)

OnDone(m) == [m EXCEPT !.streaming = FALSE]

OnError(m) == [m EXCEPT !.streaming = FALSE, !.error = TRUE, !.result = Null]

OnResult(m, result) == [m EXCEPT !.streaming = FALSE, !.result = result]

\* Mutant: the first bubble.
Target_First == 1

\* The bubble they change: the last one, whoever calls.
Target == Len(messages)

\* A callback that ends the search with bubble m.
Turn(m) ==
    /\ messages' = [messages EXCEPT ![Target] = m]
    /\ loading' = FALSE

\* Mutant: any event ends the search.
OnEvent_StatusEnds(e) ==
    \/ e.type = "response" /\ Turn(OnDone(OnResult(messages[Target], e.result)))
    \/ e.type = "error"    /\ Turn(OnError(messages[Target]))
    \/ e.type \notin {"response", "error"} /\ Turn(OnDone(messages[Target]))

\* One parsed event; no answer is empty, so a response calls onDone as well.
OnEvent(e) ==
    \/ e.type = "status"   /\ UNCHANGED <<messages, loading>>
    \/ e.type = "response" /\ Turn(OnDone(OnResult(messages[Target], e.result)))
    \/ e.type = "done"     /\ Turn(OnDone(messages[Target]))
    \/ e.type = "error"    /\ Turn(OnError(messages[Target]))

\* The events of question q that have arrived in full.
Arrived(q) == got[q] \div 2
-----------------------------------------------------------------------------
Init ==
    /\ Promise!Init
    /\ got = [q \in Questions |-> 0]
    /\ reading = {}
    /\ messages = <<>>
    /\ loading = FALSE
    /\ early = FALSE

\* Mutant: no check of `loading`, as Enter would have without it.
Send_Unguarded(q) ==
    /\ Promise!Ask(q)
    /\ loading' = TRUE
    /\ messages' = Append(messages, [asked |-> q, streaming |-> TRUE,
                                     error |-> FALSE, result |-> Null])
    /\ reading' = reading \cup {q}
    /\ early' = (early \/ reading # {})
    /\ UNCHANGED got

Send(q) ==
    /\ ~loading
    /\ Promise!Ask(q)
    /\ loading' = TRUE
    /\ messages' = Append(messages, [asked |-> q, streaming |-> TRUE,
                                     error |-> FALSE, result |-> Null])
    /\ reading' = reading \cup {q}
    /\ early' = (early \/ reading # {})
    /\ UNCHANGED got

Serve(q) ==
    /\ Promise!Serve(q)
    /\ UNCHANGED <<got, reading, messages, loading, early>>

\* Mutant: an event is handled when it has begun to arrive, not when it ends.
Read_Early(q) ==
    /\ q \in reading
    /\ \E n \in got[q] + 1 .. 2 * Len(stream[q].events) :
        /\ (n + 1) \div 2 <= (got[q] + 1) \div 2 + 1
        /\ got' = [got EXCEPT ![q] = n]
        /\ IF (n + 1) \div 2 = (got[q] + 1) \div 2 THEN UNCHANGED <<messages, loading>>
           ELSE OnEvent(stream[q].events[(n + 1) \div 2])
    /\ UNCHANGED <<stream, reading, early>>

\* reader.read() returned some bytes: the event that is complete with them is
\* handled, the rest stays in `buffer`.  The events of a piece that completes
\* several are handled one after another, as those of as many pieces.
Read(q) ==
    /\ q \in reading
    /\ \E n \in got[q] + 1 .. 2 * Len(stream[q].events) :
        /\ n \div 2 <= Arrived(q) + 1
        /\ got' = [got EXCEPT ![q] = n]
        /\ IF n \div 2 = Arrived(q) THEN UNCHANGED <<messages, loading>>
           ELSE OnEvent(stream[q].events[n \div 2])
    /\ UNCHANGED <<stream, reading, early>>

\* reader.read() returned done: one more onDone.
StreamEnds(q) ==
    /\ q \in reading
    /\ stream[q].state = "ended"
    /\ got[q] = 2 * Len(stream[q].events)
    /\ reading' = reading \ {q}
    /\ Turn(OnDone(messages[Target]))
    /\ UNCHANGED <<stream, got, early>>

\* An HTTP error status is thrown into the catch of ragStream.
Refused(q) ==
    /\ q \in reading
    /\ stream[q].state = "refused"
    /\ reading' = reading \ {q}
    /\ Turn(OnError(messages[Target]))
    /\ UNCHANGED <<stream, got, early>>

\* fetch or reader.read() rejects: the connection is gone.
Cut(q) ==
    /\ q \in reading
    /\ reading' = reading \ {q}
    /\ Turn(OnError(messages[Target]))
    /\ UNCHANGED <<stream, got, early>>

Client(q) == Read(q) \/ StreamEnds(q) \/ Refused(q)

Next == \E q \in Questions : Send(q) \/ Serve(q) \/ Client(q) \/ Cut(q)

\* A served request takes its next step (AskServer, Fairness), and a read
\* that has something to return returns.
Fairness == \A q \in Questions : WF_vars(Serve(q)) /\ WF_vars(Client(q))

Spec == Init /\ [][Next]_vars /\ Fairness
-----------------------------------------------------------------------------
(* Properties *)

\* What is shown as an answer was sent by the server as a response, complete
\* ("Only the VERIFIED answer is ever rendered", ChatPage.tsx:39).
ShownIsVerified ==
    \A i \in DOMAIN messages : messages[i].result # Null =>
        \E q \in Questions : \E n \in 1 .. Arrived(q) :
            stream[q].events[n] = Promise!Response(messages[i].result)

\* The response or error of q is handled, or its call has returned.
Answered(q) ==
    \/ q \notin reading
    \/ \E n \in 1 .. Arrived(q) : stream[q].events[n].type \in {"response", "error"}

\* The page searches for as long as the answer is pending
\* (ChatPage.test.tsx, "shows the searching state while the answer is pending").
PendingShowsSearching ==
    \A i \in DOMAIN messages : ~Answered(messages[i].asked) => messages[i].streaming

\* As long as every question waited for the stream before it to close, a
\* bubble shows the answer to the question above it, whatever pieces the
\* events came in (ChatPage.tsx:63-72: onResult writes to the last message),
\* and searches until that answer or an error has come.
PatientIsInStep ==
    ~early =>
        /\ \A i \in DOMAIN messages :
               messages[i].result # Null => messages[i].result.about = messages[i].asked
        /\ PendingShowsSearching

\* Only the last bubble can be searching, and it is exactly while the page
\* is loading: no question is left spinning, and the page never waits for
\* nothing, however early the user asks again (ChatPage.tsx:53, 61, 71).
NoAbandonedSpinner ==
    /\ \A i \in DOMAIN messages : messages[i].streaming => i = Len(messages)
    /\ loading <=> (messages # <<>> /\ messages[Len(messages)].streaming)

\* An answer that has a question under it never changes, and the last one, as
\* long as every question waited for the stream before it, changes only when
\* the connection of its own stream fails before the stream is closed, into
\* that error: no event of its stream and no neighbour's touches it
\* (ChatPage.tsx:55-62).
AnswerStays ==
    [][\A i \in DOMAIN messages :
        messages[i].result # Null /\ messages'[i] # messages[i] =>
            /\ i = Len(messages)
            /\ ~early => /\ messages'[i].error /\ messages'[i].result = Null
                         /\ messages[i].asked \in reading \ reading']_vars

\* The page always becomes ready for the next question (ChatPage.tsx:32).
LoadingEnds == loading ~> ~loading
=============================================================================
