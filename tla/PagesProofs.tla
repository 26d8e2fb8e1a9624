----------------------------- MODULE PagesProofs -----------------------------
(***************************************************************************)
(* What the Ask page and the two modes of the Search page show, for any    *)
(* number of questions and searches, any server that keeps its promise     *)
(* and any connection.                                                     *)
(***************************************************************************)
EXTENDS AskChat, SearchPage, TLAPS

(* The Search page.  Its properties do not say why they hold: a mode whose *)
(* last search overtook no other waits for that search at most, and shows  *)
(* nothing while it waits (Settled).                                       *)

Fields == {"running", "asked", "result", "error", "loading"}

Settled(t) ==
    /\ t.running \subseteq {t.asked}
    /\ {t.result, t.error} \subseteq {t.asked, None}
    /\ t.running # {} => t.result = None /\ t.error = None
    /\ None \in {t.result, t.error}

ModeInv(m) ==
    /\ DOMAIN tab[m] = Fields
    /\ m \notin hasty => Settled(tab[m])
    /\ m = "documentation" => None \in {tab[m].result, tab[m].error}

SearchInv ==
    /\ mode \in Modes
    /\ DOMAIN tab = Modes
    /\ \A m \in Modes : ModeInv(m)
-----------------------------------------------------------------------------
LEMMA SearchInitHolds == SearchInit => SearchInv
BY DEF SearchInit, SearchInv, ModeInv, Settled, Mounted, Modes, Fields

LEMMA SearchKeeps ==
    ASSUME SearchInv, NEW s \in Searches, Search(s)
    PROVE  SearchInv'
<1>1. /\ DOMAIN tab[mode] = Fields /\ mode \in Modes /\ mode' = mode
      /\ mode \notin hasty => Settled(tab[mode])
    BY DEF Search, SearchInv, ModeInv
<1>2. /\ DOMAIN tab' = Modes /\ tab'[mode] = Begin(tab[mode], s)
      /\ \A m \in Modes \ {mode} : tab'[m] = tab[m] /\ (m \in hasty' <=> m \in hasty)
    BY <1>1 DEF Search, SearchInv
<1>3. tab[mode].running # {} => mode \in hasty'
    BY DEF Search
<1>4. DOMAIN tab'[mode] = Fields /\ None \in {tab'[mode].result, tab'[mode].error}
    BY <1>1, <1>2 DEF Begin, Fields
<1>5. tab[mode].running = {} => Settled(tab'[mode])
    BY <1>1, <1>2 DEF Begin, Fields, Settled
<1>6. ModeInv(mode)'
    BY <1>1, <1>3, <1>4, <1>5 DEF ModeInv
<1>7. \A m \in Modes \ {mode} : ModeInv(m)'
    BY <1>2 DEF SearchInv, ModeInv
<1> QED BY <1>1, <1>2, <1>6, <1>7 DEF SearchInv

\* What a reply makes of the state of its mode.
After(t, s, r, e) == Ended([t EXCEPT !.result = r, !.error = e], s)

LEMMA Replying ==
    ASSUME NEW t, NEW s, NEW r, NEW e, DOMAIN t = Fields
    PROVE  /\ DOMAIN After(t, s, r, e) = Fields
           /\ After(t, s, r, e).result = r /\ After(t, s, r, e).error = e
           /\ After(t, s, r, e).running = t.running \ {s} /\ After(t, s, r, e).asked = t.asked
<1> DEFINE v == [t EXCEPT !.result = r, !.error = e]
<1>1. /\ DOMAIN v = Fields /\ v.result = r /\ v.error = e
      /\ v.running = t.running /\ v.asked = t.asked
    BY DEF Fields
<1>2. After(t, s, r, e) = [v EXCEPT !.running = @ \ {s}, !.loading = FALSE]
    BY DEF Ended, After
<1> HIDE DEF v
<1> QED BY <1>1, <1>2 DEF Fields

\* The outcome of one search of a mode, in whichever variable it is kept.
LEMMA ReplyKeeps ==
    ASSUME SearchInv, NEW m \in Modes, NEW s \in Searches, Arrives(m, s) \/ Rejects(m, s)
    PROVE  SearchInv'
<1> DEFINE t == tab[m]
<1>1. /\ s \in t.running /\ DOMAIN t = Fields
      /\ m \notin hasty => Settled(t)
      /\ hasty' = hasty /\ mode' = mode
    BY DEF Arrives, Rejects, SearchInv, ModeInv
<1>2. /\ DOMAIN tab' = Modes
      /\ \A n \in Modes \ {m} : tab'[n] = tab[n]
    BY DEF Arrives, Rejects, SearchInv
<1>3. /\ DOMAIN tab'[m] = Fields
      /\ tab'[m].running = t.running \ {s} /\ tab'[m].asked = t.asked
      /\ \/ tab'[m].result = s /\ tab'[m].error = Remains(m, t.error)
         \/ tab'[m].error = s /\ tab'[m].result = Remains(m, t.result)
    <2>1. CASE Arrives(m, s)
        <3>1. tab'[m] = After(tab[m], s, s, Remains(m, tab[m].error))
            BY <2>1 DEF Arrives, SearchInv, After
        <3>2. DOMAIN tab[m] = Fields
            BY <1>1
        <3>3. /\ DOMAIN tab'[m] = Fields
              /\ tab'[m].result = s /\ tab'[m].error = Remains(m, tab[m].error)
              /\ tab'[m].running = tab[m].running \ {s} /\ tab'[m].asked = tab[m].asked
            BY <3>1, <3>2, Replying
        <3> QED BY <3>3
    <2>2. CASE Rejects(m, s)
        <3>1. tab'[m] = After(tab[m], s, Remains(m, tab[m].result), s)
            BY <2>2 DEF Rejects, SearchInv, After
        <3>2. DOMAIN tab[m] = Fields
            BY <1>1
        <3>3. /\ DOMAIN tab'[m] = Fields
              /\ tab'[m].result = Remains(m, tab[m].result) /\ tab'[m].error = s
              /\ tab'[m].running = tab[m].running \ {s} /\ tab'[m].asked = tab[m].asked
            BY <3>1, <3>2, Replying
        <3> QED BY <3>3
    <2> QED BY <2>1, <2>2
<1>4. m \notin hasty => Settled(tab'[m])
    BY <1>1, <1>3 DEF Settled, Remains
<1>5. m = "documentation" => None \in {tab'[m].result, tab'[m].error}
    BY <1>3 DEF Remains
<1>6. ModeInv(m)'
    BY <1>1, <1>3, <1>4, <1>5 DEF ModeInv
<1>7. \A n \in Modes \ {m} : ModeInv(n)'
    BY <1>1, <1>2 DEF SearchInv, ModeInv
<1> QED BY <1>1, <1>2, <1>6, <1>7 DEF SearchInv

LEMMA SetModeKeeps ==
    ASSUME SearchInv, SetMode
    PROVE  SearchInv'
<1>1. /\ mode' \in Modes /\ DOMAIN tab' = Modes
      /\ tab'["tools"] = Mounted /\ tab'["documentation"] = tab["documentation"]
      /\ "documentation" \in hasty' <=> "documentation" \in hasty
    BY DEF SetMode, SearchInv, Modes
<1>2. ModeInv("tools")'
    BY <1>1 DEF ModeInv, Settled, Mounted, Fields
<1>3. ModeInv("documentation")'
    BY <1>1 DEF SearchInv, ModeInv, Modes
<1> QED BY <1>1, <1>2, <1>3 DEF SearchInv, Modes

LEMMA SearchInductive == SearchSpec => []SearchInv
<1>1. SearchInv /\ [SearchNext]_searchVars => SearchInv'
    <2> SUFFICES ASSUME SearchInv, [SearchNext]_searchVars PROVE SearchInv'
        OBVIOUS
    <2>1. CASE UNCHANGED searchVars
        BY <2>1 DEF searchVars, SearchInv, ModeInv
    <2> QED BY <2>1, SearchKeeps, ReplyKeeps, SetModeKeeps DEF SearchNext, Reply
<1> QED BY <1>1, SearchInitHolds, PTL DEF SearchSpec

\* Replies in any order: a mode whose last search overtook no other shows the
\* outcome of that search or nothing: SearchPage.tsx search and setMode.
THEOREM LastSearchIsShown == SearchSpec => []ShowsTheLastSearch
<1>1. SearchInv => ShowsTheLastSearch
    BY DEF SearchInv, ModeInv, Settled, ShowsTheLastSearch
<1> QED BY <1>1, SearchInductive, PTL

\* A result or an error, not both, unless a search of the tools overtook
\* another: ToolDiscovery.tsx search.
THEOREM OneOutcomeIsShown == SearchSpec => []OneOutcome
<1>1. SearchInv => OneOutcome
    BY DEF SearchInv, ModeInv, Settled, OneOutcome, Modes
<1> QED BY <1>1, SearchInductive, PTL
-----------------------------------------------------------------------------
(* The Ask page.  All its properties rest on where a callback writes: to   *)
(* the last bubble, which is that of the question being read as long as    *)
(* every question waited for the stream before it (LastIsRead).            *)

Events(q) == {Promise!Status, Promise!Done, Promise!Failure}
                 \cup {Promise!Response(r) : r \in Promise!Promised(q)}

\* The events of one question, in the order the server may send them.
StreamOK(q) ==
    LET E == stream[q].events IN
    /\ DOMAIN stream[q] = {"state", "events"}
    /\ E \in Seq(Events(q)) /\ Len(E) <= 3
    /\ \A i \in 1 .. Len(E) :
        /\ i = 1 => E[i].type \in {"status", "error"}
        /\ i = 2 => E[i].type \in {"response", "error"}
        /\ i = 3 => E[i].type = "done" /\ E[2].type = "response"
        /\ stream[q].state = "open" => E[i].type \in {"status", "response"}
    /\ stream[q].state = "open" => Len(E) < 3
    /\ stream[q].state = "idle" => Len(E) = 0

StreamInv ==
    /\ DOMAIN stream = Questions
    /\ \A q \in Questions : StreamOK(q)

\* Bubbles and calls belong to questions that were asked, each once.
AskedInv ==
    /\ \A i \in 1 .. Len(messages) : stream[messages[i].asked].state # "idle"
    /\ \A i, j \in 1 .. Len(messages) : messages[i].asked = messages[j].asked => i = j
    /\ \A q \in reading : stream[q].state # "idle"
    /\ reading # {} => messages # <<>>

LastIsRead ==
    ~early /\ reading # {} => reading = {messages[Len(messages)].asked}

GotInv == \A q \in Questions : got[q] <= 2 * Len(stream[q].events)

ChatInv ==
    /\ TypeOK /\ StreamInv /\ AskedInv /\ GotInv /\ LastIsRead
    /\ ShownIsVerified /\ NoAbandonedSpinner /\ PatientIsInStep
-----------------------------------------------------------------------------
LEMMA EmptySeq == ASSUME NEW S PROVE <<>> \in Seq(S) /\ Len(<<>>) = 0 /\ DOMAIN <<>> = {}
OBVIOUS

LEMMA ChatInit == Init => ChatInv
<1> SUFFICES ASSUME Init PROVE ChatInv
    OBVIOUS
<1> USE DEF Init
<1>1. /\ DOMAIN stream = Questions
      /\ \A q \in Questions : /\ DOMAIN stream[q] = {"state", "events"}
                              /\ stream[q].state = "idle" /\ stream[q].events = <<>>
    BY DEF Promise!Init
<1>2. messages \in Seq(Bubble) /\ DOMAIN messages = {} /\ Len(messages) = 0
    BY EmptySeq
<1>9. TypeOK
    <2>1. got \in [Questions -> 0 .. 6]
        OBVIOUS
    <2> QED BY <1>2, <2>1 DEF TypeOK
<1>3. StreamInv
    <2>1. ASSUME NEW q \in Questions
          PROVE  stream[q].events \in Seq(Events(q)) /\ Len(stream[q].events) = 0
        <3>1. stream[q].events = <<>>
            BY <1>1
        <3> QED BY <3>1, EmptySeq
    <2> QED BY <1>1, <2>1 DEF StreamInv, StreamOK
<1>4. AskedInv /\ LastIsRead /\ NoAbandonedSpinner
    BY <1>2 DEF AskedInv, LastIsRead, NoAbandonedSpinner
<1>5. GotInv
    <2>1. \A q \in Questions : got[q] = 0 /\ Len(stream[q].events) = 0
        BY <1>1, EmptySeq
    <2>2. ASSUME NEW q \in Questions
          PROVE  got[q] <= 2 * Len(stream[q].events)
        BY <2>1
    <2> QED BY <2>2 DEF GotInv
<1>6. ShownIsVerified /\ PatientIsInStep
    BY <1>2 DEF ShownIsVerified, PatientIsInStep, PendingShowsSearching
<1> QED BY <1>3, <1>4, <1>5, <1>6, <1>9 DEF ChatInv

\* Question q has sent what it had sent, and no other question is touched.
Extended(q) ==
    /\ DOMAIN stream' = Questions
    /\ DOMAIN stream'[q] = {"state", "events"}
    /\ stream'[q].state # "idle"
    /\ Len(stream[q].events) <= Len(stream'[q].events)
    /\ \A i \in 1 .. Len(stream[q].events) : stream'[q].events[i] = stream[q].events[i]
    /\ \A p \in Questions \ {q} : stream'[p] = stream[p]

\* An event at the end of the stream of q.
Sent(q, st, e) ==
    /\ DOMAIN stream' = Questions
    /\ DOMAIN stream'[q] = {"state", "events"}
    /\ stream'[q].state = st
    /\ stream'[q].events = Append(stream[q].events, e)
    /\ \A p \in Questions \ {q} : stream'[p] = stream[p]

LEMMA SendSends ==
    ASSUME StreamInv, NEW q \in Questions, NEW e, Promise!Send(q, e)
    PROVE  Sent(q, stream[q].state, e)
<1>1. /\ DOMAIN stream = Questions /\ DOMAIN stream[q] = {"state", "events"}
      /\ stream' = [stream EXCEPT ![q].events = Append(stream[q].events, e)]
    BY DEF StreamInv, StreamOK, Promise!Send
<1> QED BY <1>1 DEF Sent

LEMMA SendLastSends ==
    ASSUME StreamInv, NEW q \in Questions, NEW e, Promise!SendLast(q, e)
    PROVE  Sent(q, "ended", e)
<1>1. /\ DOMAIN stream = Questions
      /\ stream' = [stream EXCEPT ![q] =
                        [state |-> "ended", events |-> Append(stream[q].events, e)]]
    BY DEF StreamInv, Promise!SendLast
<1> QED BY <1>1 DEF Sent

LEMMA TypesAre ==
    ASSUME StreamInv, NEW q \in Questions
    PROVE  /\ stream[q].events \in Seq(Events(q)) /\ Len(stream[q].events) \in Nat
           /\ DOMAIN Promise!Types(q) = 1 .. Len(stream[q].events)
           /\ \A i \in 1 .. Len(stream[q].events) :
                    Promise!Types(q)[i] = stream[q].events[i].type
<1>1. stream[q].events \in Seq(Events(q))
    BY DEF StreamInv, StreamOK
<1> QED BY <1>1 DEF Promise!Types

LEMMA EventsStay == ASSUME NEW q PROVE Events(q)' = Events(q)
BY DEF Events, Promise!Status, Promise!Done, Promise!Failure, Promise!Response,
       Promise!Promised, Promise!Responses, Promise!Citations

LEMMA StreamStays ==
    ASSUME NEW p \in Questions, StreamOK(p), stream'[p] = stream[p]
    PROVE  StreamOK(p)'
BY EventsStay DEF StreamOK

\* The order in which a server sends the events of one question.
LEMMA SendingOrder ==
    ASSUME StreamInv, NEW q \in Questions, NEW e \in Events(q), NEW st \in {"open", "ended"},
           Sent(q, st, e), stream[q].state = "open",
           LET n == Len(stream[q].events) IN
           \/ n = 0 /\ e.type = "status"
           \/ n = 0 /\ e.type = "error" /\ st = "ended"
           \/ n = 1 /\ e.type = "response"
           \/ n = 1 /\ e.type = "error" /\ st = "ended"
           \/ n = 2 /\ e.type = "done" /\ st = "ended"
    PROVE  StreamOK(q)' /\ Extended(q)
<1> DEFINE E == stream[q].events
           F == stream'[q].events
<1>1. /\ E \in Seq(Events(q)) /\ Len(E) \in Nat /\ F = Append(E, e)
      /\ DOMAIN stream'[q] = {"state", "events"} /\ stream'[q].state = st
    BY TypesAre DEF Sent
<1>2. /\ F \in Seq(Events(q)) /\ Len(F) = Len(E) + 1 /\ F[Len(E) + 1] = e
      /\ \A i \in 1 .. Len(E) : F[i] = E[i]
    BY <1>1
<1>3. /\ Len(E) < 3
      /\ \A i \in 1 .. Len(E) : /\ i = 1 => E[i].type \in {"status", "error"}
                                /\ i = 2 => E[i].type \in {"response", "error"}
                                /\ E[i].type \in {"status", "response"}
    BY DEF StreamInv, StreamOK
<1>4. \/ Len(E) = 0 /\ e.type = "status"
      \/ Len(E) = 0 /\ e.type = "error" /\ st = "ended"
      \/ Len(E) = 1 /\ e.type = "response"
      \/ Len(E) = 1 /\ e.type = "error" /\ st = "ended"
      \/ Len(E) = 2 /\ e.type = "done" /\ st = "ended"
    OBVIOUS
<1>5. Len(E) = 2 => F[2].type = "response"
    BY <1>2, <1>3
<1>6. Events(q)' = Events(q)
    BY EventsStay
<1> HIDE DEF E, F
<1>7. \A i \in 1 .. Len(F) :
        /\ i = 1 => F[i].type \in {"status", "error"}
        /\ i = 2 => F[i].type \in {"response", "error"}
        /\ i = 3 => F[i].type = "done" /\ F[2].type = "response"
        /\ st = "open" => F[i].type \in {"status", "response"}
    <2> SUFFICES ASSUME NEW i \in 1 .. Len(F)
                 PROVE  /\ i = 1 => F[i].type \in {"status", "error"}
                        /\ i = 2 => F[i].type \in {"response", "error"}
                        /\ i = 3 => F[i].type = "done" /\ F[2].type = "response"
                        /\ st = "open" => F[i].type \in {"status", "response"}
        OBVIOUS
    <2>1. CASE i \in 1 .. Len(E)
        BY <1>1, <1>2, <1>3, <2>1
    <2>2. CASE i = Len(E) + 1
        BY <1>1, <1>2, <1>3, <1>4, <1>5, <2>2
    <2> QED BY <1>1, <1>2, <2>1, <2>2
<1>8. StreamOK(q)'
    BY <1>1, <1>2, <1>3, <1>4, <1>6, <1>7 DEF StreamOK, E, F
<1> QED BY <1>1, <1>2, <1>8 DEF Extended, Sent, E, F

(* A server step adds at most one event, to one question. *)
LEMMA ServeFacts ==
    ASSUME StreamInv, NEW q \in Questions, Promise!Serve(q)
    PROVE  StreamInv' /\ Extended(q) /\ stream[q].state = "open"
<1> DEFINE E == stream[q].events
<1>1. E \in Seq(Events(q)) /\ Len(E) \in Nat /\ DOMAIN stream = Questions
    BY TypesAre DEF StreamInv
<1>2. stream[q].state = "open"
    BY DEF Promise!Serve, Promise!Refuse, Promise!SendStatus, Promise!SendResponse,
           Promise!SendDone, Promise!SendFailure
<1>3. \A i \in 1 .. Len(E) : E[i].type \in {"status", "response"}
    BY <1>2 DEF StreamInv, StreamOK
<1>4. StreamOK(q)' /\ Extended(q)
    <2>1. CASE Promise!Refuse(q)
        <3>1. /\ DOMAIN stream' = Questions /\ DOMAIN stream'[q] = {"state", "events"}
              /\ stream'[q].state = "refused" /\ stream'[q].events = E /\ E = <<>>
              /\ \A p \in Questions \ {q} : stream'[p] = stream[p]
            <4>1. stream' = [stream EXCEPT ![q].state = "refused"] /\ E = <<>>
                BY <2>1 DEF Promise!Refuse
            <4>2. DOMAIN stream[q] = {"state", "events"}
                BY DEF StreamInv, StreamOK
            <4> QED BY <1>1, <4>1, <4>2
        <3>2. StreamOK(q)'
            BY <3>1, EmptySeq DEF StreamOK
        <3> QED BY <3>1, <3>2 DEF Extended
    <2>2. CASE Promise!SendStatus(q)
        <3>1. Promise!Status \in Events(q) /\ Promise!Status.type = "status"
            BY DEF Events, Promise!Status
        <3>2. Len(E) = 0
            BY <2>2 DEF Promise!SendStatus
        <3>3. Sent(q, "open", Promise!Status)
            BY <1>2, <2>2, SendSends DEF Promise!SendStatus
        <3> QED BY <1>2, <3>1, <3>2, <3>3, SendingOrder
    <2>3. CASE Promise!SendResponse(q)
        <3>1. PICK r \in Promise!Promised(q) : Promise!Send(q, Promise!Response(r))
            BY <2>3 DEF Promise!SendResponse
        <3>2. Promise!Response(r) \in Events(q) /\ Promise!Response(r).type = "response"
            BY DEF Events, Promise!Response
        <3>3. Len(E) = 1
            <4>1. DOMAIN Promise!Types(q) = 1 .. 1
                BY <2>3 DEF Promise!SendResponse
            <4> QED BY <1>1, <4>1, TypesAre
        <3>4. Sent(q, "open", Promise!Response(r))
            BY <1>2, <3>1, SendSends
        <3> QED BY <1>2, <3>2, <3>3, <3>4, SendingOrder
    <2>4. CASE Promise!SendDone(q)
        <3>1. Promise!Done \in Events(q) /\ Promise!Done.type = "done"
            BY DEF Events, Promise!Done
        <3>2. Len(E) = 2
            <4>1. DOMAIN Promise!Types(q) = 1 .. 2
                BY <2>4 DEF Promise!SendDone
            <4> QED BY <1>1, <4>1, TypesAre
        <3>3. Sent(q, "ended", Promise!Done)
            BY <2>4, SendLastSends DEF Promise!SendDone
        <3> QED BY <1>2, <3>1, <3>2, <3>3, SendingOrder
    <2>5. CASE Promise!SendFailure(q)
        <3>1. Promise!Failure \in Events(q) /\ Promise!Failure.type = "error"
            BY DEF Events, Promise!Failure
        <3>2. Len(E) = 0 \/ Len(E) = 1
            <4>1. \A i \in 1 .. Len(E) : E[i].type # "response"
                BY <1>1, <2>5 DEF Promise!SendFailure
            <4>2. StreamOK(q)
                BY DEF StreamInv
            <4>3. Len(E) < 3 /\ \A i \in 1 .. Len(E) : i = 2 => E[i].type \in {"response", "error"}
                BY <1>1, <1>2, <4>2 DEF StreamOK
            <4>4. 2 \in 1 .. Len(E) => FALSE
                BY <1>3, <4>1, <4>3
            <4>5. \A n \in Nat : n < 3 /\ ~(2 \in 1 .. n) => n = 0 \/ n = 1
                OBVIOUS
            <4> QED BY <1>1, <4>3, <4>4, <4>5
        <3>3. Sent(q, "ended", Promise!Failure)
            BY <2>5, SendLastSends DEF Promise!SendFailure
        <3>4. CASE Len(E) = 0
            BY <1>2, <3>1, <3>3, <3>4, SendingOrder
        <3>5. CASE Len(E) = 1
            BY <1>2, <3>1, <3>3, <3>5, SendingOrder
        <3> QED BY <3>2, <3>4, <3>5
    <2> QED BY <2>1, <2>2, <2>3, <2>4, <2>5 DEF Promise!Serve
<1>5. ASSUME NEW p \in Questions \ {q}
      PROVE  StreamOK(p)'
    <2>1. StreamOK(p) /\ stream'[p] = stream[p]
        BY <1>4 DEF Extended, StreamInv
    <2> QED BY <2>1, StreamStays
<1> QED BY <1>2, <1>4, <1>5 DEF Extended, StreamInv
-----------------------------------------------------------------------------
(* The steps of the page. *)

LEMMA Halves ==
    ASSUME NEW n \in Nat
    PROVE  n \div 2 \in Nat /\ 2 * (n \div 2) <= n /\ n <= 2 * (n \div 2) + 1
OBVIOUS

LEMMA ArrivedFacts ==
    ASSUME TypeOK, StreamInv, GotInv, NEW q \in Questions
    PROVE  /\ got[q] \in Nat /\ Arrived(q) \in Nat
           /\ 2 * Arrived(q) <= got[q] /\ got[q] <= 2 * Arrived(q) + 1
           /\ stream[q].events \in Seq(Events(q)) /\ Len(stream[q].events) \in Nat
           /\ got[q] <= 2 * Len(stream[q].events)
           /\ Arrived(q) <= Len(stream[q].events)
<1>1. got[q] \in Nat
    BY DEF TypeOK
<1>2. stream[q].events \in Seq(Events(q)) /\ Len(stream[q].events) \in Nat
    BY TypesAre
<1>3. /\ Arrived(q) \in Nat
      /\ 2 * Arrived(q) <= got[q] /\ got[q] <= 2 * Arrived(q) + 1
    BY <1>1, Halves DEF Arrived
<1>4. got[q] <= 2 * Len(stream[q].events)
    BY DEF GotInv
<1>5. \A a, g, n \in Nat : 2 * a <= g /\ g <= 2 * n => a <= n
    OBVIOUS
<1> QED BY <1>1, <1>2, <1>3, <1>4, <1>5

LEMMA EventKinds ==
    ASSUME NEW q \in Questions, NEW e \in Events(q)
    PROVE  /\ e.type \in {"status", "response", "done", "error"}
           /\ e.type = "response" => /\ e = Promise!Response(e.result)
                                     /\ e.result \in Promise!Responses
                                     /\ e.result.about = q
BY DEF Events, Promise!Status, Promise!Done, Promise!Failure, Promise!Response,
       Promise!Promised

\* What has arrived stays, and what was not read was sent before.
LEMMA ShownStays ==
    ASSUME ChatInv, \A p \in Questions :
               /\ Arrived(p) <= Arrived(p)' /\ Arrived(p)' \in Nat
               /\ \A n \in 1 .. Arrived(p) : stream'[p].events[n] = stream[p].events[n]
    PROVE  \A i \in DOMAIN messages : messages[i].result # Null =>
               \E p \in Questions : \E n \in 1 .. Arrived(p)' :
                   stream'[p].events[n] = Promise!Response(messages[i].result)
<1> SUFFICES ASSUME NEW i \in DOMAIN messages, messages[i].result # Null
             PROVE  \E p \in Questions : \E n \in 1 .. Arrived(p)' :
                        stream'[p].events[n] = Promise!Response(messages[i].result)
    OBVIOUS
<1>1. PICK p \in Questions : \E n \in 1 .. Arrived(p) :
           stream[p].events[n] = Promise!Response(messages[i].result)
    BY DEF ChatInv, ShownIsVerified
<1>2. PICK n \in 1 .. Arrived(p) : stream[p].events[n] = Promise!Response(messages[i].result)
    BY <1>1
<1>3. Arrived(p) \in Nat
    BY ArrivedFacts DEF ChatInv
<1>4. n \in 1 .. Arrived(p)'
    BY <1>2, <1>3
<1> QED BY <1>2, <1>4

LEMMA AnsweredStays ==
    ASSUME ChatInv, NEW p \in Questions, Answered(p), p \in reading' => p \in reading,
           Arrived(p) <= Arrived(p)' /\ Arrived(p)' \in Nat,
           \A n \in 1 .. Arrived(p) : stream'[p].events[n] = stream[p].events[n]
    PROVE  Answered(p)'
<1>1. Arrived(p) \in Nat
    BY ArrivedFacts DEF ChatInv
<1> QED BY <1>1 DEF Answered

LEMMA MessageTypes ==
    ASSUME TypeOK
    PROVE  /\ Len(messages) \in Nat /\ DOMAIN messages = 1 .. Len(messages)
           /\ \A i \in 1 .. Len(messages) :
                /\ messages[i] \in Bubble /\ messages[i].asked \in Questions
                /\ messages[i].streaming \in BOOLEAN
<1>1. messages \in Seq(Bubble)
    BY DEF TypeOK
<1>2. /\ Len(messages) \in Nat /\ DOMAIN messages = 1 .. Len(messages)
      /\ \A i \in 1 .. Len(messages) : messages[i] \in Bubble
    BY <1>1
<1>3. \A m \in Bubble : m.asked \in Questions /\ m.streaming \in BOOLEAN
    BY DEF Bubble
<1> QED BY <1>2, <1>3

LEMMA ServeKeeps ==
    ASSUME ChatInv, NEW q \in Questions, Serve(q)
    PROVE  ChatInv'
<1>1. /\ StreamInv' /\ Extended(q)
      /\ UNCHANGED <<got, reading, messages, loading, early>>
    BY ServeFacts DEF Serve, ChatInv
<1>2. TypeOK' /\ LastIsRead' /\ NoAbandonedSpinner'
    BY <1>1 DEF ChatInv, TypeOK, LastIsRead, NoAbandonedSpinner
<1>3. \A p \in Questions :
        /\ Arrived(p)' = Arrived(p) /\ Arrived(p) \in Nat
        /\ Len(stream[p].events) <= Len(stream'[p].events)
        /\ \A n \in 1 .. Arrived(p) : stream'[p].events[n] = stream[p].events[n]
        /\ stream'[p].state = "idle" => stream[p].state = "idle"
    <2> SUFFICES ASSUME NEW p \in Questions
                 PROVE  /\ Arrived(p)' = Arrived(p) /\ Arrived(p) \in Nat
                        /\ Len(stream[p].events) <= Len(stream'[p].events)
                        /\ \A n \in 1 .. Arrived(p) :
                                stream'[p].events[n] = stream[p].events[n]
                        /\ stream'[p].state = "idle" => stream[p].state = "idle"
        OBVIOUS
    <2>1. /\ Arrived(p) \in Nat /\ Len(stream[p].events) \in Nat
          /\ Arrived(p) <= Len(stream[p].events)
        BY ArrivedFacts DEF ChatInv
    <2>2. Arrived(p)' = Arrived(p)
        BY <1>1 DEF Arrived
    <2>3. CASE p = q
        BY <1>1, <2>1, <2>2, <2>3 DEF Extended
    <2>4. CASE p # q
        BY <1>1, <2>1, <2>2, <2>4 DEF Extended
    <2> QED BY <2>3, <2>4
<1>4. AskedInv'
    <2>1. \A i \in 1 .. Len(messages) : messages[i].asked \in Questions
        BY MessageTypes DEF ChatInv
    <2> QED BY <1>1, <1>3, <2>1 DEF ChatInv, TypeOK, AskedInv
<1>5. GotInv'
    <2>1. ASSUME NEW p \in Questions
          PROVE  got[p] <= 2 * Len(stream'[p].events)
        <3>1. /\ got[p] \in Nat /\ Len(stream[p].events) \in Nat
              /\ got[p] <= 2 * Len(stream[p].events)
            BY ArrivedFacts DEF ChatInv
        <3>2. Len(stream'[p].events) \in Nat
            BY <1>1, TypesAre DEF StreamInv, StreamOK
        <3> QED BY <1>3, <3>1, <3>2
    <2> QED BY <1>1, <2>1 DEF GotInv
<1>6. ShownIsVerified'
    BY <1>1, <1>3, ShownStays DEF ShownIsVerified
<1>7. PatientIsInStep'
    <2>1. \A i \in DOMAIN messages : messages[i].asked \in Questions
        BY MessageTypes DEF ChatInv
    <2>2. \A p \in Questions : Answered(p) => Answered(p)'
        BY <1>1, <1>3, AnsweredStays
    <2> QED BY <1>1, <2>1, <2>2 DEF ChatInv, PatientIsInStep, PendingShowsSearching
<1> QED BY <1>1, <1>2, <1>4, <1>5, <1>6, <1>7 DEF ChatInv

LEMMA SendKeeps ==
    ASSUME ChatInv, NEW q \in Questions, Send(q)
    PROVE  ChatInv'
<1> DEFINE b == [asked |-> q, streaming |-> TRUE, error |-> FALSE, result |-> Null]
           n == Len(messages)
<1>1. /\ ~loading /\ stream[q].state = "idle" /\ loading' = TRUE
      /\ messages' = Append(messages, b) /\ reading' = reading \cup {q}
      /\ early' = (early \/ reading # {}) /\ got' = got
      /\ stream' = [stream EXCEPT ![q].state = "open"]
    BY DEF Send, Promise!Ask
<1>2. /\ b \in Bubble /\ b.asked = q /\ b.streaming = TRUE /\ b.result = Null
    BY DEF Bubble
<1> HIDE DEF b
<1>3. /\ n \in Nat /\ messages' \in Seq(Bubble) /\ Len(messages') = n + 1
      /\ messages'[n + 1] = b
      /\ DOMAIN messages = 1 .. n /\ DOMAIN messages' = 1 .. n + 1
      /\ \A i \in 1 .. n : messages'[i] = messages[i] /\ messages[i].asked \in Questions
    <2>1. messages \in Seq(Bubble)
        BY DEF ChatInv, TypeOK
    <2>2. n \in Nat /\ \A i \in 1 .. n : messages[i].asked \in Questions
        BY MessageTypes DEF ChatInv
    <2> QED BY <1>1, <1>2, <2>1, <2>2
<1>4. /\ DOMAIN stream' = Questions /\ DOMAIN stream'[q] = {"state", "events"}
      /\ stream'[q].state = "open" /\ stream'[q].events = stream[q].events
      /\ \A p \in Questions \ {q} : stream'[p] = stream[p]
    <2>1. DOMAIN stream = Questions /\ DOMAIN stream[q] = {"state", "events"}
        BY DEF ChatInv, StreamInv, StreamOK
    <2> QED BY <1>1, <2>1
<1>5. \A p \in Questions : /\ stream'[p].events = stream[p].events
                           /\ Arrived(p)' = Arrived(p) /\ Arrived(p) \in Nat
    BY <1>1, <1>4, ArrivedFacts DEF ChatInv, Arrived
<1>6. TypeOK'
    BY <1>1, <1>3 DEF ChatInv, TypeOK
<1>7. StreamInv'
    <2>1. StreamOK(q)'
        <3>1. StreamOK(q)
            BY DEF ChatInv, StreamInv
        <3>2. Len(stream[q].events) = 0 /\ Len(stream'[q].events) = 0
            BY <1>1, <1>4, <3>1 DEF StreamOK
        <3> QED BY <1>4, <3>1, <3>2, EventsStay DEF StreamOK
    <2>2. ASSUME NEW p \in Questions \ {q}
          PROVE  StreamOK(p)'
        BY <1>4, StreamStays DEF ChatInv, StreamInv
    <2> QED BY <1>4, <2>1, <2>2 DEF StreamInv
<1>8. \A i \in 1 .. n : messages[i].asked # q
    BY <1>1, <1>3 DEF ChatInv, AskedInv
<1>9. AskedInv'
    <2>1. \A i \in 1 .. n + 1 : stream'[messages'[i].asked].state # "idle"
        BY <1>2, <1>3, <1>4, <1>8 DEF ChatInv, AskedInv
    <2>2. \A i, j \in 1 .. n + 1 : messages'[i].asked = messages'[j].asked => i = j
        BY <1>2, <1>3, <1>8 DEF ChatInv, AskedInv
    <2>3. \A p \in reading' : stream'[p].state # "idle"
        BY <1>1, <1>4 DEF ChatInv, AskedInv, TypeOK
    <2>4. messages' # <<>>
        BY <1>3, EmptySeq
    <2> QED BY <1>3, <2>1, <2>2, <2>3, <2>4 DEF AskedInv
<1>10. GotInv'
    BY <1>1, <1>5 DEF ChatInv, GotInv
<1>11. LastIsRead'
    BY <1>1, <1>2, <1>3 DEF LastIsRead
<1>12. ShownIsVerified'
    <2>1. \A i \in 1 .. n : messages[i].result # Null =>
               \E p \in Questions : \E k \in 1 .. Arrived(p)' :
                   stream'[p].events[k] = Promise!Response(messages[i].result)
        <3>1. \A p \in Questions :
               /\ Arrived(p) <= Arrived(p)' /\ Arrived(p)' \in Nat
               /\ \A k \in 1 .. Arrived(p) : stream'[p].events[k] = stream[p].events[k]
            BY <1>5
        <3> QED BY <1>3, <3>1, ShownStays
    <2>2. \A i \in 1 .. n + 1 : i \in 1 .. n \/ i = n + 1
        BY <1>3
    <2> QED BY <1>2, <1>3, <2>1, <2>2 DEF ShownIsVerified
<1>13. NoAbandonedSpinner'
    <2>1. \A i \in 1 .. n : ~messages[i].streaming
        <3>1. ~(messages # <<>> /\ messages[n].streaming)
            BY <1>1 DEF ChatInv, NoAbandonedSpinner
        <3>2. \A i \in 1 .. n : messages[i].streaming => i = n
            BY <1>3 DEF ChatInv, NoAbandonedSpinner
        <3>3. messages = <<>> => n = 0
            BY EmptySeq
        <3> SUFFICES ASSUME NEW i \in 1 .. n, messages[i].streaming PROVE FALSE
            OBVIOUS
        <3>4. i = n
            BY <3>2, Zenon
        <3>5. n # 0
            BY <1>3, <3>4
        <3> QED BY <3>1, <3>3, <3>4, <3>5, Zenon
    <2>2. messages' # <<>>
        BY <1>3, EmptySeq
    <2>3. \A i \in 1 .. n + 1 : messages'[i].streaming => i = n + 1
        BY <1>3, <2>1
    <2> QED BY <1>1, <1>2, <1>3, <2>2, <2>3 DEF NoAbandonedSpinner
<1>14. PatientIsInStep'
    <2> SUFFICES ASSUME ~early'
                 PROVE  (\A i \in DOMAIN messages :
                            /\ messages[i].result # Null =>
                                    messages[i].result.about = messages[i].asked
                            /\ ~Answered(messages[i].asked) => messages[i].streaming)'
        BY DEF PatientIsInStep, PendingShowsSearching
    <2>1. ~early /\ reading' = {q}
        BY <1>1
    <2>2. \A i \in 1 .. n : messages[i].result # Null =>
                    messages[i].result.about = messages[i].asked
        BY <1>3, <2>1 DEF ChatInv, PatientIsInStep
    <2>3. ASSUME NEW i \in 1 .. n + 1
          PROVE  /\ messages'[i].result # Null =>
                        messages'[i].result.about = messages'[i].asked
                 /\ messages'[i].asked \in reading' => messages'[i].streaming
        <3>1. CASE i = n + 1
            BY <1>2, <1>3, <3>1
        <3>2. CASE i \in 1 .. n
            BY <1>3, <1>8, <2>1, <2>2, <3>2
        <3> QED BY <1>3, <3>1, <3>2
    <2> QED BY <1>3, <2>3 DEF Answered
<1> QED BY <1>6, <1>7, <1>9, <1>10, <1>11, <1>12, <1>13, <1>14 DEF ChatInv

LEMMA Replaced ==
    ASSUME NEW S, NEW s \in Seq(S), NEW n \in 1 .. Len(s), NEW m \in S,
           NEW t, t = [s EXCEPT ![n] = m]
    PROVE  /\ t \in Seq(S) /\ Len(t) = Len(s) /\ t[n] = m
           /\ \A i \in 1 .. Len(s) : i # n => t[i] = s[i]
OBVIOUS

(* A callback that ends the search of the bubble it writes to. *)
LEMMA TurnKeeps ==
    ASSUME ChatInv, reading # {}, NEW m \in Bubble, Turn(m),
           m.asked = messages[Len(messages)].asked, m.streaming = FALSE,
           UNCHANGED <<stream, early>>, reading' \subseteq reading,
           TypeOK', GotInv', LastIsRead',
           \A p \in Questions : Arrived(p) <= Arrived(p)' /\ Arrived(p)' \in Nat,
           m.result # Null =>
               \E p \in Questions : \E k \in 1 .. Arrived(p)' :
                   stream[p].events[k] = Promise!Response(m.result),
           ~early => /\ m.result # Null => m.result.about = m.asked
                     /\ Answered(m.asked)'
    PROVE  ChatInv'
<1> DEFINE n == Len(messages)
<1>1. /\ messages # <<>> /\ n \in Nat
      /\ DOMAIN messages = 1 .. n
      /\ \A i \in 1 .. n : messages[i].asked \in Questions
    BY MessageTypes DEF ChatInv, AskedInv
<1>2. n # 0
    <2>1. messages \in Seq(Bubble)
        BY DEF ChatInv, TypeOK
    <2> QED BY <1>1, <2>1
<1>3. /\ DOMAIN messages' = 1 .. n /\ Len(messages') = n /\ messages'[n] = m
      /\ \A i \in 1 .. n : i # n => messages'[i] = messages[i]
      /\ loading' = FALSE
    <2>1. messages \in Seq(Bubble) /\ messages' = [messages EXCEPT ![n] = m]
        BY DEF ChatInv, TypeOK, Turn, Target
    <2>2. n \in 1 .. Len(messages)
        BY <1>1, <1>2
    <2>3. /\ messages' \in Seq(Bubble) /\ Len(messages') = n /\ messages'[n] = m
          /\ \A i \in 1 .. n : i # n => messages'[i] = messages[i]
        BY <2>1, <2>2, Replaced
    <2>4. DOMAIN messages' = 1 .. n
        BY <2>3
    <2> QED BY <2>3, <2>4 DEF Turn
<1>4. StreamInv'
    BY StreamStays DEF ChatInv, StreamInv
<1>5. \A i \in 1 .. n : messages'[i].asked = messages[i].asked
    BY <1>3
<1>6. AskedInv'
    BY <1>1, <1>2, <1>3, <1>5, EmptySeq DEF ChatInv, AskedInv
<1>7. ShownIsVerified'
    <2>1. \A i \in 1 .. n : messages[i].result # Null =>
               \E p \in Questions : \E k \in 1 .. Arrived(p)' :
                   stream'[p].events[k] = Promise!Response(messages[i].result)
        BY <1>1, ShownStays
    <2> QED BY <1>3, <2>1 DEF ShownIsVerified
<1>8. NoAbandonedSpinner'
    <2>1. \A i \in 1 .. n : messages[i].streaming => i = n
        BY <1>1 DEF ChatInv, NoAbandonedSpinner
    <2>2. \A i \in 1 .. n : ~messages'[i].streaming
        BY <1>3, <2>1, Zenon
    <2>3. n \in 1 .. n
        BY <1>1, <1>2
    <2> QED BY <1>3, <2>2, <2>3, Zenon DEF NoAbandonedSpinner
<1>9. PatientIsInStep'
    <2> SUFFICES ASSUME ~early'
                 PROVE  (\A i \in DOMAIN messages :
                            /\ messages[i].result # Null =>
                                    messages[i].result.about = messages[i].asked
                            /\ ~Answered(messages[i].asked) => messages[i].streaming)'
        BY DEF PatientIsInStep, PendingShowsSearching
    <2>1. \A p \in Questions : Answered(p) => Answered(p)'
        BY AnsweredStays
    <2>2. ASSUME NEW i \in 1 .. n
          PROVE  /\ messages'[i].result # Null =>
                        messages'[i].result.about = messages'[i].asked
                 /\ \A p \in Questions :
                        p = messages'[i].asked /\ ~Answered(p)' => messages'[i].streaming
        <3>1. CASE i = n
            BY <1>3, <1>5, <3>1
        <3>2. CASE i # n
            BY <1>1, <1>3, <2>1, <3>2 DEF ChatInv, PatientIsInStep, PendingShowsSearching
        <3> QED BY <3>1, <3>2
    <2> QED BY <1>1, <1>3, <1>5, <2>2
<1> QED BY <1>4, <1>6, <1>7, <1>8, <1>9 DEF ChatInv

\* What a callback makes of the last bubble.
LEMMA Callbacks ==
    ASSUME NEW m \in Bubble
    PROVE  /\ OnDone(m) \in Bubble /\ OnDone(m).asked = m.asked
           /\ OnDone(m).streaming = FALSE /\ OnDone(m).result = m.result
           /\ OnError(m) \in Bubble /\ OnError(m).asked = m.asked
           /\ OnError(m).streaming = FALSE /\ OnError(m).result = Null
           /\ \A r \in Promise!Responses :
                LET d == OnDone(OnResult(m, r)) IN
                /\ d \in Bubble /\ d.asked = m.asked
                /\ d.streaming = FALSE /\ d.result = r
BY DEF OnDone, OnError, OnResult, Bubble

LEMMA LastBubble ==
    ASSUME ChatInv, reading # {}
    PROVE  LET m == messages[Len(messages)] IN
           /\ m \in Bubble /\ m.asked \in Questions
           /\ m.result # Null =>
               \E p \in Questions : \E k \in 1 .. Arrived(p) :
                   stream[p].events[k] = Promise!Response(m.result)
           /\ ~early => /\ reading = {m.asked}
                        /\ m.result # Null => m.result.about = m.asked
<1>1. messages # <<>> /\ messages \in Seq(Bubble)
    BY DEF ChatInv, AskedInv, TypeOK
<1>2. Len(messages) \in 1 .. Len(messages) /\ DOMAIN messages = 1 .. Len(messages)
    BY <1>1
<1>3. messages[Len(messages)] \in Bubble /\ messages[Len(messages)].asked \in Questions
    BY <1>2, MessageTypes DEF ChatInv
<1> QED BY <1>2, <1>3 DEF ChatInv, ShownIsVerified, LastIsRead, PatientIsInStep

\* A call that returns: at the end of the stream, refused or cut.
LEMMA ReturnKeeps ==
    ASSUME ChatInv, NEW q \in reading, reading' = reading \ {q},
           UNCHANGED <<stream, got, early>>,
           \/ Turn(OnDone(messages[Target]))
           \/ Turn(OnError(messages[Target]))
    PROVE  ChatInv'
<1>1. PICK m \in Bubble :
      /\ m = messages[Len(messages)] /\ m.asked \in Questions
      /\ m.result # Null =>
               \E p \in Questions : \E k \in 1 .. Arrived(p) :
                   stream[p].events[k] = Promise!Response(m.result)
      /\ ~early => /\ reading = {m.asked}
                   /\ m.result # Null => m.result.about = m.asked
    BY LastBubble
<1>0. Len(messages) \in 1 .. Len(messages)
    <2>1. messages # <<>> /\ messages \in Seq(Bubble)
        BY DEF ChatInv, AskedInv, TypeOK
    <2> QED BY <2>1
<1>2. /\ messages \in Seq(Bubble) /\ q \in Questions
      /\ messages[Target] = m
    BY <1>1 DEF ChatInv, TypeOK, Target
<1>3. \A p \in Questions : Arrived(p)' = Arrived(p) /\ Arrived(p) \in Nat
    BY ArrivedFacts DEF ChatInv, Arrived
<1>4. GotInv'
    BY DEF ChatInv, GotInv
<1>5. LastIsRead'
    <2>1. ~early => reading' = {}
        BY <1>1
    <2> QED BY <2>1 DEF LastIsRead
<1>6. ~early => Answered(m.asked)'
    <2>1. ~early => m.asked \notin reading'
        BY <1>1
    <2> QED BY <2>1 DEF Answered
<1>7. ASSUME NEW b \in Bubble, Turn(b), b.asked = m.asked, b.streaming = FALSE,
             b.result \in {m.result, Null}
      PROVE  ChatInv'
    <2>1. TypeOK'
        <3>1. messages' = [messages EXCEPT ![Len(messages)] = b] /\ loading' = FALSE
            BY <1>7 DEF Turn, Target
        <3>2. messages' \in Seq(Bubble)
            BY <1>0, <1>2, <3>1, Replaced
        <3> QED BY <3>1, <3>2 DEF ChatInv, TypeOK
    <2>2. b.asked = messages[Len(messages)].asked
        BY <1>1, <1>7
    <2>3. \A p \in Questions : Arrived(p) <= Arrived(p)' /\ Arrived(p)' \in Nat
        BY <1>3
    <2>4. b.result # Null =>
              \E p \in Questions : \E k \in 1 .. Arrived(p)' :
                  stream[p].events[k] = Promise!Response(b.result)
        BY <1>1, <1>3, <1>7
    <2>5. ~early => /\ b.result # Null => b.result.about = b.asked
                    /\ Answered(b.asked)'
        BY <1>1, <1>6, <1>7
    <2>6. reading # {} /\ reading' \subseteq reading
        OBVIOUS
    <2> QED BY <1>4, <1>5, <1>7, <2>1, <2>2, <2>3, <2>4, <2>5, <2>6, TurnKeeps
<1>8. CASE Turn(OnDone(messages[Target]))
    <2>1. /\ OnDone(m) \in Bubble /\ OnDone(m).asked = m.asked
          /\ OnDone(m).streaming = FALSE /\ OnDone(m).result = m.result
          /\ Turn(OnDone(m))
        BY <1>1, <1>2, <1>8, Callbacks
    <2> QED BY <1>7, <2>1
<1>9. CASE Turn(OnError(messages[Target]))
    <2>1. /\ OnError(m) \in Bubble /\ OnError(m).asked = m.asked
          /\ OnError(m).streaming = FALSE /\ OnError(m).result = Null
          /\ Turn(OnError(m))
        BY <1>1, <1>2, <1>9, Callbacks
    <2> QED BY <1>7, <2>1
<1> QED BY <1>8, <1>9

\* What a read adds to what has arrived.
LEMMA ReadFacts ==
    ASSUME ChatInv, NEW q \in Questions, NEW n \in got[q] + 1 .. 2 * Len(stream[q].events),
           n \div 2 <= Arrived(q) + 1, got' = [got EXCEPT ![q] = n],
           stream' = stream
    PROVE  /\ got' \in [Questions -> 0 .. 6] /\ GotInv'
           /\ n \div 2 \in Nat /\ Arrived(q)' = n \div 2
           /\ n \div 2 \in {Arrived(q), Arrived(q) + 1}
           /\ n \div 2 <= Len(stream[q].events)
           /\ \A p \in Questions : Arrived(p) <= Arrived(p)' /\ Arrived(p)' \in Nat
<1> DEFINE L == Len(stream[q].events)
<1>1. /\ got[q] \in Nat /\ Arrived(q) \in Nat /\ L \in Nat
      /\ 2 * Arrived(q) <= got[q] /\ got[q] <= 2 * Arrived(q) + 1
    BY ArrivedFacts DEF ChatInv
<1>2. L <= 3
    BY DEF ChatInv, StreamInv, StreamOK
<1> HIDE DEF L
<1>3. n \in Nat /\ got[q] < n /\ n <= 2 * L
    BY <1>1 DEF L
<1>4. n \div 2 \in Nat /\ 2 * (n \div 2) <= n /\ n <= 2 * (n \div 2) + 1
    BY <1>3, Halves
<1>5. n \div 2 \in {Arrived(q), Arrived(q) + 1} /\ n \div 2 <= L
    <2>1. \A a, g, h, k, l \in Nat :
              /\ 2 * a <= g /\ g < k /\ k <= 2 * l /\ k <= 2 * h + 1 /\ 2 * h <= k /\ h <= a + 1
              => h \in {a, a + 1} /\ h <= l
        OBVIOUS
    <2> QED BY <1>1, <1>3, <1>4, <2>1
<1>6. got \in [Questions -> 0 .. 6]
    BY DEF ChatInv, TypeOK
<1>7. /\ got' \in [Questions -> 0 .. 6] /\ got'[q] = n
      /\ \A p \in Questions : p # q => got'[p] = got[p]
    BY <1>2, <1>3, <1>6, <1>1
<1>8. GotInv'
    <2>1. \A p \in Questions : got'[p] <= 2 * Len(stream[p].events)
        BY <1>3, <1>7 DEF ChatInv, GotInv, L
    <2> QED BY <2>1 DEF GotInv
<1>9. Arrived(q)' = n \div 2
    BY <1>7 DEF Arrived
<1>10. ASSUME NEW p \in Questions
       PROVE  Arrived(p) <= Arrived(p)' /\ Arrived(p)' \in Nat
    <2>1. Arrived(p) \in Nat
        BY ArrivedFacts DEF ChatInv
    <2>2. CASE p = q
        BY <1>1, <1>4, <1>5, <1>9, <2>2
    <2>3. CASE p # q
        <3>1. Arrived(p)' = Arrived(p)
            BY <1>7, <2>3 DEF Arrived
        <3> QED BY <2>1, <3>1
    <2> QED BY <2>2, <2>3
<1> QED BY <1>4, <1>5, <1>7, <1>8, <1>9, <1>10 DEF L

LEMMA ReadKeeps ==
    ASSUME ChatInv, NEW q \in Questions, Read(q)
    PROVE  ChatInv'
<1>1. PICK n \in got[q] + 1 .. 2 * Len(stream[q].events) :
           /\ n \div 2 <= Arrived(q) + 1
           /\ got' = [got EXCEPT ![q] = n]
           /\ IF n \div 2 = Arrived(q) THEN UNCHANGED <<messages, loading>>
              ELSE OnEvent(stream[q].events[n \div 2])
    BY DEF Read
<1>2. /\ q \in reading /\ stream' = stream /\ reading' = reading /\ early' = early
    BY DEF Read
<1>3. /\ got' \in [Questions -> 0 .. 6] /\ GotInv'
      /\ n \div 2 \in Nat /\ Arrived(q)' = n \div 2
      /\ n \div 2 \in {Arrived(q), Arrived(q) + 1}
      /\ n \div 2 <= Len(stream[q].events)
      /\ \A p \in Questions : Arrived(p) <= Arrived(p)' /\ Arrived(p)' \in Nat
    BY <1>1, <1>2, ReadFacts
<1>4. StreamInv'
    BY <1>2, StreamStays DEF ChatInv, StreamInv
<1>5. CASE UNCHANGED <<messages, loading>>
    <2>1. TypeOK' /\ AskedInv' /\ LastIsRead' /\ NoAbandonedSpinner'
        BY <1>2, <1>3, <1>5 DEF ChatInv, TypeOK, AskedInv, LastIsRead, NoAbandonedSpinner
    <2>2. ShownIsVerified'
        BY <1>2, <1>3, <1>5, ShownStays DEF ShownIsVerified
    <2>3. PatientIsInStep'
        <3>1. \A i \in DOMAIN messages : messages[i].asked \in Questions
            BY MessageTypes DEF ChatInv
        <3>2. \A p \in Questions : Answered(p) => Answered(p)'
            BY <1>2, <1>3, AnsweredStays
        <3> QED BY <1>2, <1>5, <3>1, <3>2 DEF ChatInv, PatientIsInStep, PendingShowsSearching
    <2> QED BY <1>3, <1>4, <2>1, <2>2, <2>3 DEF ChatInv
<1> DEFINE k == n \div 2
           e == stream[q].events[k]
<1>6. CASE k # Arrived(q) /\ OnEvent(e) /\ ~UNCHANGED <<messages, loading>>
    <2>1. PICK m \in Bubble :
           /\ m = messages[Len(messages)] /\ m.asked \in Questions
           /\ m.result # Null =>
               \E p \in Questions : \E j \in 1 .. Arrived(p) :
                   stream[p].events[j] = Promise!Response(m.result)
           /\ ~early => /\ reading = {m.asked}
                        /\ m.result # Null => m.result.about = m.asked
        BY <1>2, LastBubble
    <2>2. /\ Arrived(q) \in Nat /\ k \in Nat /\ k \in 1 .. Len(stream[q].events)
          /\ k = Arrived(q) + 1 /\ Arrived(q)' = k /\ k \in 1 .. Arrived(q)'
          /\ e \in Events(q)
        <3>1. /\ Arrived(q) \in Nat /\ stream[q].events \in Seq(Events(q))
            BY ArrivedFacts DEF ChatInv
        <3>2. k \in Nat /\ k = Arrived(q) + 1 /\ k <= Len(stream[q].events) /\ Arrived(q)' = k
            BY <1>3, <1>6
        <3> HIDE DEF k
        <3>3. k \in 1 .. Len(stream[q].events)
            BY <3>1, <3>2
        <3> QED BY <3>1, <3>2, <3>3
    <2> HIDE DEF k
    <2>3. messages[Target] = m
        BY <2>1 DEF Target
    <2>4. Len(messages) \in 1 .. Len(messages) /\ messages \in Seq(Bubble)
        <3>1. messages # <<>> /\ messages \in Seq(Bubble)
            BY <1>2 DEF ChatInv, AskedInv, TypeOK
        <3> QED BY <3>1
    <2> HIDE DEF e
    <2>6. ASSUME NEW b \in Bubble, Turn(b), b.asked = m.asked, b.streaming = FALSE,
                 \/ b.result \in {m.result, Null}
                 \/ e = Promise!Response(b.result) /\ b.result.about = q,
                 ~early => Answered(q)'
          PROVE  ChatInv'
        <3>1. messages' = [messages EXCEPT ![Len(messages)] = b] /\ loading' = FALSE
            BY <2>6 DEF Turn, Target
        <3>2. /\ messages' \in Seq(Bubble) /\ Len(messages') = Len(messages)
              /\ messages'[Len(messages)] = b
            BY <2>4, <3>1, Replaced
        <3>3. TypeOK'
            BY <1>2, <1>3, <3>1, <3>2 DEF ChatInv, TypeOK
        <3>4. LastIsRead'
            BY <1>2, <2>1, <2>6, <3>2 DEF LastIsRead
        <3>5. b.asked = messages[Len(messages)].asked
            BY <2>1, <2>6
        <3>6. b.result # Null =>
                  \E p \in Questions : \E j \in 1 .. Arrived(p)' :
                      stream[p].events[j] = Promise!Response(b.result)
            <4>1. CASE b.result \in {m.result, Null}
                <5>1. \A p \in Questions : Arrived(p) \in Nat
                    BY ArrivedFacts DEF ChatInv
                <5>2. \A p \in Questions : \A j \in 1 .. Arrived(p) : j \in 1 .. Arrived(p)'
                    BY <1>3, <5>1
                <5> QED BY <2>1, <4>1, <5>2
            <4>2. CASE e = Promise!Response(b.result)
                BY <2>2, <4>2 DEF e
            <4> QED BY <2>6, <4>1, <4>2
        <3>7. ~early => q = m.asked
            BY <1>2, <2>1
        <3>8. ~early => /\ b.result # Null => b.result.about = b.asked
                        /\ Answered(b.asked)'
            BY <2>1, <2>6, <3>7
        <3>9. reading # {} /\ reading' \subseteq reading
            BY <1>2
        <3> QED BY <1>2, <1>3, <2>6, <3>3, <3>4, <3>5, <3>6, <3>8, <3>9, TurnKeeps
    <2>7. e.type \in {"response", "error"} => Answered(q)'
        <3>1. e.type \in {"response", "error"} =>
                  \E j \in 1 .. Arrived(q)' : stream'[q].events[j].type \in {"response", "error"}
            BY <1>2, <2>2 DEF e
        <3> QED BY <3>1 DEF Answered
    <2>8. CASE e.type = "response" /\ Turn(OnDone(OnResult(messages[Target], e.result)))
        <3>1. /\ e = Promise!Response(e.result) /\ e.result \in Promise!Responses
              /\ e.result.about = q
            BY <2>2, <2>8, EventKinds
        <3> DEFINE b == OnDone(OnResult(m, e.result))
        <3>2. /\ b \in Bubble /\ b.asked = m.asked /\ b.streaming = FALSE
              /\ b.result = e.result
            BY <3>1, Callbacks
        <3>3. Turn(b)
            BY <2>3, <2>8
        <3> HIDE DEF b
        <3> QED BY <2>6, <2>7, <2>8, <3>1, <3>2, <3>3
    <2>9. CASE e.type = "done" /\ Turn(OnDone(messages[Target]))
        <3>1. /\ OnDone(m) \in Bubble /\ OnDone(m).asked = m.asked
              /\ OnDone(m).streaming = FALSE /\ OnDone(m).result = m.result
              /\ Turn(OnDone(m))
            BY <2>3, <2>9, Callbacks
        <3>2. Answered(q)'
            <4>1. StreamOK(q)
                BY DEF ChatInv, StreamInv
            <4>2. k = 3 /\ stream[q].events[2].type = "response"
                <5>1. Len(stream[q].events) <= 3
                    BY <4>1 DEF StreamOK
                <5>2. k = 1 \/ k = 2 \/ k = 3
                    BY <2>2, <5>1
                <5> QED BY <2>2, <2>9, <4>1, <5>2 DEF StreamOK, e
            <4>3. 2 \in 1 .. Arrived(q)'
                <5>1. Arrived(q)' = 3
                    BY <2>2, <4>2
                <5>2. 2 \in 1 .. 3
                    OBVIOUS
                <5> QED BY <5>1, <5>2
            <4>4. stream'[q].events[2].type = "response"
                BY <1>2, <4>2
            <4> QED BY <4>3, <4>4 DEF Answered
        <3> QED BY <2>6, <3>1, <3>2
    <2>10. CASE e.type = "error" /\ Turn(OnError(messages[Target]))
        <3>1. /\ OnError(m) \in Bubble /\ OnError(m).asked = m.asked
              /\ OnError(m).streaming = FALSE /\ OnError(m).result = Null
              /\ Turn(OnError(m))
            BY <2>3, <2>10, Callbacks
        <3> QED BY <2>6, <2>7, <2>10, <3>1
    <2> QED BY <1>6, <2>8, <2>9, <2>10 DEF OnEvent
<1> QED BY <1>1, <1>5, <1>6

LEMMA StepKeeps == ChatInv /\ [Next]_vars => ChatInv'
<1> SUFFICES ASSUME ChatInv, [Next]_vars PROVE ChatInv'
    OBVIOUS
<1>1. ASSUME NEW q \in Questions, Send(q)
      PROVE  ChatInv'
    BY <1>1, SendKeeps
<1>2. ASSUME NEW q \in Questions, Serve(q)
      PROVE  ChatInv'
    BY <1>2, ServeKeeps
<1>3. ASSUME NEW q \in Questions, Client(q) \/ Cut(q)
      PROVE  ChatInv'
    <2>1. CASE Read(q)
        BY <2>1, ReadKeeps
    <2>2. CASE StreamEnds(q)
        BY <2>2, ReturnKeeps DEF StreamEnds
    <2>3. CASE Refused(q)
        BY <2>3, ReturnKeeps DEF Refused
    <2>4. CASE Cut(q)
        BY <2>4, ReturnKeeps DEF Cut
    <2> QED BY <1>3, <2>1, <2>2, <2>3, <2>4 DEF Client
<1>4. CASE UNCHANGED vars
    <2>1. UNCHANGED <<stream, got, reading, messages, loading, early>>
        BY <1>4 DEF vars
    <2>2. \A p \in Questions : StreamOK(p)'
        BY <2>1, StreamStays DEF ChatInv, StreamInv
    <2>3. TypeOK' /\ AskedInv' /\ GotInv' /\ LastIsRead' /\ NoAbandonedSpinner'
        BY <2>1 DEF ChatInv, TypeOK, AskedInv, GotInv, LastIsRead, NoAbandonedSpinner
    <2>4. ShownIsVerified' /\ PatientIsInStep' /\ StreamInv'
        BY <2>1, <2>2 DEF ChatInv, ShownIsVerified, PatientIsInStep, PendingShowsSearching,
           StreamInv, Arrived, Answered
    <2> QED BY <2>3, <2>4 DEF ChatInv
<1> QED BY <1>1, <1>2, <1>3, <1>4 DEF Next

\* The state of the page is well-formed, and a stream holds at most three
\* events (ChatPage.tsx, api/client.ts ragStream).
THEOREM ChatTypes == Spec => []TypeOK
<1>1. ChatInv => TypeOK
    BY DEF ChatInv
<1> QED BY <1>1, ChatInit, StepKeeps, PTL DEF Spec

\* What the page shows as an answer was sent by the server as a complete,
\* verified response, however the stream was cut into pieces (ChatPage.tsx:39).
THEOREM ShowsOnlyVerified == Spec => []ShownIsVerified
<1>1. ChatInv => ShownIsVerified
    BY DEF ChatInv
<1> QED BY <1>1, ChatInit, StepKeeps, PTL DEF Spec

\* Only the last bubble searches, exactly while the page is loading
\* (ChatPage.tsx:53, 61, 71).
THEOREM SpinnerIsLoading == Spec => []NoAbandonedSpinner
<1>1. ChatInv => NoAbandonedSpinner
    BY DEF ChatInv
<1> QED BY <1>1, ChatInit, StepKeeps, PTL DEF Spec

\* As long as every question waited for the stream before it, a bubble shows
\* the answer to its own question and searches until that has come
\* (ChatPage.tsx:63-72).
THEOREM PatientInStep == Spec => []PatientIsInStep
<1>1. ChatInv => PatientIsInStep
    BY DEF ChatInv
<1> QED BY <1>1, ChatInit, StepKeeps, PTL DEF Spec

\* A bubble that shows an answer does not search.
Found == \A i \in DOMAIN messages : messages[i].result # Null => messages[i].streaming = FALSE

LEMMA FoundKeeps == ChatInv /\ Found /\ [Next]_vars => Found'
<1> SUFFICES ASSUME ChatInv, Found, [Next]_vars PROVE Found'
    OBVIOUS
<1>1. messages \in Seq(Bubble) /\ Len(messages) \in Nat /\ DOMAIN messages = 1 .. Len(messages)
    BY MessageTypes DEF ChatInv, TypeOK
<1>2. ASSUME NEW b, Turn(b), b.streaming = FALSE PROVE Found'
    <2>1. messages' = [messages EXCEPT ![Len(messages)] = b]
        BY <1>2 DEF Turn, Target
    <2> QED BY <1>1, <1>2, <2>1 DEF Found
<1>3. ASSUME reading # {}
      PROVE  /\ OnDone(messages[Target]).streaming = FALSE
             /\ OnError(messages[Target]).streaming = FALSE
             /\ \A r : OnDone(OnResult(messages[Target], r)).streaming = FALSE
    <2>1. messages[Target] \in Bubble
        BY <1>1, <1>3 DEF ChatInv, AskedInv, Target
    <2> QED BY <2>1 DEF OnDone, OnError, OnResult, Bubble
<1>4. CASE UNCHANGED messages
    BY <1>4 DEF Found
<1>5. ASSUME NEW q \in Questions, Send(q) PROVE Found'
    <2>1. PICK b : messages' = Append(messages, b) /\ b.result = Null
        BY <1>5 DEF Send
    <2> QED BY <1>1, <2>1 DEF Found
<1>6. ASSUME NEW q \in Questions, Client(q) \/ Cut(q) PROVE Found'
    <2>1. reading # {}
        BY <1>6 DEF Client, Read, StreamEnds, Refused, Cut
    <2>2. ASSUME NEW e, OnEvent(e) PROVE Found'
        BY <1>2, <1>3, <1>4, <2>1, <2>2 DEF OnEvent
    <2>3. CASE Read(q)
        BY <1>4, <2>2, <2>3 DEF Read
    <2>4. CASE StreamEnds(q) \/ Refused(q) \/ Cut(q)
        BY <1>2, <1>3, <2>1, <2>4 DEF StreamEnds, Refused, Cut
    <2> QED BY <1>6, <2>3, <2>4 DEF Client
<1>7. ASSUME NEW q \in Questions, Serve(q) PROVE Found'
    BY <1>4, <1>7 DEF Serve
<1>8. CASE UNCHANGED vars
    BY <1>4, <1>8 DEF vars
<1> QED BY <1>5, <1>6, <1>7, <1>8 DEF Next

\* For a patient user, the stream of the question whose answer is shown has
\* nothing left to deliver but its `done`.
LEMMA OnlyDoneIsLeft ==
    ASSUME ChatInv, ~early, NEW i \in DOMAIN messages, messages[i].result # Null,
           NEW n \in Nat, n > Arrived(messages[i].asked),
           n <= Len(stream[messages[i].asked].events)
    PROVE  stream[messages[i].asked].events[n].type = "done"
<1>1. messages[i] \in Bubble
    BY MessageTypes DEF ChatInv, TypeOK
<1>2. messages[i].result.about = messages[i].asked
    <2>1. PatientIsInStep
        BY DEF ChatInv
    <2> QED BY <2>1, Zenon DEF PatientIsInStep
<1>3. PICK q \in Questions : \E k \in 1 .. Arrived(q) :
          stream[q].events[k] = Promise!Response(messages[i].result)
    BY DEF ChatInv, ShownIsVerified
<1>4. PICK k \in 1 .. Arrived(q) :
          stream[q].events[k] = Promise!Response(messages[i].result)
    BY <1>3
<1>5. /\ StreamOK(q) /\ got[q] \in Nat /\ got[q] <= 2 * Len(stream[q].events)
      /\ Len(stream[q].events) \in Nat
    <2>1. StreamOK(q) /\ got[q] \in 0 .. 6 /\ got[q] <= 2 * Len(stream[q].events)
        BY DEF ChatInv, StreamInv, TypeOK, GotInv
    <2> QED BY <2>1 DEF StreamOK
<1>6. Arrived(q) \in Nat /\ Arrived(q) <= Len(stream[q].events) /\ k \in Nat
    BY <1>5 DEF Arrived
<1>7. k \in 1 .. Len(stream[q].events) /\ stream[q].events[k] \in Events(q)
    BY <1>5, <1>6 DEF StreamOK
<1>8. q = messages[i].asked
    <2>1. stream[q].events[k].type = "response" /\ stream[q].events[k].result = messages[i].result
        BY <1>4 DEF Promise!Response
    <2>2. PICK r \in Promise!Promised(q) : stream[q].events[k] = Promise!Response(r)
        BY <1>7, <2>1 DEF Events, Promise!Status, Promise!Done, Promise!Failure
    <2>3. r = messages[i].result /\ r.about = q
        BY <2>1, <2>2 DEF Promise!Response, Promise!Promised
    <2> QED BY <1>2, <2>3
<1>9. k = 2
    <2>1. stream[q].events[k].type = "response"
        BY <1>4 DEF Promise!Response
    <2>2. k \in {1, 2, 3}
        BY <1>5, <1>7 DEF StreamOK
    <2> QED BY <1>5, <1>7, <2>1, <2>2 DEF StreamOK
<1>10. n = 3 /\ n \in 1 .. Len(stream[q].events)
    BY <1>5, <1>6, <1>8, <1>9 DEF StreamOK
<1> QED BY <1>5, <1>8, <1>10 DEF StreamOK

\* An answer that has a question under it never changes, and a patient user's
\* last one only into the error of its own connection, before its stream is
\* closed (ChatPage.tsx:55-62).
THEOREM AnswersStay == Spec => AnswerStays
<1> DEFINE Stays == \A i \in DOMAIN messages :
        messages[i].result # Null /\ messages'[i] # messages[i] =>
            /\ i = Len(messages)
            /\ ~early => /\ messages'[i].error /\ messages'[i].result = Null
                         /\ messages[i].asked \in reading \ reading'
<1>1. ChatInv /\ Found /\ [Next]_vars => Stays
    <2> SUFFICES ASSUME ChatInv, Found, [Next]_vars, NEW i \in DOMAIN messages,
                        messages[i].result # Null, messages'[i] # messages[i]
                 PROVE  /\ i = Len(messages)
                        /\ ~early => /\ messages'[i].error /\ messages'[i].result = Null
                                     /\ messages[i].asked \in reading \ reading'
        OBVIOUS
    <2>1. /\ messages \in Seq(Bubble) /\ Len(messages) \in Nat
          /\ DOMAIN messages = 1 .. Len(messages) /\ messages[i] \in Bubble
        BY MessageTypes DEF ChatInv, TypeOK
    <2>2. ASSUME NEW b, Turn(b)
          PROVE  i = Len(messages) /\ messages'[i] = b
        <3>1. messages' = [messages EXCEPT ![Len(messages)] = b]
            BY <2>2 DEF Turn, Target
        <3> QED BY <2>1, <3>1
    <2>3. OnDone(messages[i]) = messages[i]
        BY <2>1 DEF Found, OnDone, Bubble
    <2>4. ~Turn(OnDone(messages[Target]))
        BY <2>2, <2>3 DEF Target
    <2>5. OnError(messages[i]).error /\ OnError(messages[i]).result = Null
        BY <2>1 DEF OnError, Bubble
    <2>6. ASSUME NEW q \in Questions, Send(q)
          PROVE  FALSE
        <3>1. PICK b : messages' = Append(messages, b)
            BY <2>6 DEF Send
        <3> QED BY <2>1, <3>1
    <2>7. ASSUME NEW q \in Questions, Read(q)
          PROVE  i = Len(messages) /\ early
        <3>1. PICK n \in got[q] + 1 .. 2 * Len(stream[q].events) :
                  /\ n \div 2 <= Arrived(q) + 1
                  /\ IF n \div 2 = Arrived(q) THEN UNCHANGED <<messages, loading>>
                     ELSE OnEvent(stream[q].events[n \div 2])
            BY <2>7 DEF Read
        <3>2. OnEvent(stream[q].events[n \div 2]) /\ n \div 2 # Arrived(q)
            BY <3>1
        <3> DEFINE e == stream[q].events[n \div 2]
        <3>3. /\ e.type # "done"
              /\ \E b : Turn(b)
            BY <2>4, <3>2 DEF OnEvent
        <3>4. i = Len(messages)
            BY <2>2, <3>3
        <3>5. ASSUME ~early PROVE FALSE
            <4>1. q = messages[i].asked
                BY <2>7, <3>4, <3>5 DEF ChatInv, LastIsRead, Read
            <4>2. /\ got[q] \in Nat /\ Len(stream[q].events) \in Nat
                BY DEF ChatInv, TypeOK, StreamInv, StreamOK
            <4>3. /\ n \div 2 \in Nat /\ n \div 2 <= Len(stream[q].events)
                  /\ n \div 2 > Arrived(q)
                BY <3>1, <3>2, <4>2 DEF Arrived
            <4>4. stream[messages[i].asked].events[n \div 2].type = "done"
                BY <3>5, <4>1, <4>3, OnlyDoneIsLeft
            <4> QED BY <3>3, <4>1, <4>4
        <3> QED BY <3>4, <3>5
    <2>8. ASSUME NEW q \in Questions, StreamEnds(q)
          PROVE  FALSE
        BY <2>4, <2>8 DEF StreamEnds
    <2>9. ASSUME NEW q \in Questions, Refused(q) \/ Cut(q)
          PROVE  /\ i = Len(messages)
                 /\ ~early => /\ messages'[i].error /\ messages'[i].result = Null
                              /\ messages[i].asked \in reading \ reading'
        <3>1. q \in reading /\ reading' = reading \ {q} /\ Turn(OnError(messages[Target]))
            BY <2>9 DEF Refused, Cut
        <3>2. i = Len(messages) /\ messages'[i] = OnError(messages[i])
            BY <2>2, <3>1 DEF Target
        <3>3. ~early => q = messages[i].asked
            BY <3>1, <3>2 DEF ChatInv, LastIsRead
        <3> QED BY <2>5, <3>1, <3>2, <3>3
    <2>10. ASSUME NEW q \in Questions, Serve(q)
          PROVE  FALSE
        BY <2>10 DEF Serve
    <2>11. CASE UNCHANGED vars
        BY <2>11 DEF vars
    <2> QED BY <2>6, <2>7, <2>8, <2>9, <2>10, <2>11 DEF Next, Client
<1>2. Stays => [Stays]_vars
    OBVIOUS
<1>3. Init => Found
    BY EmptySeq DEF Init, Found
<1> QED BY <1>1, <1>2, <1>3, ChatInit, StepKeeps, FoundKeeps, PTL DEF Spec, AnswerStays
=============================================================================
