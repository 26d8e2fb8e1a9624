---------------------------- MODULE MCAskServer -----------------------------
(* The API of the hub: one question on /rag/stream, or one request on       *)
(* /api/discovery.  The handlers share no state but the container's, so     *)
(* they are checked beside each other and not against each other.           *)
(* Two excerpts: one has the name in its path alone, one has the number of  *)
(* the prompt's examples in its title alone; retrieval may repeat one, and  *)
(* then brings another after it (what only ends in repetitions reads as     *)
(* what goes before them).                                                  *)
EXTENDS AskServer, StructuredDiscovery

CONSTANTS c1, c2, n1, k1, k2, s1, s2, a1, a2

MCChunks == {c1, c2}
MCNames == {n1}
MCNumbers == {k1, k2}
MCExampleOnly == {k2}
MCExcerpt == [c \in MCChunks |->
    IF c = c1 THEN [text |-> {}, title |-> {k1}, path |-> {n1}]
              ELSE [text |-> {k1}, title |-> {k2}, path |-> {}]]
MCOwnerOf == [a \in {a1, a2} |-> IF a = a1 THEN s1 ELSE s2]

AllIdle == \A q \in Questions : job[q].pc = "idle"

LastIsNew(docs) == \A i \in DOMAIN docs : i < Len(docs) => docs[i] # docs[Len(docs)]

ApiInit == Init /\ RequestInit
\* The catalog matters to the second alone: the first is explored with one.
ApiNext ==
    \/ /\ Next
       /\ \A q \in Questions : LastIsNew(job'[q].docs)
       /\ request.pc = "idle" /\ catalog = Unreadable /\ UNCHANGED discoveryVars
    \/ RequestNext /\ AllIdle /\ UNCHANGED vars
ApiSpec ==
    /\ ApiInit /\ [][ApiNext]_<<vars, discoveryVars>>
    /\ \A q \in Questions : WF_<<vars, discoveryVars>>(Handle(q) /\ UNCHANGED discoveryVars)
=============================================================================
