----------------------------- MODULE SearchPage -----------------------------
(***************************************************************************)
(* The Search page and the tool discovery inside it:                       *)
(* pages/SearchPage.tsx and components/ToolDiscovery.tsx.                  *)
(*                                                                         *)
(* Both have one request pattern: clear what is shown, set `loading`, wait *)
(* for the reply, show it, clear `loading`.  Only the button looks at      *)
(* `loading`; Enter starts another search at any time, and replies arrive  *)
(* in any order.  The two differ in what they keep: the documentation mode *)
(* has one variable for a result or an error and stays mounted behind the  *)
(* tools, the tools have two variables and are unmounted with their mode.  *)
(***************************************************************************)
EXTENDS Integers, FiniteSets

CONSTANTS
    Searches,       \* bound: each is made once
    None

Modes == {"documentation", "tools"}

VARIABLES
    mode,           \* which of the two is on the screen
    tab,            \* the state of each
    made,           \* the searches made so far
    hasty           \* the modes whose last search was made while another was running

searchVars == <<mode, tab, made, hasty>>

\* asked: the last search; result, error: the search whose outcome is shown.
Mounted == [running |-> {}, asked |-> None, result |-> None, error |-> None, loading |-> FALSE]

SearchInit ==
    /\ mode = "documentation"
    /\ tab = [m \in Modes |-> Mounted]
    /\ made = {}
    /\ hasty = {}

\* Mutant: what is shown stays until the reply replaces it.
Begin_Keeping(t, s) ==
    [t EXCEPT !.running = @ \cup {s}, !.asked = s, !.loading = TRUE]

Begin(t, s) ==
    [t EXCEPT !.running = @ \cup {s}, !.asked = s, !.loading = TRUE, !.result = None, !.error = None]

\* Mutant: no `finally`.
Ended_OnSuccess(t, s) == [t EXCEPT !.running = @ \ {s}, !.loading = t.error # None /\ @]

\* The `finally` of a search.
Ended(t, s) == [t EXCEPT !.running = @ \ {s}, !.loading = FALSE]

\* search(): from the button, or with Enter.
Search(s) ==
    /\ s \notin made
    /\ tab' = [tab EXCEPT ![mode] = Begin(@, s)]
    /\ made' = made \cup {s}
    /\ hasty' = IF tab[mode].running # {} THEN hasty \cup {mode} ELSE hasty \ {mode}
    /\ UNCHANGED mode

\* The documentation mode has one variable for both outcomes.
Remains(m, kept) == IF m = "documentation" THEN None ELSE kept

\* setResult(res)
Arrives(m, s) ==
    /\ s \in tab[m].running
    /\ tab' = [tab EXCEPT ![m] =
                  Ended([@ EXCEPT !.result = s, !.error = Remains(m, tab[m].error)], s)]
    /\ UNCHANGED <<mode, made, hasty>>

\* Mutant: the error has a variable of its own in both modes.
Rejects_Beside(m, s) ==
    /\ s \in tab[m].running
    /\ tab' = [tab EXCEPT ![m] = Ended([@ EXCEPT !.error = s], s)]
    /\ UNCHANGED <<mode, made, hasty>>

\* setResult({error}), or setError
Rejects(m, s) ==
    /\ s \in tab[m].running
    /\ tab' = [tab EXCEPT ![m] =
                  Ended([@ EXCEPT !.result = Remains(m, tab[m].result), !.error = s], s)]
    /\ UNCHANGED <<mode, made, hasty>>

\* setMode: the tools are mounted anew, a reply to the old ones finds nothing.
SetMode ==
    /\ mode' \in Modes \ {mode}
    /\ tab' = [tab EXCEPT !["tools"] = Mounted]
    /\ hasty' = hasty \ {"tools"}
    /\ UNCHANGED made

Reply == \E m \in Modes, s \in Searches : Arrives(m, s) \/ Rejects(m, s)
SearchNext == SetMode \/ Reply \/ \E s \in Searches : Search(s)

\* fetch resolves or rejects (the server ends every request).
SearchFairness == WF_searchVars(Reply)

SearchSpec == SearchInit /\ [][SearchNext]_searchVars /\ SearchFairness
-----------------------------------------------------------------------------
(* Properties *)

\* Replies in any order: a user who waited for the replies to all earlier
\* searches is not shown the outcome of one of them, also when the mode was
\* switched in between (SearchPage.tsx:22-34).
ShowsTheLastSearch ==
    \A m \in Modes \ hasty : {tab[m].result, tab[m].error} \subseteq {tab[m].asked, None}

\* A mode shows a result or an error, not both; for the tools, whose replies
\* do not clear each other, only if no search overtook another
\* (ToolDiscovery.tsx:61-66).
OneOutcome ==
    \A m \in Modes :
        None \in {tab[m].result, tab[m].error} \/ (m = "tools" /\ m \in hasty)

SearchEnds == \A m \in Modes : tab[m].loading ~> ~tab[m].loading
=============================================================================
