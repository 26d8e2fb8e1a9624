------------------------------ MODULE MCAskChat -----------------------------
(* The pages of the UI that ask: the Ask page, or the Search page.  The app *)
(* shows one page at a time and they share no state, so they are checked    *)
(* beside each other.                                                       *)
(* One excerpt is enough: what matters is whose answer it is part of.       *)
EXTENDS AskChat, SearchPage
CONSTANT c1

MCChunks == {c1}

SearchIsNew == made = {} /\ mode = "documentation"

PagesVars == <<vars, searchVars>>
PagesInit == Init /\ SearchInit
PagesNext ==
    \/ Next /\ SearchIsNew /\ UNCHANGED searchVars
    \/ SearchNext /\ messages = <<>> /\ UNCHANGED vars
PagesSpec ==
    /\ PagesInit /\ [][PagesNext]_PagesVars
    /\ \A q \in Questions : /\ WF_PagesVars(Serve(q) /\ UNCHANGED searchVars)
                            /\ WF_PagesVars(Client(q) /\ UNCHANGED searchVars)
    /\ WF_PagesVars(Reply /\ UNCHANGED vars)

\* Neither page is left loading, whatever the server, the connection and the
\* user do: its `loading` is what the next question or the button waits for
\* (ChatPage.tsx:32, SearchPage.tsx:31, ToolDiscovery.tsx:66).
PagesSettle == LoadingEnds /\ SearchEnds
=============================================================================
