------------------------------ MODULE MCIngest ------------------------------
(* A docs checkout that may be pulled once during the pass, and one of a    *)
(* tool that is configured twice; in one history it is the tool's that is   *)
(* pulled.  A page is published, or has one or two faults.                  *)
EXTENDS Ingest, TLC
CONSTANTS docsrepo, tools, page, readme, draft, artifact
MCConfigured == <<tools, docsrepo, tools>>
MCDirs == {<<>>, <<"site">>, <<"site", "work">>, <<"build">>}
MCDirOf == (page :> <<"site">>) @@ (readme :> <<>>) @@ (draft :> <<"site", "work">>) @@ (artifact :> <<"build">>)
MCNameOf == (page :> "page.md") @@ (readme :> "README.md") @@ (draft :> "page.md") @@ (artifact :> "README.md")

CommitOf(inv, held, dir, said) ==
    [inventory |-> IF inv = Malformed THEN inv ELSE [p \in Paths |-> IF p = page THEN inv ELSE "INTERNAL"],
     manifest |-> IF held \in {Missing, Malformed} THEN held ELSE [p \in Paths |-> IF p = page THEN held ELSE "kept"],
     policy |-> dir,
     text |-> (page :> said) @@ (readme :> "absent") @@ (draft :> "b") @@ (artifact :> "b")]

PublishedAs(said) == CommitOf("PUBLIC", "kept", <<"site">>, said)

\* At most two of the four facts differ from a published page.
FewFaults(inv, held, dir, said) ==
    Cardinality({f \in 1 .. 4 : ~ <<inv = "PUBLIC", held = "kept", dir = <<"site">>, said = "b">>[f]}) <= 2

AnyCommit ==
    {CommitOf(t[1], t[2], t[3], t[4]) :
        t \in {u \in {"PUBLIC", "INTERNAL", "unlisted"} \X {"kept", "INTERNAL", "REVIEW_REQUIRED", Missing}
                      \X {<<"site">>, <<"site", "work">>, Missing} \X {"a", "b", "absent", "empty"} :
               FewFaults(u[1], u[2], u[3], u[4])}}
    \cup {CommitOf(Malformed, "kept", <<"site">>, "b"), CommitOf("PUBLIC", Malformed, <<"site">>, "b"),
          CommitOf("PUBLIC", "kept", Malformed, "b")}
OneFault ==
    {CommitOf("INTERNAL", "kept", <<"site">>, "b"), CommitOf("PUBLIC", "INTERNAL", <<"site">>, "a"),
     CommitOf("PUBLIC", "kept", Missing, "b")}
Pulls ==
    {<<c, PublishedAs("b")>> : c \in AnyCommit}
    \cup {<<PublishedAs("b"), c>> : c \in AnyCommit}
    \cup {<<c, d>> : c \in OneFault, d \in OneFault}
ToolsCommit == [PublishedAs("b") EXCEPT !.text = [@ EXCEPT ![readme] = "b"]]
MCHistories ==
    {(docsrepo :> h) @@ (tools :> <<ToolsCommit>>) : h \in Pulls}
    \cup {(docsrepo :> <<PublishedAs("b")>>) @@ (tools :> <<ToolsCommit, PublishedAs("b")>>)}
    \cup {(docsrepo :> <<PublishedAs("long")>>) @@ (tools :> <<CommitOf("INTERNAL", "kept", Missing, "absent")>>)}

(* The texts "a" and "b" are one word; "long" is any body of five tokens    *)
(* (a character, a word of four, a space, a blank line, a fence), or four   *)
(* when a single newline is one of them, under no heading or one, any of    *)
(* four tokens under two headings or three, and any five headings and       *)
(* characters.                                                              *)
SeqsUpTo(S, n) == UNION {[1 .. k -> S] : k \in 0 .. n}
Word == <<"x", "x", "x", "x">>
MCTokens == {<<"x">>, Word, <<"_">>, <<"n", "n">>, <<"<", ">">>}
MCBodies == SeqsUpTo(MCTokens, 5) \cup SeqsUpTo(MCTokens \cup {<<"n">>}, 4)
Long ==
    {h \o Concat(b) : h \in {<<>>, <<"h1">>}, b \in MCBodies}
    \cup {h \o Concat(b) : h \in {<<"h1", "h2">>, <<"h1", "h2", "h3">>}, b \in SeqsUpTo(MCTokens, 4)}
    \cup SeqsUpTo({"x", "h1", "h2", "h3"}, 5)
MCContents == [t \in {"a", "b", "long"} |-> IF t = "long" THEN Long ELSE {Word}]
=============================================================================
