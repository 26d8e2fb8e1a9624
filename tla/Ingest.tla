------------------------------- MODULE Ingest --------------------------------
(***************************************************************************)
(* What a candidate build embeds: every document that discovery found, cut *)
(* into chunks (build_trusted_index.py 232-235, chunks_for_document).      *)
(***************************************************************************)
EXTENDS DocDiscovery, Chunker

CONSTANT Contents   \* what a text may be, as the chunker sees it

ASSUME ContentsAssumption ==
    \A t \in Texts : \A s \in Contents[t] :
        s \in Seq(Characters \cup Headers) /\ FencesWhole(s)

VARIABLE chunked    \* how many documents chunk_text was called for

ingestVars == <<vars, chunkVars, chunked>>

ChunkDoc ==
    /\ pc = "done" /\ Done /\ chunked < Len(docs)
    /\ \E t \in Contents[docs[chunked + 1].text] : Start(t)
    /\ chunked' = chunked + 1
    /\ UNCHANGED vars

IngestInit == Init /\ ChunkInit /\ chunked = 0

IngestNext ==
    \/ DiscoveryNext /\ pc # "done" /\ UNCHANGED <<chunkVars, chunked>>
    \/ ChunkDoc
    \/ ChunkStep /\ UNCHANGED <<vars, chunked>>

IngestSpec == IngestInit /\ [][IngestNext]_ingestVars
-----------------------------------------------------------------------------
(* Properties *)

\* Cutting a document loses none of its text and none of its headings, and
\* "fenced code blocks are never split": not as long as every budget's worth
\* of text around them has a blank to cut at.
ChunksKeepTheText ==
    /\ Done /\ chunked > 0 => Keeps
    /\ \A n \in DOMAIN chunks :
        Breakable(Body(text, HeadOf(chunks[n])), chunks[n].crumb) => FencesWhole(chunks[n].body)

\* Chunks stay within MAX_CHARS but for the cases the chunker documents.
ChunksFit == \A n \in DOMAIN chunks : Fits(chunks[n])

\* In a document that starts at H1 and skips no level, a chunk is prefixed
\* with its ancestor header chain.
CrumbsOfWellNested == WellNested(text) => CrumbsAre

\* "Each chunk is prefixed with its ancestor header chain" (chunker.py:111),
\* whatever the levels the document uses.
CrumbsAreAncestry == CrumbsAre
=============================================================================
