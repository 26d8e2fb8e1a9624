------------------------------- MODULE Chunker -------------------------------
(***************************************************************************)
(* processing/chunker.py `chunk_text`: a markdown text is cut at its       *)
(* headings, a section that is too long at its blank lines, a paragraph    *)
(* that is too long at its spaces.  Every piece is prefixed with the       *)
(* breadcrumb of headings above it.  Fenced code is replaced by            *)
(* placeholders first and put back last, so that nothing cuts into it.     *)
(*                                                                         *)
(* A text is what is cut, with the placeholders in it: "x" stands for a    *)
(* character, "_" for a space, "n" for a newline (two of them are a blank  *)
(* line), "<" and ">" for the two ends of a placeholder, "h1" to "h3" for  *)
(* a heading line.  The loops over sections, paragraphs and words are the  *)
(* three phases; each step of one is an action.                            *)
(***************************************************************************)
EXTENDS Integers, FiniteSetsExt, Subsequences

CONSTANTS
    MaxChars,       \* MAX_CHARS
    HeaderLen,      \* length of a heading line
    FenceLen        \* length of a fenced block

ASSUME LengthAssumption == {MaxChars, HeaderLen, FenceLen} \subseteq Nat \ {0}

VARIABLES
    text,           \* the text
    next,           \* the section to come: the place of its heading, 0 for what precedes the first
    stack,          \* header_stack: the places of the headings
    chunks,         \* all_chunks
    phase,          \* the loop that runs: "sections", "paragraphs" or "words"
    tail,           \* the paragraphs to come
    joined, size,   \* current_parts, as they will be joined, and current_len
    rest            \* the words to come

chunkVars == <<text, next, stack, chunks, phase, tail, joined, size, rest>>

Headers == {"h1", "h2", "h3"}
Level(t) == CASE t = "h1" -> 1 [] t = "h2" -> 2 [] t = "h3" -> 3
Blank == {"_", "n"}
Characters == Blank \cup {"x", "<", ">"}
-----------------------------------------------------------------------------
(* Strings *)

IsBlank(s) == \A i \in DOMAIN s : s[i] \in Blank

LeftStrip(s, set) ==
    SubSeq(s, Min({i \in DOMAIN s : s[i] \notin set} \cup {Len(s) + 1}), Len(s))
RightStrip(s, set) ==
    SubSeq(s, 1, Max({i \in DOMAIN s : s[i] \notin set} \cup {0}))
Strip(s) == RightStrip(LeftStrip(s, Blank), Blank)

Fences(s) == {i \in 1 .. Len(s) - 1 : s[i] = "<" /\ s[i + 1] = ">"}

\* _real_len: the length a string has once its fences are put back.
RealLen(s) == Len(s) + Cardinality(Fences(s)) * (FenceLen - 2)

\* A string is cut before the last of its first `max` characters that is a
\* space, but not the very first; without one, after `max` characters.
WordBoundary(s, max) ==
    LET spaces == {i \in 2 .. max : s[i] = "_"}
    IN  IF spaces = {} THEN max ELSE Max(spaces) - 1

\* Paragraphs end where there are two newlines or more; a single one is
\* part of its paragraph.
Breaks(s) == {i \in 1 .. Len(s) - 1 : s[i] = "n" /\ s[i + 1] = "n"}

\* Where the first paragraph of a string ends, and the newlines begin.
ParagraphEnd(s) == Min(Breaks(s) \cup {Len(s) + 1}) - 1
-----------------------------------------------------------------------------
(* Sections *)

HeadsOf(t) == {i \in DOMAIN t : t[i] \in Headers}

NextHead(i) == Min({j \in HeadsOf(text) : j > i} \cup {Len(text) + 1})

Body(t, i) ==
    SubSeq(t, i + 1, Min({j \in HeadsOf(t) : j > i} \cup {Len(t) + 1}) - 1)

\* Mutant: a heading keeps its siblings on the stack.
Push_Siblings(i) ==
    IF i = 0 THEN stack
    ELSE Append(SubSeq(stack, 1, Min({Level(text[i]), Len(stack)})), i)

\* "Pop siblings / children before appending this header".
Push(i) ==
    IF i = 0 THEN stack
    ELSE Append(SubSeq(stack, 1, Min({Level(text[i]) - 1, Len(stack)})), i)

\* The headings, " > " between them (one character here), a newline.
PrefixLen(crumb) == Len(crumb) * (HeaderLen + 1)

Budget(crumb) == MaxChars - PrefixLen(crumb)

\* What a piece may hold: without a budget, _split_at_paragraphs cuts words
\* at MAX_CHARS.
Room(crumb) == IF Budget(crumb) <= 0 THEN MaxChars ELSE Budget(crumb)

\* (prefix + body).strip(), dropped when nothing is left.
Put(crumb, body) ==
    LET stripped == IF crumb = <<>> THEN Strip(body) ELSE RightStrip(body, Blank)
    IN  IF crumb = <<>> /\ stripped = <<>> THEN chunks
        ELSE Append(chunks, [crumb |-> crumb, body |-> stripped])

\* A section within MAX_CHARS, where a prefix that stands alone loses its
\* newline, and one whose body _split_at_paragraphs returns in one piece, or
\* in none.
Whole(crumb, body) ==
    \/ PrefixLen(crumb) + RealLen(body) - (IF body = <<>> THEN 1 ELSE 0) <= MaxChars
    \/ body = <<>>
    \/ Budget(crumb) > 0 /\ RealLen(body) <= Budget(crumb)

Done == phase = "sections" /\ next > Len(text)

Enter ==
    /\ phase = "sections" /\ next <= Len(text)
    /\ stack' = Push(next)
    /\ next' = NextHead(next)
    /\ UNCHANGED <<text, joined, size>>

TakeWhole ==
    /\ Enter
    /\ Whole(Push(next), Strip(Body(text, next)))
    /\ chunks' = Put(Push(next), Strip(Body(text, next)))
    /\ UNCHANGED <<phase, tail, rest>>

TakeWords ==
    /\ Enter
    /\ ~ Whole(Push(next), Strip(Body(text, next))) /\ Budget(Push(next)) <= 0
    /\ rest' = Strip(Body(text, next))
    /\ phase' = "words"
    /\ UNCHANGED <<chunks, tail>>

TakeParagraphs ==
    /\ Enter
    /\ ~ Whole(Push(next), Strip(Body(text, next))) /\ Budget(Push(next)) > 0
    /\ tail' = Strip(Body(text, next))
    /\ phase' = "paragraphs"
    /\ UNCHANGED <<chunks, rest>>
-----------------------------------------------------------------------------
(* The loop of _split_at_paragraphs *)

Paragraph == SubSeq(tail, 1, ParagraphEnd(tail))

\* Mutant: the placeholders are taken for the fences.
ParaLen_Placeholder == Len(Paragraph)

ParaLen == RealLen(Paragraph)

\* Mutant: the paragraphs joined so far are forgotten.
Flush_Forgotten == chunks

Flush == IF joined = <<>> THEN chunks ELSE Put(stack, joined)

\* To the next paragraph.
Advance ==
    /\ phase = "paragraphs" /\ tail # <<>>
    /\ tail' = LeftStrip(SubSeq(tail, ParagraphEnd(tail) + 1, Len(tail)), {"n"})
    /\ UNCHANGED <<text, next, stack>>

SkipBlank ==
    /\ Advance /\ IsBlank(Paragraph)
    /\ UNCHANGED <<chunks, phase, joined, size, rest>>

CutParagraph ==
    /\ Advance /\ ~ IsBlank(Paragraph) /\ ParaLen > Budget(stack)
    /\ chunks' = Flush
    /\ joined' = <<>> /\ size' = 0
    /\ rest' = Paragraph
    /\ phase' = "words"

StartPiece ==
    /\ Advance /\ ~ IsBlank(Paragraph) /\ ParaLen <= Budget(stack)
    /\ joined # <<>> /\ size + 2 + ParaLen > Budget(stack)
    /\ chunks' = Flush
    /\ joined' = Paragraph /\ size' = ParaLen
    /\ UNCHANGED <<phase, rest>>

JoinParagraph ==
    /\ Advance /\ ~ IsBlank(Paragraph) /\ ParaLen <= Budget(stack)
    /\ \/ joined = <<>> /\ joined' = Paragraph /\ size' = ParaLen
       \/ /\ joined # <<>> /\ size + 2 + ParaLen <= Budget(stack)
          /\ joined' = joined \o <<"n", "n">> \o Paragraph
          /\ size' = size + 2 + ParaLen
    /\ UNCHANGED <<chunks, phase, rest>>

EndSection ==
    /\ phase = "paragraphs" /\ tail = <<>>
    /\ chunks' = Flush
    /\ joined' = <<>> /\ size' = 0
    /\ phase' = "sections"
    /\ UNCHANGED <<text, next, stack, tail, rest>>
-----------------------------------------------------------------------------
(* The loop of _split_at_word_boundary *)

CutWords ==
    /\ phase = "words" /\ Len(rest) > Room(stack)
    /\ LET cut == WordBoundary(rest, Room(stack))
       IN  /\ chunks' = Put(stack, SubSeq(rest, 1, cut))
           /\ rest' = LeftStrip(SubSeq(rest, cut + 1, Len(rest)), {"_"})
    /\ UNCHANGED <<text, next, stack, phase, tail, joined, size>>

\* After the words of a paragraph the next one, of which a section without
\* a budget has none.
LastWords ==
    /\ phase = "words" /\ Len(rest) <= Room(stack)
    /\ chunks' = IF rest = <<>> THEN chunks ELSE Put(stack, rest)
    /\ rest' = <<>>
    /\ phase' = "paragraphs"
    /\ UNCHANGED <<text, next, stack, tail, joined, size>>

ChunkStep ==
    \/ TakeWhole \/ TakeWords \/ TakeParagraphs
    \/ SkipBlank \/ CutParagraph \/ StartPiece \/ JoinParagraph \/ EndSection
    \/ CutWords \/ LastWords

\* chunk_text is called with a text.
Start(t) ==
    /\ text' = t
    /\ next' = 0
    /\ stack' = <<>> /\ chunks' = <<>>
    /\ phase' = "sections" /\ tail' = <<>> /\ joined' = <<>> /\ size' = 0 /\ rest' = <<>>

\* Before the first call.
ChunkInit ==
    /\ text = <<>>
    /\ next = 1
    /\ stack = <<>> /\ chunks = <<>>
    /\ phase = "sections" /\ tail = <<>> /\ joined = <<>> /\ size = 0 /\ rest = <<>>
-----------------------------------------------------------------------------
(* What chunk_text promises of a text and its chunks. *)

Ink(s) == Chosen(s, {i \in DOMAIN s : s[i] \notin Blank})

Concat(ss) ==
    LET upTo[n \in 0 .. Len(ss)] == IF n = 0 THEN <<>> ELSE upTo[n - 1] \o ss[n]
    IN  upTo[Len(ss)]

\* The heading a chunk stands under.
HeadOf(chunk) == IF chunk.crumb = <<>> THEN 0 ELSE chunk.crumb[Len(chunk.crumb)]

\* Nothing is lost, doubled or reordered but blanks, and every heading heads
\* a chunk, in order.
Keeps ==
    /\ Ink(Concat([n \in DOMAIN chunks |-> chunks[n].body]))
          = Chosen(text, {i \in DOMAIN text : text[i] \notin Blank \cup Headers})
    /\ \A m, n \in DOMAIN chunks : m < n => HeadOf(chunks[m]) <= HeadOf(chunks[n])
    /\ HeadsOf(text) \subseteq {HeadOf(chunks[n]) : n \in DOMAIN chunks}

\* A chunk is longer than MAX_CHARS only if its headings alone fill the
\* budget, or it is part of one paragraph and holds a fence.
Fits(chunk) ==
    \/ PrefixLen(chunk.crumb) + RealLen(chunk.body) <= MaxChars
    \/ Budget(chunk.crumb) <= 0
    \/ chunk.body = <<>>
    \/ Fences(chunk.body) # {} /\ Breaks(chunk.body) = {}

\* Wherever a piece begins, what may follow has a place to cut at: a blank
\* line or a space, only a space when the headings fill the budget.
Breakable(body, crumb) ==
    \A i \in 1 .. Len(body) - Room(crumb) :
        \E j \in i + 1 .. i + Room(crumb) - 1 :
            body[j] = "_" \/ (Budget(crumb) > 0 /\ j \in Breaks(body))

FencesWhole(s) ==
    \A i \in DOMAIN s :
        /\ s[i] = "<" => i < Len(s) /\ s[i + 1] = ">"
        /\ s[i] = ">" => i > 1 /\ s[i - 1] = "<"

\* The ancestor header chain of a heading: the headings above it that no
\* heading of the same or a higher level closes before it.
Ancestry(t, i) ==
    {j \in HeadsOf(t) :
        /\ j <= i
        /\ \A k \in HeadsOf(t) : j < k /\ k <= i => Level(t[j]) < Level(t[k])}

IsChain(t, crumb) ==
    /\ \A m, n \in DOMAIN crumb : m < n => crumb[m] < crumb[n]
    /\ {crumb[n] : n \in DOMAIN crumb} = Ancestry(t, crumb[Len(crumb)])

CrumbsAre == \A n \in DOMAIN chunks : chunks[n].crumb # <<>> => IsChain(text, chunks[n].crumb)

\* The first heading is an H1 and none skips a level.
WellNested(t) ==
    \A i \in HeadsOf(t) :
        \/ t[i] = "h1"
        \/ \E j \in HeadsOf(t) : /\ j < i /\ Level(t[i]) <= Level(t[j]) + 1
                                 /\ \A k \in HeadsOf(t) : k <= j \/ k >= i
=============================================================================
