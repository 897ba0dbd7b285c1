------------------------------ MODULE Chunking ------------------------------
(***************************************************************************)
(* HybridMarkdownChunker (app/services/chunkers/hybrid.py): a page is read *)
(* line by line and divided into sections at its headings; then every      *)
(* section becomes one chunk, or several if it is too long, each with the  *)
(* headings above it for a prefix.                                         *)
(***************************************************************************)
EXTENDS Splitting, FiniteSets

CONSTANTS
    Lines,         \* bound: the lines pages are made of
    MaxLines,      \* bound: lines of a page
    MaxChunkSize,  \* max_chunk_size
    ChunkOverlap,  \* chunk_overlap
    MinSize,       \* what is left for the text below a long prefix, 50 in the code
    Wrapper,       \* length of the prefix without the headings
    TitleSize,     \* length of the title of a heading
    Arrow,         \* length of what separates two headings in the prefix
    None           \* no fence is open

\* The letters of a line are numbered by line and place: one number per letter of a page.
Width == 10

\* A line has a pattern of letters and spaces (ink) and matches _HEADING_PATTERN with a
\* level, _CODE_FENCE_PATTERN with a character that stands there size times and perhaps with
\* more text behind (info), or neither.
ASSUME ChunkingAssumption ==
    /\ \A l \in Lines :
          /\ l.mark \in {"text", "heading", "fence"}
          /\ l.level \in Nat
          /\ l.char # None /\ l.size \in Nat /\ l.info \in BOOLEAN
          /\ l.ink \in Seq(BOOLEAN) /\ Len(l.ink) < Width
    /\ MaxLines \in Nat
    /\ MaxChunkSize \in Nat \ {0}
    /\ ChunkOverlap \in 0..(MaxChunkSize - 1)
    /\ MinSize \in Nat \ {0}
    /\ {Wrapper, TitleSize, Arrow} \subseteq Nat

VARIABLES
    page,          \* the lines read so far
    heading_stack, \* headings the next line is under, as numbers of lines
    content_lines, \* current_content_lines
    fence,         \* code_fence_marker while in_code_block, one character for three
    sections,      \* the sections so far, a path of headings and a text each
    next,          \* the section to be chunked next, 0 while the page is read
    chunks

parserVars == <<page, heading_stack, content_lines, fence>>
vars == <<parserVars, sections, next, chunks>>

\* Chunks satisfy what DocumentChunk validates, and are made of text of the page.
TypeOK ==
    /\ page \in Seq(Lines)
    /\ Range(heading_stack) \subseteq DOMAIN page
    /\ content_lines \in Seq(Texts)
    /\ fence \in {l.char : l \in Lines} \cup {None}
    /\ sections \in Seq([path : Seq(DOMAIN page), content : Texts])
    /\ next \in 0..(Len(sections) + 1)
    /\ chunks \in Seq([chunk_index : Nat, path : Seq(DOMAIN page), text : Texts \ {<<>>}])

Init ==
    /\ page = <<>>
    /\ heading_stack = <<>>
    /\ content_lines = <<>>
    /\ fence = None
    /\ sections = <<>>
    /\ next = 0
    /\ chunks = <<>>

-----------------------------------------------------------------------------
(***************************************************************************)
(* _MarkdownSectionParser                                                  *)
(***************************************************************************)

\* The text of a line that is the n-th of the page.
TextOf(l, n) == [i \in DOMAIN l.ink |-> IF l.ink[i] THEN Width * n + i ELSE Space]
LineOf(letter) == letter \div Width

Reads(l) ==
    /\ next = 0
    /\ Len(page) < MaxLines
    /\ page' = Append(page, l)

Keeps(l) == content_lines' = Append(content_lines, TextOf(l, Len(page) + 1))

\* _toggle_fence: three of the character that opened the block close it, whatever follows.
Toggled(l) == IF fence = None THEN l.char ELSE IF l.char = fence THEN None ELSE fence

FenceLine(l) ==
    /\ l.mark = "fence"
    /\ Reads(l)
    /\ Keeps(l)
    /\ fence' = Toggled(l)
    /\ UNCHANGED <<heading_stack, sections, next, chunks>>

\* Within a block of code, or without a heading.
TextLine(l) ==
    /\ l.mark # "fence"
    /\ fence # None \/ l.mark = "text"
    /\ Reads(l)
    /\ Keeps(l)
    /\ UNCHANGED <<heading_stack, fence, sections, next, chunks>>

\* finalize_section; only under a heading a section may be empty.
Finalized ==
    LET content == Strip(Join(content_lines, <<Newline>>))
    IN IF content = <<>> /\ heading_stack = <<>> THEN sections
       ELSE Append(sections, [path |-> heading_stack, content |-> content])

Level(n) == page[n].level

\* Mutant: a heading of the same level is kept.
BelowOrSame(stack, level) ==
    SubSeq(stack, 1, Max({i \in 0..Len(stack) : i = 0 \/ Level(stack[i]) <= level}))

\* The headings left when those of the level or deeper are popped from the top.
Below(stack, level) ==
    SubSeq(stack, 1, Max({i \in 0..Len(stack) : i = 0 \/ Level(stack[i]) < level}))

\* _handle_heading
HeadingLine(l) ==
    /\ l.mark = "heading"
    /\ fence = None
    /\ Reads(l)
    /\ sections' = Finalized
    /\ heading_stack' = Append(Below(heading_stack, l.level), Len(page) + 1)
    /\ content_lines' = <<>>
    /\ UNCHANGED <<fence, next, chunks>>

\* parse_markdown_sections returns and chunk goes through the sections.
EndOfPage ==
    /\ next = 0
    /\ sections' = Finalized
    /\ content_lines' = <<>>
    /\ next' = 1
    /\ UNCHANGED <<page, heading_stack, fence, chunks>>

-----------------------------------------------------------------------------
(***************************************************************************)
(* _create_section_chunks and _split_oversized_section                     *)
(***************************************************************************)
PrefixSize(path) ==
    IF path = <<>> THEN 0
    ELSE Wrapper + Len(path) * TitleSize + (Len(path) - 1) * Arrow

\* What a prefix leaves for the text of a chunk.
EffectiveMax(path) == Max({MinSize, MaxChunkSize - PrefixSize(path)})

TextsOf(section) ==
    LET size == EffectiveMax(section.path)
    IN IF section.content = <<>> THEN <<>>
       ELSE IF PrefixSize(section.path) + Len(section.content) <= MaxChunkSize
       THEN <<section.content>>
       ELSE Split(section.content, size, Min({ChunkOverlap, size \div 2}))

\* Mutant: every section counts from 0.
StartAtZero == 0

StartIndex == Len(chunks)

ChunkSection ==
    /\ next \in DOMAIN sections
    /\ LET texts == TextsOf(sections[next])
       IN chunks' = chunks \o [i \in DOMAIN texts |->
                         [chunk_index |-> StartIndex + i - 1,
                          path |-> sections[next].path,
                          text |-> texts[i]]]
    /\ next' = next + 1
    /\ UNCHANGED <<parserVars, sections>>

-----------------------------------------------------------------------------
Next ==
    \/ \E l \in Lines : FenceLine(l) \/ TextLine(l) \/ HeadingLine(l)
    \/ EndOfPage
    \/ ChunkSection

Spec == Init /\ [][Next]_vars

-----------------------------------------------------------------------------
LettersIn(t) == {x \in Range(t) : x > 0}

Done == next = Len(sections) + 1

\* Line n is in what the code takes for a block: one begins before it at a fence in no other
\* block, and no fence of the same character in between ends it.
InCode[n \in Nat] ==
    \E f \in 1..n - 1 :
       /\ page[f].mark = "fence"
       /\ \A g \in f + 1..n - 1 : page[g].mark = "fence" => page[g].char # page[f].char
       /\ ~InCode[f]

\* The headings the code finds: comments in a block are none.
HeadingLines == {n \in DOMAIN page : page[n].mark = "heading" /\ ~InCode[n]}

\* The letters of the page that are no headings, in the order they are numbered.
BodyLetters ==
    UNION {LettersIn(TextOf(page[n], n)) : n \in DOMAIN page \ HeadingLines}

\* The overlap and the cuts lose no text and change no order: leaving repetitions out,
\* the chunks read like the page without its headings.
NothingIsLost ==
    Done => LET all == FlattenSeq([k \in DOMAIN chunks |-> chunks[k].text])
                body == BodyLetters
            IN /\ LettersIn(all) = body
               /\ \A i \in DOMAIN all : \A x \in body :
                     x < all[i] => \E k \in 1..i : all[k] = x

\* hybrid.py, recursive_split_text: "each constrained to max_chunk_size", although pieces
\* of the chunk before are repeated; with the prefix a chunk is longer only if its
\* headings leave less than MinSize.
ChunksFit ==
    \A k \in DOMAIN chunks : Len(chunks[k].text) <= EffectiveMax(chunks[k].path)

\* The letters of the word that letter x of a text belongs to: numbers without a gap.
WordOf(x, body) == {y \in body : Min({x, y})..Max({x, y}) \subseteq body}

\* markdown-chunking specification, "without cutting mid-word": a chunk that has a letter
\* of a word has all of it, unless the word is longer than a chunk.
WordsStayWhole ==
    LET body == BodyLetters
    IN \A k \in DOMAIN chunks :
          LET letters == LettersIn(chunks[k].text)
          IN \A x \in letters :
                LET word == WordOf(x, body)
                IN Cardinality(word) <= EffectiveMax(chunks[k].path) => word \subseteq letters

\* The headings a line is under: those before it with no heading of their level or above
\* in between.
HeadingsOver(n, headings) ==
    {h \in headings : h <= n /\ \A g \in headings \cap (h + 1)..n : Level(g) > Level(h)}

\* Markdown: a fence ends a block if it has the character of the fence that opened it, at
\* least as often, and nothing behind.
Ends(g, f) ==
    /\ page[g].mark = "fence" /\ page[g].char = page[f].char
    /\ page[g].size >= page[f].size /\ ~page[g].info

\* A block opened at line f would go on to line n.
Reaches(f, n) == page[f].mark = "fence" /\ \A g \in f + 1..n - 1 : ~Ends(g, f)

\* Line n is in a block of code in Markdown.
InBlock[n \in Nat] == \E f \in 1..n - 1 : Reaches(f, n) /\ ~InBlock[f]

\* A fence within a block of its own character that does not end it, but does for the code.
FalseEnd(g) ==
    \E f \in 1..g - 1 :
        /\ Reaches(f, g) /\ ~InBlock[f]
        /\ page[g].mark = "fence" /\ page[g].char = page[f].char /\ ~Ends(g, f)

\* markdown-chunking specification: "the full hierarchical heading path" goes with every
\* chunk, also with the later chunks of a section, no text gets into the chunk of another
\* section, and comments in code are text.  Headings are those of Markdown: the code agrees
\* up to the first fence that ends a block for the code only, a shorter one or one with text
\* behind (hybrid.py:65-66), and nothing is said of the lines after it.
PathsAreHeadings ==
    LET headings == {n \in DOMAIN page : page[n].mark = "heading" /\ ~InBlock[n]}
    IN \A k \in DOMAIN chunks :
          LET path == chunks[k].path
          IN /\ \A i, j \in DOMAIN path : i < j => path[i] < path[j]
             /\ \A n \in {LineOf(x) : x \in LettersIn(chunks[k].text)} :
                   (\A g \in 1..n - 1 : ~FalseEnd(g)) => HeadingsOver(n, headings) = Range(path)

\* Chunks are numbered by their place, which makes the identifiers of their points: no
\* chunk of a page replaces another one in Qdrant.
ChunksAreNumbered == \A k \in DOMAIN chunks : chunks[k].chunk_index = k - 1
=============================================================================
