------------------------------ MODULE Chunking ------------------------------
(***************************************************************************)
(* From the blocks a parser yields to the chunks that are indexed:         *)
(* rag/ingestion/pipeline.py with its sanitizer, validator and chunker,    *)
(* and the overlap and splitting rules of rag/ingestion/chunker.py.        *)
(*                                                                         *)
(* A text is a sequence of characters and a character is an integer.  The  *)
(* positive ones are letters, each with an identity of its own, so that a  *)
(* property can follow a letter from the page to a chunk; what the regular *)
(* expressions of the source recognise is given by sets of letters.        *)
(***************************************************************************)
EXTENDS Integers, Sequences, FiniteSets, SequencesExt, FiniteSetsExt

CONSTANTS
  Numbers,         \* a numeral and its dot: "20.", the first thing of its line
  Headings,        \* what opens a provision: the Numbers, "Section 20", ...
  Dots,            \* . ! ?
  Stops,           \* the Dots that do not belong to an abbreviation
  Vocabulary,      \* Subs. Ins. Omitted w.e.f. ...: the words of a footnote
  Closings,        \* what ends a footnote
  Symbols,         \* the other letters that are neither alphabetic nor digits
  Replacements,    \* U+FFFD
  MaxSize,         \* profile.max_size (chunk_size of TextChunker)
  Overlap,         \* profile.overlap
  MinContent,      \* min_content_length of ContentValidator
  MaxThreats,      \* SecuritySanitizer._MAX_THREATS
  TabSize          \* SecuritySanitizer._TAB_SIZE

ASSUME ChunkingAssumption ==
  /\ MaxSize \in Nat \ {0} /\ Overlap \in Nat /\ Overlap < MaxSize
  /\ Numbers \subseteq Headings /\ Stops \subseteq Dots
  /\ MinContent \in Nat /\ MaxThreats \in Nat \ {0} /\ TabSize \in Nat

SPACE     == 0
NEWLINE   == -1
TAB       == -2
FORMFEED  == -3
INVISIBLE == -4

Horizontal(c)   == c \in {SPACE, TAB}
White(c)        == c \in {SPACE, TAB, NEWLINE, FORMFEED}
Alphanumeric(c) == c > 0 /\ c \notin Dots \cup Closings \cup Symbols \cup Replacements
Alphabetic(c)   == Alphanumeric(c) /\ c \notin Numbers

Letters(text) == {text[i] : i \in {j \in DOMAIN text : text[j] > 0}}
Lesser(a, b)  == IF a < b THEN a ELSE b
Greater(a, b) == IF a > b THEN a ELSE b

Strip(text) ==
  LET ink == {i \in DOMAIN text : ~White(text[i])}
  IN IF ink = {} THEN <<>> ELSE SubSeq(text, Min(ink), Max(ink))

\* A set of positions of a text of length n, in order.
InOrder(positions, n) == SelectSeq([i \in 1..n |-> i], LAMBDA i : i \in positions)

\* What stands at those positions.
Selected(text, order) == [k \in DOMAIN order |-> text[order[k]]]

\* The pieces between consecutive cuts, a piece ending just before its cut.
Pieces(text, cuts) ==
  LET at == InOrder(cuts \cup {1, Len(text) + 1}, Len(text) + 1)
  IN [k \in 1..(Len(at) - 1) |-> SubSeq(text, at[k], at[k + 1] - 1)]

NonEmpty(pieces) == SelectSeq(pieces, LAMBDA piece : piece # <<>>)
Stripped(pieces) == NonEmpty([k \in DOMAIN pieces |-> Strip(pieces[k])])

\* text.split("\n") and "\n".join(lines)
Lines(text) ==
  LET cuts  == {i + 1 : i \in {j \in DOMAIN text : text[j] = NEWLINE}}
      parts == Pieces(text, cuts)
      whole == IF Len(text) + 1 \in cuts THEN Append(parts, <<>>) ELSE parts
  IN [k \in DOMAIN whole |-> SelectSeq(whole[k], LAMBDA c : c # NEWLINE)]

Join(lines) ==
  FoldLeft(LAMBDA acc, line : acc \o <<NEWLINE>> \o line, Head(lines), Tail(lines))

-----------------------------------------------------------------------------
(* The sanitizer *)

\* One line: its indentation with the tabs expanded, its inner runs of blanks
\* made one space, its trailing blanks cut.
CleanLine(line) ==
  LET ink     == {i \in DOMAIN line : ~Horizontal(line[i])}
      from    == IF ink = {} THEN Len(line) + 1 ELSE Min(ink)
      leading == FlattenSeq([i \in 1..(from - 1) |->
                   IF line[i] = TAB THEN [j \in 1..TabSize |-> SPACE] ELSE <<SPACE>>])
      kept    == {i \in from..Len(line) : ~Horizontal(line[i])
                    \/ (~Horizontal(line[i - 1]) /\ \E j \in ink : j > i)}
      order   == InOrder(kept, Len(line))
  IN leading \o [k \in DOMAIN order |->
                   IF Horizontal(line[order[k]]) THEN SPACE ELSE line[order[k]]]

CleanLines(lines) == Join([k \in DOMAIN lines |-> CleanLine(lines[k])])

\* No more than one blank line on end.
CollapseBlankLines(text) ==
  LET kept == {i \in DOMAIN text : ~(/\ i > 2 /\ text[i] = NEWLINE
                                     /\ text[i - 1] = NEWLINE /\ text[i - 2] = NEWLINE)}
  IN Selected(text, InOrder(kept, Len(text)))

Canonicalize(text) ==
  LET visible == FlattenSeq([i \in DOMAIN text |->
                   CASE text[i] = FORMFEED  -> <<NEWLINE, NEWLINE>>
                     [] text[i] = INVISIBLE -> <<>>
                     [] OTHER               -> <<text[i]>>])
  IN Strip(CollapseBlankLines(CleanLines(Lines(visible))))

\* The levels of the threats found, in the order of the rules, up to the cap.
DetectedThreats(block) == SubSeq(block.threats, 1, Lesser(MaxThreats, Len(block.threats)))

IsSafe(block) == \A k \in DOMAIN DetectedThreats(block) : block.threats[k] # "critical"

(* The validator *)

IsValid(text) ==
  LET count(Is(_)) == Cardinality({i \in DOMAIN text : Is(text[i])})
      ink          == count(LAMBDA c : ~White(c))
  IN /\ Strip(text) # <<>>
     /\ ink >= MinContent
     /\ 4 * count(Alphanumeric) >= ink
     /\ 100 * count(LAMBDA c : c \in Replacements) <= Len(text)

\* A block that is empty, unsafe or invalid is left out; the file goes on.
Sanitized(block) ==
  IF block.text # <<>> /\ IsSafe(block) THEN Canonicalize(block.text) ELSE <<>>

ValidatedBlocks(blocks) ==
  SelectSeq([k \in DOMAIN blocks |-> Sanitized(blocks[k])], IsValid)

-----------------------------------------------------------------------------
(* Footnotes *)

FirstInk(line) == Strip(line)[1]

AtProvision(line) == Strip(line) # <<>> /\ FirstInk(line) \in Headings

StartsFootnote(line) ==
  /\ Strip(line) # <<>>
  /\ FirstInk(line) \in Numbers
  /\ Len(Strip(line)) > 1 /\ Horizontal(Strip(line)[2])
  /\ Letters(line) \cap Vocabulary # {}

ClosesFootnote(line) == Letters(line) \cap Closings # {}

StripAmendmentFootnotes(text, inside) ==
  LET step(acc, line) ==
        CASE ~acc.inside /\ StartsFootnote(line) ->
               [acc EXCEPT !.inside = ~ClosesFootnote(line)]
          [] ~acc.inside \/ AtProvision(line) ->
               [kept |-> Append(acc.kept, line), inside |-> FALSE]
          [] OTHER -> [acc EXCEPT !.inside = Strip(line) # <<>> /\ ~ClosesFootnote(line)]
      done == FoldLeft(step, [kept |-> <<>>, inside |-> inside], Lines(text))
  IN [text   |-> IF done.kept = <<>> THEN <<>> ELSE Strip(Join(done.kept)),
      inside |-> done.inside]

-----------------------------------------------------------------------------
(* Segments: whole sentences and whole provisions *)

ExtractCompleteSentences(given) ==
  LET text  == Strip(given)
      ends  == {i \in DOMAIN text : /\ text[i] \in Stops
                                    /\ i = Len(text) \/ White(text[i + 1])}
      last  == IF ends = {} THEN 0 ELSE Max(ends)
  IN [segments |-> Stripped(Pieces(SubSeq(text, 1, last), {i + 1 : i \in ends})),
      carry    |-> Strip(SubSeq(text, last + 1, Len(text)))]

\* Nothing alphabetic between the numeral and the end of its line.
IsBarePageNumber(text, i) ==
  LET breaks == {j \in i..Len(text) : text[j] = NEWLINE}
      end    == IF breaks = {} THEN Len(text) ELSE Min(breaks)
  IN \A j \in (i + 1)..end : ~Alphabetic(text[j])

\* Where the lines that open a provision begin.
ProvisionStarts(text) ==
  {s \in DOMAIN text :
     /\ s = 1 \/ text[s - 1] = NEWLINE
     /\ \E i \in s..Len(text) : /\ text[i] \in Headings
                                /\ \A j \in s..(i - 1) : Horizontal(text[j])
                                /\ ~IsBarePageNumber(text, i)}

\* The extract with whole segments before it.
After(segments, extract) == [extract EXCEPT !.segments = segments \o @]

\* The provisions of a text are whole, but for the end of the last one.
WholeProvisions(parts) ==
  After(Front(parts), IF Last(Last(parts)) \in Dots
                      THEN [segments |-> <<Last(parts)>>, carry |-> <<>>]
                      ELSE ExtractCompleteSentences(Last(parts)))

\* What stands before the first provision is cut into sentences.
Preamble(extract) == extract.segments \o NonEmpty(<<extract.carry>>)

SegmentsFrom(text, starts) ==
  IF starts = {} THEN ExtractCompleteSentences(text)
  ELSE After(Preamble(ExtractCompleteSentences(SubSeq(text, 1, Min(starts) - 1))),
             WholeProvisions(Stripped(Pieces(SubSeq(text, Min(starts), Len(text)),
                                             {s - Min(starts) + 1 : s \in starts}))))

ExtractCompleteSegments(given) ==
  LET text == Strip(given) IN SegmentsFrom(text, ProvisionStarts(text))

-----------------------------------------------------------------------------
(* Packing the segments into chunks *)

SplitLongText(text) ==
  LET n == Len(text)
      from[s \in 0..n] ==
        LET cut    == Lesser(s + MaxSize, n)
            blanks == {i \in (s + 1)..(cut - 1) : text[i + 1] = SPACE}
            end    == IF cut < n /\ blanks # {} THEN Max(blanks) ELSE cut
            back   == Greater(end - Overlap, s + 1)
            later  == {i \in back..(n - 1) : text[i + 1] = SPACE}
            next   == IF back < n /\ ~White(text[back]) /\ later # {}
                      THEN Min(later) + 1 ELSE back
        IN IF s >= n THEN <<>>
           ELSE NonEmpty(<<Strip(SubSeq(text, s + 1, end))>>)
                \o IF end >= n THEN <<>> ELSE from[next]
  IN IF n <= MaxSize THEN <<text>> ELSE from[0]

\* The last Overlap characters, from the next space on when they cut a word.
GetOverlap(text) ==
  LET cut   == Len(text) - Overlap
      later == {i \in (cut + 1)..Len(text) : text[i] = SPACE}
      from  == IF ~White(text[cut]) /\ later # {} THEN Min(later) + 1 ELSE cut + 1
  IN CASE text = <<>> \/ Overlap = 0 -> <<>>
       [] Len(text) <= Overlap       -> text
       [] OTHER                      -> Strip(SubSeq(text, from, Len(text)))

\* out: the chunks yielded, in sequence; current: the chunk being filled.
\* mutant: the chunk in progress is forgotten instead of yielded
FlushForgets(st) == [st EXCEPT !.current = <<>>]

Flush(st) ==
  IF st.current = <<>> THEN st
  ELSE [st EXCEPT !.out = Append(@, st.current), !.current = <<>>]

AppendSentence(st, sentence) ==
  LET candidate == IF st.current = <<>> THEN sentence
                   ELSE Strip(st.current \o <<NEWLINE>> \o sentence)
      tail      == GetOverlap(st.current)
      next      == IF tail = <<>> THEN sentence ELSE Strip(tail \o <<NEWLINE>> \o sentence)
  IN IF Len(sentence) <= MaxSize /\ Len(candidate) <= MaxSize
     THEN [st EXCEPT !.current = candidate]
     ELSE IF Len(sentence) <= MaxSize /\ Len(next) <= MaxSize
     THEN [Flush(st) EXCEPT !.current = next]
     ELSE [Flush(st) EXCEPT !.out = @ \o SplitLongText(sentence)]

ChunkerStart == [out |-> <<>>, current |-> <<>>, carry |-> <<>>, inside |-> FALSE]

\* One block: its footnotes out, behind what the last block left unfinished,
\* the whole segments packed, the rest carried on; a carry grown beyond twice
\* the chunk size is split at once.
Behind(carry, text) == IF carry = <<>> THEN text ELSE carry \o <<NEWLINE>> \o text

Carry(st, carry) ==
  IF Len(carry) <= 2 * MaxSize THEN [st EXCEPT !.carry = carry]
  ELSE [Flush(st) EXCEPT !.out = @ \o SplitLongText(carry), !.carry = <<>>]

Pack(st, extract) == Carry(FoldLeft(AppendSentence, st, extract.segments), extract.carry)

FeedBare(st, bare) ==
  [IF bare.text = <<>> THEN st
   ELSE Pack(st, ExtractCompleteSegments(Behind(st.carry, bare.text)))
     EXCEPT !.inside = bare.inside]

FeedBlock(st, text) == FeedBare(st, StripAmendmentFootnotes(text, st.inside))

\* The end of the document: the unfinished carry is a last segment.
FinishChunks(st) ==
  Flush(IF st.carry = <<>> THEN st ELSE AppendSentence(st, st.carry))

AtEnd(st, broken) == IF broken THEN st.out ELSE FinishChunks(st).out

\* The chunks of a document, in their sequence.  The parser raises after the
\* last block of a broken document: what the chunker still held is lost.
ChunksOf(doc) ==
  AtEnd(FoldLeft(FeedBlock, ChunkerStart, ValidatedBlocks(doc.blocks)), doc.broken)

-----------------------------------------------------------------------------
(* What the chunks of a document owe to it *)

ChunkLetters(chunks) == UNION {Letters(chunks[k]) : k \in DOMAIN chunks}

\* No run of characters without a space is longer than a chunk.
WordsFit(text) ==
  \A i \in DOMAIN text :
     i + MaxSize <= Len(text) => \E j \in i..(i + MaxSize) : text[j] = SPACE

\* A document's text as a reader sees it, its accepted blocks one after another.
Joined(lines) == IF lines = <<>> THEN <<>> ELSE Join(lines)
WholeText(doc) == Joined(ValidatedBlocks(doc.blocks))

\* The lines of a footnote: a numbered line with a footnote word and the lines
\* after it, up to one that closes it or, left out, a blank line or a provision.
FootnoteLines(lines) ==
  LET ended(j) == Strip(lines[j]) = <<>> \/ AtProvision(lines[j])
  IN {k \in DOMAIN lines : \E j \in 1..k :
        /\ StartsFootnote(lines[j])
        /\ \A m \in (j + 1)..k : ~ended(m)
        /\ \A m \in j..(k - 1) : ~ClosesFootnote(lines[m])}

\* No footnote begins on the line after one that is still open.
FootnotesApart(lines) ==
  \A k \in DOMAIN lines : k - 1 \in FootnoteLines(lines) /\ StartsFootnote(lines[k])
                            => ClosesFootnote(lines[k - 1])

\* The text without its footnotes.
WithoutFootnotes(lines) ==
  Joined(Selected(lines, InOrder(DOMAIN lines \ FootnoteLines(lines), Len(lines))))
BodyText(doc) == WithoutFootnotes(Lines(WholeText(doc)))
=============================================================================
