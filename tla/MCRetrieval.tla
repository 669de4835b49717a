---------------------------- MODULE MCRetrieval ----------------------------
(* Instances of Retrieval for TLC.  A letter's identity is its place in the  *)
(* page and its kind the last digit of its number.                           *)
EXTENDS Evaluation

CONSTANTS r1, r2, f1, f2, s1, q1, none

MCKind(kind) == {c \in 0..799 : c > 0 /\ c % 10 = kind}
MCNumbers    == MCKind(2)
MCHeadings   == MCKind(2) \cup MCKind(8)
MCDots       == MCKind(1) \cup MCKind(3)
MCStops      == MCKind(1)
MCVocabulary == MCKind(4)
MCClosings   == MCKind(5)
MCSymbols    == MCKind(7)
MCReplaced   == MCKind(9)

MCProvision == <<2, 0, 6, 6>>   \* "20. Power"
MCWrapped   == <<2, 0, 4, 6>>   \* "1. Subs. by": a footnote that wraps

\* The lines of a page: 6 is a plain letter, 0 a space.
MCLines == {
  <<6, 6, 0, 6, 6>>,           \* words
  <<6, 6, 3, 0, 6, 1>>,        \* an abbreviation, and a sentence that ends
  MCProvision,
  MCWrapped,
  <<2, 0, 4, 5>>,              \* a footnote on one line
  <<6, 5>>,                    \* the end of a wrapped footnote
  <<2>>,                       \* a page number
  <<>> }                       \* a blank line

\* The letters numbered along the page.
MCPage(lines) ==
  LET raw == Join(lines)
  IN [i \in DOMAIN raw |-> IF raw[i] > 0 THEN 10 * i + raw[i] ELSE raw[i]]

MCBlock(chars) == [text |-> chars, threats |-> <<>>]
MCShift(chars, n) ==
  [i \in DOMAIN chars |-> IF chars[i] > 0 THEN chars[i] + 10 * n ELSE chars[i]]

\* Three lines in two blocks, or in one when they open with a provision or with a
\* footnote that the next line may end.
MCDocument(lines, cut) ==
  LET first  == MCPage(SubSeq(lines, 1, cut))
      second == MCShift(MCPage(SubSeq(lines, cut + 1, Len(lines))), 30)
  IN [broken |-> FALSE,
      blocks |-> IF cut = Len(lines) THEN <<MCBlock(first)>>
                 ELSE <<MCBlock(first), MCBlock(second)>>]

MCPages == [1..3 -> MCLines]
MCGenerated ==
  {MCDocument(lines, 1) : lines \in MCPages}
    \cup {MCDocument(lines, 3) : lines \in {l \in MCPages : l[1] \in {MCProvision, MCWrapped}}}

\* Versions of a law: two chunks, the first one amended, one left; and, for the
\* batches, three chunks, and a page whose parsing breaks after the third.
MCSentence(n) == MCShift(<<6, 6, 0, 6, 6, 1>>, n)
MCLaw(ns, broken) ==
  [broken |-> broken, blocks |-> [i \in DOMAIN ns |-> MCBlock(MCSentence(ns[i]))]]
MCFirst   == MCLaw(<<1, 11>>, FALSE)
MCAmended == MCLaw(<<5, 11>>, FALSE)
MCShort   == MCLaw(<<1>>, FALSE)
MCLong    == MCLaw(<<1, 11, 21>>, FALSE)
MCBroken  == MCLaw(<<1, 11, 21, 31>>, TRUE)

\* Pages the sanitizer and the validator change or refuse.
MCHostile == [broken |-> FALSE, blocks |->
  << [text |-> MCSentence(1), threats |-> <<"low", "critical">>],
     [text |-> <<116, INVISIBLE, TAB, SPACE, 126, FORMFEED, NEWLINE, TAB, 136, 141>>,
      threats |-> <<"low">>],
     [text |-> <<156>>, threats |-> <<>>],
     [text |-> <<>>, threats |-> <<>>],
     [text |-> <<167, 177, 187, 196, 207, 217, 227>>, threats |-> <<>>],
     [text |-> MCShift(<<6, 9, 6, 6>>, 30), threats |-> <<>>],
     [text |-> MCSentence(40), threats |-> <<"low", "low", "low", "critical">>] >>]

MCRevisions == {MCFirst, MCAmended, MCShort}
MCDocuments == MCGenerated \cup MCRevisions \cup {MCLong, MCBroken, MCHostile}
MCQueryOf   == [s \in {s1} |-> q1]

\* Up to three chunks that hold either piece of evidence, both or none; cases that
\* list up to two pieces, blank, repeated or beside a source; one ill-formed case.
MCChunks == {[source |-> s, holds |-> h] : s \in {"a"}, h \in SUBSET {"e1", "e2"}}
              \cup {[source |-> "b", holds |-> {}]}
MCResultLists == UNION {[1..n -> MCChunks] : n \in 0..3}
MCTexts == {"e1", "e2", BLANK}
MCCase(evidence, listed, answer, typed) ==
  [query |-> "q", answer |-> answer, evidence |-> evidence, sources |-> listed, typed |-> typed]
MCCases ==
  {MCCase(e, s, a, TRUE) : e \in UNION {[1..n -> MCTexts] : n \in 0..2},
                           s \in {<<>>, <<"a">>, <<BLANK>>}, a \in {BLANK}}
    \cup {MCCase(<<"e1">>, <<>>, "said", TRUE), MCCase(<<"e1">>, <<>>, BLANK, FALSE)}

MCReply(value, tenths, relevant) ==
  [object |-> TRUE, value |-> value, tenths |-> tenths, relevant |-> relevant]
MCReplies == {NoReply, MCReply("none", 0, "true"), MCReply("text", 0, "other"),
              MCReply("nan", 0, "none"), MCReply("number", -3, "false"),
              MCReply("number", 7, "true"), MCReply("number", 12, "other")}

\* One run over every page, over a page and a broken file; two runs that overlap
\* while the file is edited; a search of an index beside the run that fills it.
MCDisk(d, e) == [f \in Files |-> IF f = f1 THEN d ELSE e]

MCInit ==
  \/ /\ \E d \in MCGenerated \cup {MCHostile} :
          IndexInit(MCDisk(d, none), MCDisk(none, none), {r1}, MaxEdits, MaxFailures)
     /\ SearchInit({})
  \/ /\ IndexInit(MCDisk(MCLong, MCBroken), MCDisk(none, none), {r1}, MaxEdits, 0)
     /\ SearchInit({})
  \/ /\ \E d \in {none, MCFirst} :
          IndexInit(MCDisk(MCFirst, none), MCDisk(d, none), {r1, r2}, 0, MaxFailures - 1)
     /\ SearchInit({})
  \/ /\ IndexInit(MCDisk(MCLong, none), MCDisk(none, none), {r1}, MaxEdits, MaxFailures)
     /\ SearchInit({s1})

MCSpec == MCInit /\ [][RetrievalNext]_retrievalVars /\ RetrievalFairness
=============================================================================
