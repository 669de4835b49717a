------------------------------ MODULE Indexing ------------------------------
(***************************************************************************)
(* Offline ingestion: a run of rag/ingestion/ingest_offline.py walks a     *)
(* directory and indexes every file in turn.  A file is read and chunked   *)
(* lazily; each batch of its chunks is embedded and written, with its      *)
(* vectors, in one transaction (rag_index_persistence.py).  Two runs may   *)
(* overlap, a file may be edited between or during runs, and a run may be  *)
(* killed anywhere.                                                        *)
(***************************************************************************)
EXTENDS Chunking

CONSTANTS
  Runs,          \* invocations of the command
  Files,         \* the supported files of the source directory
  Documents,     \* the contents a file may have
  Revisions,     \* those an edit gives it
  BatchSize,     \* RAGIndexer.batch_size
  MaxChunks,     \* bound: chunks of a document
  MaxEdits,      \* bound: edits of files
  MaxFailures,   \* bound: failed embeddings, lost connections and kills
  Nothing        \* no file, no text

ASSUME IndexingAssumption ==
  /\ BatchSize \in Nat \ {0} /\ MaxChunks \in Nat /\ MaxEdits \in Nat /\ MaxFailures \in Nat
  /\ IsFiniteSet(Files) /\ Nothing \notin Files \cup Documents /\ Revisions \subseteq Documents

\* A chunk is a text, and no document has more of them than the bound.
ASSUME DocumentsAssumption ==
  \A d \in Documents : LET chunks == ChunksOf(d)
                       IN chunks \in Seq(Seq(Int)) /\ Len(chunks) <= MaxChunks

VARIABLES
  disk,      \* every file: its content, and what that is chunked into
  sources,   \* knowledge_sources: the files with a row
  text,      \* knowledge_chunks: text[f][k], the k-th chunk of the file
  vector,    \* knowledge_embeddings: the text its vector was computed from
  run,       \* every run, with the open transaction it may have
  edits,     \* edits so far
  failures,  \* failures so far
  report,    \* history: the chunks the last run to finish a file read there
  shared     \* history: the files two runs have had open at once

indexVars == <<disk, sources, text, vector, run, edits, failures, report, shared>>

Sequence == 1..MaxChunks

\* Rows with those of a transaction, or with one more, in their place.
Overlaid(rows, table) ==
  [k \in DOMAIN rows \cup DOMAIN table |-> IF k \in DOMAIN rows THEN rows[k] ELSE table[k]]
Put(rows, k, row) == Overlaid([j \in {k} |-> row], rows)

\* The open transaction: the rows it has locked by writing them.
NoWrites == [source |-> FALSE, text |-> <<>>, vector |-> <<>>]

IdleRun == [pc |-> "off", todo |-> {}, failed |-> {}, file |-> Nothing, doc |-> Nothing,
            chunks |-> <<>>, from |-> 0, at |-> 0, seen |-> Nothing, writes |-> NoWrites]

\* A content and the chunks it has for whoever reads it; no content, no file.
File(d) == IF d = Nothing THEN Nothing ELSE [doc |-> d, chunks |-> ChunksOf(d)]

IndexedBefore(file) ==
  [k \in Sequence |-> IF file # Nothing /\ k <= Len(file.chunks) THEN file.chunks[k] ELSE Nothing]

\* A directory, the index as an earlier run has left it, the runs to be started.
IndexInit(start, earlier, active, editsSpent, failuresSpent) ==
  /\ disk = [f \in Files |-> File(start[f])]
  /\ text = [f \in Files |-> IndexedBefore(File(earlier[f]))]
  /\ vector = text
  /\ sources = {f \in Files : \E k \in Sequence : text[f][k] # Nothing}
  /\ run = [r \in Runs |-> IF r \in active THEN IdleRun
                           ELSE [IdleRun EXCEPT !.pc = "absent"]]
  /\ edits = editsSpent /\ failures = failuresSpent
  /\ report = [f \in Files |-> Nothing] /\ shared = {}

InTx(r)  == run[r].pc \in {"source", "insert", "read", "write", "vector", "commit"}
Batch(r) == (run[r].from + 1)..Lesser(run[r].from + BatchSize, Len(run[r].chunks))

\* The lock of an uncommitted write of another run.
HeldText(r, f, k)   == \E o \in Runs \ {r} : InTx(o) /\ run[o].file = f
                                             /\ k \in DOMAIN run[o].writes.text
HeldVector(r, f, k) == \E o \in Runs \ {r} : InTx(o) /\ run[o].file = f
                                             /\ k \in DOMAIN run[o].writes.vector
HeldSource(r, f)    == \E o \in Runs \ {r} : InTx(o) /\ run[o].file = f
                                             /\ run[o].writes.source

\* A file is written, replaced or removed.
Edit(f) ==
  /\ edits < MaxEdits
  /\ \E d \in Revisions \cup {Nothing} : disk' = [disk EXCEPT ![f] = File(d)]
  /\ edits' = edits + 1
  /\ UNCHANGED <<sources, text, vector, run, failures, report, shared>>

StartRun(r) ==
  /\ run[r].pc = "off"
  /\ run' = [run EXCEPT ![r].pc = "files", ![r].todo = {f \in Files : disk[f] # Nothing}]
  /\ UNCHANGED <<disk, sources, text, vector, edits, failures, report, shared>>

\* The next file discovered, in the order the directory gives them; one that is
\* gone by then is a failed file.
OpenFile(r) ==
  /\ run[r].pc = "files"
  /\ \E f \in run[r].todo :
       /\ run' = IF disk[f] = Nothing
                 THEN [run EXCEPT ![r].todo = @ \ {f}, ![r].failed = @ \cup {f}]
                 ELSE [run EXCEPT ![r].pc = "embed", ![r].todo = @ \ {f}, ![r].file = f,
                                  ![r].doc = disk[f].doc, ![r].chunks = disk[f].chunks]
       /\ report' = [report EXCEPT ![f] = Nothing]
       /\ shared' = shared \cup {g \in {f} : \E o \in Runs \ {r} : run[o].file = g}
  /\ UNCHANGED <<disk, sources, text, vector, edits, failures>>

\* The file under way is over: counted as failed, or as processed.
Left(r, lost) ==
  [run EXCEPT ![r].pc = "files", ![r].failed = @ \cup lost, ![r].file = Nothing,
              ![r].doc = Nothing, ![r].chunks = <<>>, ![r].from = 0, ![r].at = 0, ![r].seen = Nothing,
              ![r].writes = NoWrites]

\* The next batch: the chunker is asked for chunks until it is full or the
\* chunks are over, its texts are embedded, and a transaction is opened.
EmbedBatch(r) ==
  /\ run[r].pc = "embed" /\ Batch(r) # {}
  /\ ~(run[r].doc.broken /\ Cardinality(Batch(r)) < BatchSize)
  /\ run' = [run EXCEPT ![r].pc = "source", ![r].at = Min(Batch(r))]
  /\ UNCHANGED <<disk, sources, text, vector, edits, failures, report, shared>>

\* The parser raises before the batch is full: the chunks at hand are dropped
\* and the file fails, whatever earlier batches have committed.
ParseFails(r) ==
  /\ run[r].pc = "embed" /\ run[r].doc.broken
  /\ Cardinality(Batch(r)) < BatchSize
  /\ run' = Left(r, {run[r].file})
  /\ UNCHANGED <<disk, sources, text, vector, edits, failures, report, shared>>

\* The embedding model or the database fails: what the transaction wrote is
\* rolled back and the file counts as failed.
BatchFails(r) ==
  /\ InTx(r) \/ (run[r].pc = "embed" /\ Batch(r) # {})
  /\ failures < MaxFailures
  /\ run' = Left(r, {run[r].file})
  /\ failures' = failures + 1
  /\ UNCHANGED <<disk, sources, text, vector, edits, report, shared>>

Kill(r) ==
  /\ run[r].pc \notin {"off", "absent", "done", "killed"}
  /\ failures < MaxFailures
  /\ run' = [run EXCEPT ![r] = [IdleRun EXCEPT !.pc = "killed"]]
  /\ failures' = failures + 1
  /\ UNCHANGED <<disk, sources, text, vector, edits, report, shared>>

\* knowledge_source: get_by_id, then create when there is none.
ReadSource(r) ==
  /\ run[r].pc = "source"
  /\ run' = [run EXCEPT ![r].pc = IF run[r].file \in sources THEN "read" ELSE "insert"]
  /\ UNCHANGED <<disk, sources, text, vector, edits, failures, report, shared>>

\* An insert waits for another transaction that inserted the same key, and is
\* a unique violation once that one has committed.
InsertSource(r) ==
  /\ run[r].pc = "insert" /\ ~HeldSource(r, run[r].file)
  /\ run' = IF run[r].file \in sources THEN Left(r, {run[r].file})
            ELSE [run EXCEPT ![r].pc = "read", ![r].writes.source = TRUE]
  /\ UNCHANGED <<disk, sources, text, vector, edits, failures, report, shared>>

\* chunk_repository.get_by_id: the committed row, if there is one.
ReadChunk(r) ==
  /\ run[r].pc = "read"
  /\ run' = [run EXCEPT ![r].pc = "write", ![r].seen = text[run[r].file][run[r].at]]
  /\ UNCHANGED <<disk, sources, text, vector, edits, failures, report, shared>>

\* create or update: an insert as above; an update of the text, which waits for
\* the row's lock; or no statement at all, when the text is the one read.
WriteChunk(r) ==
  LET f    == run[r].file
      k    == run[r].at
      mine == run[r].chunks[k]
  IN /\ run[r].pc = "write"
     /\ run[r].seen = mine \/ ~HeldText(r, f, k)
     /\ run' = IF run[r].seen = Nothing /\ text[f][k] # Nothing THEN Left(r, {f})
               ELSE [run EXCEPT ![r].pc = "vector", ![r].seen = Nothing,
                       ![r].writes.text = IF run[r].seen = mine THEN @ ELSE Put(@, k, mine)]
     /\ UNCHANGED <<disk, sources, text, vector, edits, failures, report, shared>>

\* embedding_repository.upsert: the vector is written whatever it was.
WriteVector(r) ==
  LET k == run[r].at
  IN /\ run[r].pc = "vector" /\ ~HeldVector(r, run[r].file, k)
     /\ run' = [run EXCEPT ![r].writes.vector = Put(@, k, run[r].chunks[k]),
                  ![r].at = k + 1,
                  ![r].pc = IF k + 1 \in Batch(r) THEN "read" ELSE "commit"]
     /\ UNCHANGED <<disk, sources, text, vector, edits, failures, report, shared>>

Commit(r) ==
  LET f == run[r].file
  IN /\ run[r].pc = "commit"
     /\ sources' = sources \cup {f}
     /\ text'   = [text EXCEPT ![f] = Overlaid(run[r].writes.text, @)]
     /\ vector' = [vector EXCEPT ![f] = Overlaid(run[r].writes.vector, @)]
     /\ run' = [run EXCEPT ![r].pc = "embed", ![r].from = Max(Batch(r)), ![r].at = 0,
                           ![r].writes = NoWrites]
     /\ UNCHANGED <<disk, edits, failures, report, shared>>

\* mutant: a last batch that is not full is never written
FinishWithoutLastBatch(r) ==
  /\ run[r].pc = "embed" /\ ~run[r].doc.broken
  /\ Cardinality(Batch(r)) < BatchSize
  /\ run' = Left(r, {})
  /\ report' = [f \in Files |-> IF f = run[r].file /\ f \notin shared THEN run[r].chunks
                                ELSE report[f]]
  /\ UNCHANGED <<disk, sources, text, vector, edits, failures, shared>>

\* The chunks are over: the file is processed.
FinishFile(r) ==
  /\ run[r].pc = "embed" /\ Batch(r) = {} /\ ~run[r].doc.broken
  /\ run' = Left(r, {})
  /\ report' = [f \in Files |-> IF f = run[r].file /\ f \notin shared THEN run[r].chunks
                                ELSE report[f]]
  /\ UNCHANGED <<disk, sources, text, vector, edits, failures, shared>>

\* The exit code is 1 when a file has failed.
EndRun(r) ==
  /\ run[r].pc = "files" /\ run[r].todo = {}
  /\ run' = [run EXCEPT ![r].pc = "done"]
  /\ UNCHANGED <<disk, sources, text, vector, edits, failures, report, shared>>

Proceed(r) ==
  \/ OpenFile(r) \/ EmbedBatch(r) \/ ParseFails(r) \/ ReadSource(r) \/ InsertSource(r)
  \/ ReadChunk(r) \/ WriteChunk(r) \/ WriteVector(r) \/ Commit(r) \/ FinishFile(r)
  \/ EndRun(r)

IndexNext ==
  \/ \E f \in Files : Edit(f)
  \/ \E r \in Runs : StartRun(r) \/ Proceed(r) \/ BatchFails(r) \/ Kill(r)

-----------------------------------------------------------------------------
IndexTypeOK ==
  /\ \A f \in Files : disk[f] = Nothing \/ disk[f].doc \in Documents
  /\ sources \subseteq Files /\ shared \subseteq Files
  /\ \A f \in Files : report[f] = Nothing \/ Len(report[f]) <= MaxChunks
  /\ \A r \in Runs :
       /\ run[r].pc \in {"off", "absent", "files", "embed", "source", "insert", "read",
                         "write", "vector", "commit", "done", "killed"}
       /\ run[r].failed \subseteq Files /\ run[r].todo \subseteq Files
       /\ run[r].file = Nothing \/ run[r].file \in Files
  /\ edits \in 0..MaxEdits /\ failures \in 0..MaxFailures

\* What a file is chunked into is looked at while the index is still empty.
Fresh(r) == run[r].pc = "embed" /\ run[r].from = 0 /\ sources = {}

\* No letter of a file's body is lost between its accepted blocks and its chunks
\* and no footnote gets in (chunker.py:212): what a sentence left unfinished, a
\* page or a full chunk cut short reappears, as long as no word outgrows a chunk
\* and a footnote is closed before the next one begins.
LettersKept ==
  \A r \in Runs : Fresh(r) /\ ~run[r].doc.broken =>
    LET doc == run[r].doc
    IN WordsFit(BodyText(doc)) /\ FootnotesApart(Lines(WholeText(doc))) =>
         ChunkLetters(run[r].chunks) = Letters(BodyText(doc))

\* Chunks are read in the order of the page (their sequence is their identity,
\* chunk_mapper.py:121), each within the size the embedding model is given.
ChunksInOrder ==
  \A r \in Runs : Fresh(r) =>
    LET chunks == run[r].chunks
        first(c) == Min({k \in DOMAIN chunks : c \in Letters(chunks[k])})
    IN /\ \A k \in DOMAIN chunks : Len(chunks[k]) \in 1..MaxSize
       /\ \A c, d \in ChunkLetters(chunks) : c < d => first(c) <= first(d)

\* A text and its vector are committed together (rag_index_persistence.py:202):
\* whatever was killed or rolled back, a chunk is searchable by words exactly
\* when it is by meaning, and by the meaning of its own text, unless two runs
\* had the file open at once.
VectorMatchesText ==
  \A f \in Files \ shared : vector[f] = text[f]

\* A file counted as processed (ingest_offline.py:297) has every chunk of the
\* content read in the index, in sequence and with its vector, until the file is
\* opened again: no batch is skipped, and no failed one counts as done.
ProcessedIsIndexed ==
  \A f \in Files : report[f] # Nothing =>
    \A k \in DOMAIN report[f] : text[f][k] = report[f][k] /\ vector[f][k] = text[f][k]

\* Every run that is not killed ends (ingest_offline.py:277): no file is retried
\* forever and two runs never wait for one another's rows.
RunsEnd == \A r \in Runs : run[r].pc = "files" ~> run[r].pc \in {"done", "killed"}
=============================================================================
