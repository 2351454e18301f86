------------------------------ MODULE Documents ------------------------------
(***************************************************************************)
(* A user's documents: uploads, deletions and the background indexing of   *)
(* what was uploaded.  The row and its chunks live in the database, the    *)
(* bytes in object storage, which no transaction covers; the tasks that    *)
(* index are lost with the process.  Transactions are READ COMMITTED: a    *)
(* change is seen when it is committed and waits for whoever holds its     *)
(* row.                                                                    *)
(***************************************************************************)
EXTENDS Chunking

CONSTANTS
    Files,          \* the contents uploaded; a row is found by its sha256
    Text,           \* the text in each, as Chunking has it
    MaxTokens,      \* settings.rag.chunk_size_tokens
    Overlap,        \* settings.rag.chunk_overlap_tokens
    Sessions,       \* the database sessions open at a time
    MaxRows,        \* bound: rows ever inserted
    MaxFaults,      \* bound: crashes and database errors
    None

ASSUME DocumentsAssumption ==
    /\ MaxTokens \in Nat /\ Overlap \in Nat
    /\ MaxRows \in Nat /\ MaxFaults \in Nat
    /\ None \notin Sessions

VARIABLES
    rows,       \* the committed row of each file, or None
    stored,     \* the files whose bytes are in storage
    tasks,      \* background indexing not yet begun, by document
    op,         \* what each session is doing
    rowOf,      \* who holds the lock of a file's row, or of its unique key
    chunksOf,   \* who holds the locks of its chunks
    inserted,   \* rows inserted so far: the next one's id
    faults,     \* crashes and database errors so far
    lost,       \* documents whose indexing a crash, an error or a commit that came
                \* after the task took, and that were not uploaded again
    commitFirst \* a request commits before its background tasks run, as the
                \* FastAPI releases before 0.118 have it; pyproject.toml asks for
                \* 0.115 or any later one

background == <<tasks, lost, commitFirst>>
vars == <<rows, stored, op, rowOf, chunksOf, inserted, faults, background>>

Ids == 1 .. MaxRows
Statuses == {"pending", "parsing", "indexed", "failed"}
Chunks == [f \in Files |-> ChunkText(Text[f], MaxTokens, Overlap)]
Row == [id : Ids, status : Statuses, chunks : {<<>>} \union Range(Chunks)]

\* A row is told from none.
ASSUME NoneAssumption == None \notin Row

Idle == [at |-> "idle"]

\* What a session has done last, on a row it has found or made; then it commits.
Deleting == {"found", "emptied", "unlinked", "cleared", "removed", "deleted"}
Indexing == {"parsing", "read", "indexed", "failed"}
Ops ==
    {Idle}
    \union [at : {"put"}, file : Files]
    \union [at : {"uploaded"} \union Deleting \union Indexing, file : Files, id : Ids]

\* Nobody sees a row while it is parsed: one transaction takes it from where it
\* was to indexed or failed.
TypeOK ==
    /\ rows \in [Files -> Row \union {None}]
    /\ \A f \in Files : rows[f] # None => rows[f].status # "parsing"
    /\ stored \subseteq Files
    /\ tasks \subseteq Files \X Ids
    /\ op \in [Sessions -> Ops]
    /\ rowOf \in [Files -> Sessions \union {None}]
    /\ chunksOf \in [Files -> Sessions \union {None}]
    /\ inserted \in 0 .. MaxRows /\ faults \in 0 .. MaxFaults
    /\ lost \subseteq Files \X Ids /\ commitFirst \in BOOLEAN

IsRow(f, id) == rows[f] # None /\ rows[f].id = id

At(s, where) == op[s].at = where
Do(s, what) == op' = [op EXCEPT ![s] = what]
Move(s, where) == op' = [op EXCEPT ![s].at = where]

Free(lock, s, f) == lock[f] \in {None, s}
Taken(lock, s, f) == [lock EXCEPT ![f] = s]
Released(lock, ss) == [f \in Files |-> IF lock[f] \in ss THEN None ELSE lock[f]]

\* The transactions of the sessions ss end, their changes in rows' or nowhere.
End(ss) ==
    /\ op' = [s \in Sessions |-> IF s \in ss THEN Idle ELSE op[s]]
    /\ rowOf' = Released(rowOf, ss)
    /\ chunksOf' = Released(chunksOf, ss)

-----------------------------------------------------------------------------
(* Upload: DocumentService.upload and its route. *)

\* The file is there: its row is the answer, and what still needs indexing is
\* queued for it again.  Nothing is stored.
UploadExisting(s, f) ==
    /\ At(s, "idle") /\ rows[f] # None
    /\ IF rows[f].status \in {"pending", "failed"}
       THEN tasks' = tasks \union {<<f, rows[f].id>>} /\ lost' = lost \ {<<f, rows[f].id>>}
       ELSE UNCHANGED <<tasks, lost>>
    /\ UNCHANGED <<rows, stored, op, rowOf, chunksOf, inserted, faults, commitFirst>>

UploadPut(s, f) ==
    /\ At(s, "idle") /\ rows[f] = None
    /\ stored' = stored \union {f}
    /\ Do(s, [at |-> "put", file |-> f])
    /\ UNCHANGED <<rows, background, rowOf, chunksOf, inserted, faults>>

\* The insert waits for whoever has the key, and fails if it is taken.
UploadInsert(s) ==
    /\ At(s, "put") /\ rowOf[op[s].file] = None
    /\ IF rows[op[s].file] = None
       THEN /\ inserted < MaxRows
            /\ inserted' = inserted + 1
            /\ rowOf' = Taken(rowOf, s, op[s].file)
            /\ Do(s, [at |-> "uploaded", file |-> op[s].file, id |-> inserted'])
            /\ UNCHANGED chunksOf
       ELSE End({s}) /\ UNCHANGED inserted
    /\ UNCHANGED <<rows, stored, background, faults>>

\* A task that ran before the commit has found no row.
UploadCommit(s) ==
    /\ At(s, "uploaded")
    /\ LET f == op[s].file
           id == op[s].id
       IN  /\ rows' = [rows EXCEPT ![f] = [id |-> id, status |-> "pending", chunks |-> <<>>]]
           /\ IF commitFirst
              THEN tasks' = tasks \union {<<f, id>>} /\ UNCHANGED lost
              ELSE lost' = lost \union {<<f, id>>} /\ UNCHANGED tasks
    /\ End({s})
    /\ UNCHANGED <<stored, inserted, faults, commitFirst>>

-----------------------------------------------------------------------------
(* Delete: DocumentService.delete_document. *)

DeleteFind(s, f) ==
    /\ At(s, "idle") /\ rows[f] # None
    /\ Do(s, [at |-> "found", file |-> f, id |-> rows[f].id])
    /\ UNCHANGED <<rows, stored, background, rowOf, chunksOf, inserted, faults>>

\* A statement of s on the chunks of its row, which it locks.
TakeChunks(s) ==
    LET f == op[s].file
    IN  IF IsRow(f, op[s].id) /\ rows[f].chunks # <<>>
        THEN Free(chunksOf, s, f) /\ chunksOf' = Taken(chunksOf, s, f)
        ELSE UNCHANGED chunksOf

\* Chunks deleted by a transaction of their own.
DeleteChunksAtOnce(s) ==
    /\ At(s, "found") /\ Free(chunksOf, s, op[s].file)
    /\ rows' = IF IsRow(op[s].file, op[s].id)
               THEN [rows EXCEPT ![op[s].file].chunks = <<>>] ELSE rows
    /\ Move(s, "emptied")
    /\ UNCHANGED <<stored, background, rowOf, chunksOf, inserted, faults>>

\* The vector store's deletion.
DeleteChunks(s) ==
    /\ At(s, "found") /\ TakeChunks(s)
    /\ Move(s, "emptied")
    /\ UNCHANGED <<rows, stored, background, rowOf, inserted, faults>>

\* The bytes go now.
DeleteBytes(s) ==
    /\ At(s, "emptied")
    /\ stored' = stored \ {op[s].file}
    /\ Move(s, "unlinked")
    /\ UNCHANGED <<rows, background, rowOf, chunksOf, inserted, faults>>

\* session.delete has loaded the chunks an indexing has added meanwhile; the
\* flush deletes them,
DeleteLoaded(s) ==
    /\ At(s, "unlinked") /\ TakeChunks(s)
    /\ Move(s, "cleared")
    /\ UNCHANGED <<rows, stored, background, rowOf, inserted, faults>>

\* then the row,
DeleteRow(s) ==
    /\ At(s, "cleared")
    /\ IF IsRow(op[s].file, op[s].id)
       THEN rowOf[op[s].file] = None /\ rowOf' = Taken(rowOf, s, op[s].file)
       ELSE UNCHANGED rowOf
    /\ Move(s, "removed")
    /\ UNCHANGED <<rows, stored, background, chunksOf, inserted, faults>>

\* and the foreign key what has come since.
DeleteCascade(s) ==
    /\ At(s, "removed") /\ TakeChunks(s)
    /\ Move(s, "deleted")
    /\ UNCHANGED <<rows, stored, background, rowOf, inserted, faults>>

DeleteCommit(s) ==
    /\ At(s, "deleted")
    /\ rows' = IF IsRow(op[s].file, op[s].id) THEN [rows EXCEPT ![op[s].file] = None] ELSE rows
    /\ End({s})
    /\ UNCHANGED <<stored, background, inserted, faults>>

-----------------------------------------------------------------------------
(* Indexing: index_document_background and DocumentService.index_document. *)

\* The first flush of the indexing made a commit.
IndexStartCommits(s, f, id) ==
    /\ At(s, "idle") /\ <<f, id>> \in tasks /\ rowOf[f] = None
    /\ tasks' = tasks \ {<<f, id>>}
    /\ IF IsRow(f, id)
       THEN /\ rows' = [rows EXCEPT ![f].status = "parsing"]
            /\ rowOf' = Taken(rowOf, s, f)
            /\ Do(s, [at |-> "parsing", file |-> f, id |-> id])
       ELSE UNCHANGED <<rows, rowOf, op>>
    /\ UNCHANGED <<stored, chunksOf, inserted, faults, lost, commitFirst>>

\* The row is set to parsing once nobody else has it; a task whose row is gone
\* by then has nothing to do.
IndexStart(s, f, id) ==
    /\ At(s, "idle") /\ <<f, id>> \in tasks
    /\ tasks' = tasks \ {<<f, id>>}
    /\ IF IsRow(f, id)
       THEN /\ rowOf[f] = None /\ rowOf' = Taken(rowOf, s, f)
            /\ Do(s, [at |-> "parsing", file |-> f, id |-> id])
       ELSE UNCHANGED <<rowOf, op>>
    /\ UNCHANGED <<rows, stored, chunksOf, inserted, faults, lost, commitFirst>>

IndexRead(s) ==
    /\ At(s, "parsing") /\ op[s].file \in stored /\ Chunks[op[s].file] # <<>>
    /\ Move(s, "read")
    /\ UNCHANGED <<rows, stored, background, rowOf, chunksOf, inserted, faults>>

\* A failure nobody records.
IndexFailsQuietly(s) ==
    /\ At(s, "parsing")
    /\ End({s})
    /\ UNCHANGED <<rows, stored, background, inserted, faults>>

\* No bytes, no text, no chunks, no vectors.
IndexFails(s) ==
    /\ At(s, "parsing")
    /\ Move(s, "failed")
    /\ UNCHANGED <<rows, stored, background, rowOf, chunksOf, inserted, faults>>

\* The old chunks out, the new ones in.
IndexWrite(s) ==
    /\ At(s, "read") /\ TakeChunks(s)
    /\ Move(s, "indexed")
    /\ UNCHANGED <<rows, stored, background, rowOf, inserted, faults>>

IndexCommit(s) ==
    /\ At(s, "indexed") \/ At(s, "failed")
    /\ rows' = [rows EXCEPT ![op[s].file] =
                    [id |-> @.id, status |-> op[s].at,
                     chunks |-> IF At(s, "indexed") THEN Chunks[op[s].file] ELSE @.chunks]]
    /\ End({s})
    /\ UNCHANGED <<stored, background, inserted, faults>>

-----------------------------------------------------------------------------
(* What the database and the process do to them. *)

\* A deletion has the chunks and waits for the row, an indexing or another
\* deletion the other way round: the database ends one of the two.
DeadlockVictim(s) ==
    /\ \E t, u \in Sessions :
        /\ s \in {t, u}
        /\ At(t, "cleared") /\ op[u].at \in {"read", "removed"} /\ op[t].file = op[u].file
        /\ chunksOf[op[t].file] = t /\ rowOf[op[u].file] = u
    /\ End({s})
    /\ UNCHANGED <<rows, stored, background, inserted, faults>>

\* The documents the sessions ss are indexing.
Indexed(ss) == {<<op[s].file, op[s].id>> : s \in {t \in ss : op[t].at \in Indexing}}

\* A statement or the commit fails.  The indexing's own handler cannot record
\* it: its flush fails as well.
Breaks(s) ==
    /\ ~At(s, "idle") /\ faults < MaxFaults
    /\ faults' = faults + 1
    /\ End({s})
    /\ lost' = lost \union Indexed({s})
    /\ UNCHANGED <<rows, stored, tasks, inserted, commitFirst>>

Crash ==
    /\ faults < MaxFaults
    /\ faults' = faults + 1
    /\ End(Sessions)
    /\ tasks' = {} /\ lost' = lost \union Indexed(Sessions) \union tasks
    /\ UNCHANGED <<rows, stored, inserted, commitFirst>>

-----------------------------------------------------------------------------
Init ==
    /\ rows = [f \in Files |-> None]
    /\ stored = {} /\ tasks = {}
    /\ op = [s \in Sessions |-> Idle]
    /\ rowOf = [f \in Files |-> None] /\ chunksOf = [f \in Files |-> None]
    /\ inserted = 0 /\ faults = 0 /\ lost = {}
    /\ commitFirst \in BOOLEAN

Next ==
    \/ \E s \in Sessions, f \in Files :
        \/ UploadExisting(s, f) \/ UploadPut(s, f) \/ DeleteFind(s, f)
        \/ \E id \in Ids : IndexStart(s, f, id)
    \/ \E s \in Sessions :
        \/ UploadInsert(s) \/ UploadCommit(s)
        \/ DeleteChunks(s) \/ DeleteBytes(s) \/ DeleteLoaded(s)
        \/ DeleteRow(s) \/ DeleteCascade(s) \/ DeleteCommit(s)
        \/ IndexRead(s) \/ IndexFails(s) \/ IndexWrite(s) \/ IndexCommit(s)
        \/ DeadlockVictim(s) \/ Breaks(s)
    \/ Crash

Spec == Init /\ [][Next]_vars

-----------------------------------------------------------------------------
(* Properties. *)

\* A row that says indexed has its chunks, whichever deletion was begun and
\* undone and whoever indexed it again; and they hold its text from end to end,
\* in order, but for the words too long for a chunk.
IndexedIsSearchable ==
    \A f \in Files : rows[f] # None /\ rows[f].status = "indexed" =>
        rows[f].chunks # <<>> /\ HoldsTheText(rows[f].chunks, Text[f], MaxTokens)

\* A document left pending has somebody to index it, a task that waits or one
\* that runs, but for the losses the code has no answer to until it is uploaded
\* again: those of a crash, of a failed statement or commit, and of a task that
\* ran before the row was committed.
PendingIsOnItsWay ==
    /\ \A f \in Files : rows[f] # None /\ rows[f].status = "pending" =>
        \/ <<f, rows[f].id>> \in tasks \union lost
        \/ \E s \in Sessions :
            op[s].at \in Indexing /\ op[s].file = f /\ op[s].id = rows[f].id
    /\ lost # {} => faults > 0 \/ ~commitFirst

\* "Metadata only - the bytes live in object storage" (models/document.py): the
\* row of a document nobody is deleting has its bytes there.
RowsHaveTheirBytes ==
    \A f \in Files :
        /\ rows[f] # None
        /\ \A s \in Sessions : op[s].at \in Deleting \ {"found", "emptied"} => op[s].file # f
        => f \in stored
=============================================================================
