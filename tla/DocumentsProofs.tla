--------------------------- MODULE DocumentsProofs ---------------------------
(***************************************************************************)
(* Theorems about Documents, for any files, texts, sessions and numbers of *)
(* rows and faults.                                                        *)
(***************************************************************************)
EXTENDS Documents, TLAPS

-----------------------------------------------------------------------------
(* The invariant. *)

\* A session that works on a row it has found or made.
Busy == {"uploaded"} \union Deleting \union Indexing

\* It has deleted the row.
Removed == {"removed", "deleted"}

\* A row has the chunks its status promises, and those of its own text.
RowsInv ==
    \A f \in Files : rows[f] # None =>
        /\ rows[f].id <= inserted
        /\ rows[f].status = "pending" => rows[f].chunks = <<>>
        /\ rows[f].status = "indexed" => rows[f].chunks = Chunks[f] /\ Chunks[f] # <<>>

\* The id of a row that is not committed yet is known to nobody else.
IdsInv ==
    /\ \A t \in tasks : t[2] <= inserted
    /\ \A s \in Sessions : op[s].at \in Busy => op[s].id <= inserted
    /\ \A s \in Sessions : At(s, "uploaded") =>
        /\ \A t \in tasks : t[2] # op[s].id
        /\ \A f \in Files : rows[f] # None => rows[f].id # op[s].id
        /\ \A u \in Sessions \ {s} : op[u].at \in Busy => op[u].id # op[s].id

\* Who changes a row holds its lock, and who deletes it those of its chunks.
LocksInv ==
    /\ \A s \in Sessions : At(s, "uploaded") =>
        rowOf[op[s].file] = s /\ rows[op[s].file] = None
    /\ \A s \in Sessions : op[s].at \in Indexing =>
        rowOf[op[s].file] = s /\ IsRow(op[s].file, op[s].id)
    /\ \A s \in Sessions : op[s].at \in {"read", "indexed"} => Chunks[op[s].file] # <<>>
    /\ \A s \in Sessions : op[s].at \in Removed /\ IsRow(op[s].file, op[s].id) =>
        /\ rowOf[op[s].file] = s
        /\ At(s, "deleted") /\ rows[op[s].file].chunks # <<>> => chunksOf[op[s].file] = s
    /\ \A f \in Files : chunksOf[f] # None => rows[f] # None /\ rows[f].chunks # <<>>

DocInv == TypeOK /\ RowsInv /\ IdsInv /\ LocksInv

-----------------------------------------------------------------------------
(* Sessions move on, and end. *)

LEMMA OpFacts ==
    ASSUME TypeOK, NEW s \in Sessions
    PROVE  /\ op[s] \in Ops
           /\ op[s].at \in Busy =>
                /\ op[s] = [at |-> op[s].at, file |-> op[s].file, id |-> op[s].id]
                /\ op[s].file \in Files /\ op[s].id \in Ids
           /\ op[s].at = "put" => op[s].file \in Files
           /\ op[s].at \in Busy \union {"idle", "put"}
    BY DEF TypeOK, Ops, Idle, Busy, Deleting, Indexing

LEMMA MoveFacts ==
    ASSUME TypeOK, NEW s \in Sessions, op[s].at \in Busy, NEW where \in Busy, Move(s, where)
    PROVE  /\ op' \in [Sessions -> Ops]
           /\ op'[s].at = where /\ op'[s].file = op[s].file /\ op'[s].id = op[s].id
           /\ \A t \in Sessions \ {s} : op'[t] = op[t]
<1>1. /\ op[s] = [at |-> op[s].at, file |-> op[s].file, id |-> op[s].id]
      /\ op[s].file \in Files /\ op[s].id \in Ids
    BY OpFacts
<1>2. op \in [Sessions -> Ops]
    BY DEF TypeOK
<1>3. op' = [op EXCEPT ![s] = [at |-> where, file |-> op[s].file, id |-> op[s].id]]
    <2>1. op' = [op EXCEPT ![s] = [op[s] EXCEPT !.at = where]]
        BY DEF Move
    <2> DEFINE was == op[s]
    <2>2. was = [at |-> was.at, file |-> was.file, id |-> was.id]
        BY <1>1
    <2> HIDE DEF was
    <2>3. [was EXCEPT !.at = where] = [at |-> where, file |-> was.file, id |-> was.id]
        BY <2>2
    <2> QED
        BY <2>1, <2>3 DEF was
<1>4. [at |-> where, file |-> op[s].file, id |-> op[s].id] \in Ops
    BY <1>1 DEF Ops, Busy, Deleting, Indexing
<1>5. /\ op'[s] = [at |-> where, file |-> op[s].file, id |-> op[s].id]
      /\ \A t \in Sessions \ {s} : op'[t] = op[t]
    BY <1>2, <1>3
<1> QED
    BY <1>2, <1>3, <1>4, <1>5

LEMMA EndFacts ==
    ASSUME TypeOK, NEW ss \in SUBSET Sessions, End(ss)
    PROVE  /\ op' \in [Sessions -> Ops]
           /\ rowOf' \in [Files -> Sessions \union {None}]
           /\ chunksOf' \in [Files -> Sessions \union {None}]
           /\ \A s \in Sessions : op'[s] = IF s \in ss THEN Idle ELSE op[s]
           /\ \A f \in Files : rowOf'[f] = IF rowOf[f] \in ss THEN None ELSE rowOf[f]
           /\ \A f \in Files : chunksOf'[f] = IF chunksOf[f] \in ss THEN None ELSE chunksOf[f]
    BY DEF TypeOK, End, Released, Ops

LEMMA IdsFacts == Ids \subseteq Nat
    BY DocumentsAssumption DEF Ids

LEMMA IdleFacts == Idle.at = "idle" /\ "idle" \notin Busy
    BY DEF Idle, Busy, Deleting, Indexing

\* Transactions that end without a change leave the invariant to the others.
LEMMA Ending ==
    ASSUME DocInv, NEW ss \in SUBSET Sessions, End(ss),
           UNCHANGED <<rows, stored, inserted, commitFirst>>,
           tasks' \in SUBSET tasks, lost' \in SUBSET (Files \X Ids), faults' \in 0 .. MaxFaults
    PROVE  DocInv'
<1>1. TypeOK /\ RowsInv /\ IdsInv /\ LocksInv
    BY DEF DocInv
<1>2. /\ op' \in [Sessions -> Ops]
      /\ rowOf' \in [Files -> Sessions \union {None}]
      /\ chunksOf' \in [Files -> Sessions \union {None}]
      /\ \A s \in Sessions : op'[s] = IF s \in ss THEN Idle ELSE op[s]
      /\ \A f \in Files : rowOf'[f] = IF rowOf[f] \in ss THEN None ELSE rowOf[f]
      /\ \A f \in Files : chunksOf'[f] = IF chunksOf[f] \in ss THEN None ELSE chunksOf[f]
    BY <1>1, EndFacts
<1>3. \A s \in Sessions : op'[s].at \in Busy =>
        s \notin ss /\ op'[s] = op[s] /\ op[s].at \in Busy /\ op[s].file \in Files
    BY <1>1, <1>2, IdleFacts, OpFacts
<1>4. TypeOK'
    BY <1>1, <1>2 DEF TypeOK
<1>5. RowsInv'
    BY <1>1 DEF RowsInv
<1>6. IdsInv'
    BY <1>1, <1>3 DEF IdsInv, At, Busy, Deleting
<1>7. LocksInv'
    <2>1. \A s \in Sessions : s \notin ss => \A f \in Files :
            (rowOf[f] = s => rowOf'[f] = s) /\ (chunksOf[f] = s => chunksOf'[f] = s)
        BY <1>2
    <2>2. \A s \in Sessions : At(s, "uploaded")' =>
            rowOf'[op'[s].file] = s /\ rows[op'[s].file] = None
        BY <1>1, <1>3, <2>1 DEF LocksInv, At, Busy, Deleting
    <2>3. \A s \in Sessions : op'[s].at \in Indexing =>
            rowOf'[op'[s].file] = s /\ IsRow(op'[s].file, op'[s].id)
        BY <1>1, <1>3, <2>1 DEF LocksInv, Busy, Deleting
    <2>4. \A s \in Sessions : op'[s].at \in {"read", "indexed"} => Chunks[op'[s].file] # <<>>
        BY <1>1, <1>3 DEF LocksInv, Busy, Deleting, Indexing
    <2>5. \A s \in Sessions : op'[s].at \in Removed /\ IsRow(op'[s].file, op'[s].id) =>
            /\ rowOf'[op'[s].file] = s
            /\ op'[s].at = "deleted" /\ rows[op'[s].file].chunks # <<>> =>
                chunksOf'[op'[s].file] = s
        BY <1>1, <1>3, <2>1 DEF LocksInv, At, Busy, Deleting, Removed
    <2>6. \A f \in Files : chunksOf'[f] # None => rows[f] # None /\ rows[f].chunks # <<>>
        BY <1>1, <1>2 DEF LocksInv
    <2> QED
        BY <2>2, <2>3, <2>4, <2>5, <2>6 DEF LocksInv, IsRow, At
<1> QED
    BY <1>4, <1>5, <1>6, <1>7 DEF DocInv

\* A statement inside a transaction: what it locks it keeps from the others.
LEMMA Moving ==
    ASSUME DocInv, NEW s \in Sessions, op[s].at \in Busy \ {"uploaded"},
           NEW where \in Busy \ {"uploaded"}, Move(s, where),
           UNCHANGED <<rows, background, inserted, faults>>, stored' \in SUBSET Files,
           rowOf' \in [Files -> Sessions \union {None}],
           chunksOf' \in [Files -> Sessions \union {None}],
           \A t \in Sessions \ {s}, f \in Files :
                (rowOf[f] = t => rowOf'[f] = t) /\ (chunksOf[f] = t => chunksOf'[f] = t),
           \A f \in Files : chunksOf'[f] # None =>
                chunksOf[f] # None \/ (rows[f] # None /\ rows[f].chunks # <<>>),
           where \in Indexing =>
                rowOf'[op[s].file] = s /\ IsRow(op[s].file, op[s].id),
           where \in {"read", "indexed"} => Chunks[op[s].file] # <<>>,
           where \in Removed /\ IsRow(op[s].file, op[s].id) =>
                /\ rowOf'[op[s].file] = s
                /\ where = "deleted" /\ rows[op[s].file].chunks # <<>> =>
                    chunksOf'[op[s].file] = s
    PROVE  DocInv'
<1>1. TypeOK /\ RowsInv /\ IdsInv /\ LocksInv
    BY DEF DocInv
<1>2. /\ op' \in [Sessions -> Ops]
      /\ op'[s].at = where /\ op'[s].file = op[s].file /\ op'[s].id = op[s].id
      /\ \A t \in Sessions \ {s} : op'[t] = op[t]
    BY <1>1, MoveFacts
<1>3. \A t \in Sessions : op[t].at \in Busy => op[t].file \in Files
    BY <1>1, OpFacts
<1>4. TypeOK'
    BY <1>1, <1>2 DEF TypeOK, background
<1>5. RowsInv'
    BY <1>1 DEF RowsInv
<1>6. IdsInv'
    BY <1>1, <1>2 DEF IdsInv, At, background
<1>7. LocksInv'
    <2>1. ASSUME NEW t \in Sessions, At(t, "uploaded")'
          PROVE  rowOf'[op'[t].file] = t /\ rows[op'[t].file] = None
        <3>1. t # s /\ op'[t] = op[t] /\ At(t, "uploaded")
            BY <1>2, <2>1 DEF At
        <3> QED
            BY <1>1, <1>3, <3>1 DEF LocksInv, At, Busy, Deleting
    <2>2. ASSUME NEW t \in Sessions, op'[t].at \in Indexing
          PROVE  rowOf'[op'[t].file] = t /\ IsRow(op'[t].file, op'[t].id)
        <3>1. CASE t = s
            BY <1>2, <2>2, <3>1
        <3>2. CASE t # s
            <4>1. op'[t] = op[t] /\ op[t].file \in Files
                BY <1>2, <1>3, <2>2, <3>2 DEF Busy, Deleting
            <4> QED
                BY <1>1, <2>2, <3>2, <4>1 DEF LocksInv
        <3> QED
            BY <3>1, <3>2
    <2>3. ASSUME NEW t \in Sessions, op'[t].at \in {"read", "indexed"}
          PROVE  Chunks[op'[t].file] # <<>>
        BY <1>1, <1>2, <2>3 DEF LocksInv
    <2>4. ASSUME NEW t \in Sessions, op'[t].at \in Removed, IsRow(op'[t].file, op'[t].id)
          PROVE  /\ rowOf'[op'[t].file] = t
                 /\ op'[t].at = "deleted" /\ rows[op'[t].file].chunks # <<>> =>
                    chunksOf'[op'[t].file] = t
        <3>1. CASE t = s
            BY <1>2, <2>4, <3>1
        <3>2. CASE t # s
            <4>1. op'[t] = op[t] /\ op[t].at \in Removed /\ op[t].file \in Files
                BY <1>2, <1>3, <2>4, <3>2 DEF Busy, Deleting, Removed
            <4> QED
                BY <1>1, <2>4, <3>2, <4>1 DEF LocksInv, At
        <3> QED
            BY <3>1, <3>2
    <2>5. \A f \in Files : chunksOf'[f] # None => rows[f] # None /\ rows[f].chunks # <<>>
        BY <1>1 DEF LocksInv
    <2> QED
        BY <2>1, <2>2, <2>3, <2>4, <2>5 DEF LocksInv, IsRow, At
<1> QED
    BY <1>4, <1>5, <1>6, <1>7 DEF DocInv

\* The statements of a deletion and of an indexing.
LEMMA Statements ==
    ASSUME DocInv, NEW s \in Sessions,
           \/ DeleteChunks(s) \/ DeleteBytes(s) \/ DeleteLoaded(s)
           \/ DeleteRow(s) \/ DeleteCascade(s)
           \/ IndexRead(s) \/ IndexFails(s) \/ IndexWrite(s)
    PROVE  DocInv'
<1>1. TypeOK /\ RowsInv /\ IdsInv /\ LocksInv /\ None \notin Sessions
    BY DocumentsAssumption DEF DocInv
<1>2. /\ op[s].at \in Busy => op[s].file \in Files
      /\ rowOf \in [Files -> Sessions \union {None}]
      /\ chunksOf \in [Files -> Sessions \union {None}] /\ stored \subseteq Files
    BY <1>1, OpFacts DEF TypeOK
<1>3. ASSUME TakeChunks(s), op[s].file \in Files
       PROVE  /\ chunksOf' \in [Files -> Sessions \union {None}]
              /\ \A t \in Sessions \ {s}, f \in Files : chunksOf[f] = t => chunksOf'[f] = t
              /\ \A f \in Files : chunksOf'[f] # None =>
                    chunksOf[f] # None \/ (rows[f] # None /\ rows[f].chunks # <<>>)
              /\ IsRow(op[s].file, op[s].id) /\ rows[op[s].file].chunks # <<>> =>
                    chunksOf'[op[s].file] = s
    BY <1>1, <1>2, <1>3 DEF TakeChunks, Taken, Free, IsRow
<1>4. CASE DeleteChunks(s)
    <2>1. /\ op[s].at \in Busy \ {"uploaded"} /\ Move(s, "emptied")
          /\ UNCHANGED <<rows, stored, background, rowOf, inserted, faults>> /\ TakeChunks(s)
        BY <1>4 DEF DeleteChunks, At, Busy, Deleting
    <2>2. "emptied" \in Busy \ {"uploaded"} /\ "emptied" \notin Indexing \union Removed
        BY DEF Busy, Deleting, Indexing, Removed
    <2> QED
        BY <1>1, <1>2, <1>3, <2>1, <2>2, Moving DEF Indexing
<1>5. CASE DeleteBytes(s)
    <2>1. /\ op[s].at \in Busy \ {"uploaded"} /\ Move(s, "unlinked")
          /\ UNCHANGED <<rows, background, rowOf, chunksOf, inserted, faults>>
          /\ stored' \in SUBSET Files
        BY <1>2, <1>5 DEF DeleteBytes, At, Busy, Deleting
    <2>2. "unlinked" \in Busy \ {"uploaded"} /\ "unlinked" \notin Indexing \union Removed
        BY DEF Busy, Deleting, Indexing, Removed
    <2> QED
        BY <1>1, <1>2, <2>1, <2>2, Moving DEF Indexing
<1>6. CASE DeleteLoaded(s)
    <2>1. /\ op[s].at \in Busy \ {"uploaded"} /\ Move(s, "cleared")
          /\ UNCHANGED <<rows, stored, background, rowOf, inserted, faults>> /\ TakeChunks(s)
        BY <1>6 DEF DeleteLoaded, At, Busy, Deleting
    <2>2. "cleared" \in Busy \ {"uploaded"} /\ "cleared" \notin Indexing \union Removed
        BY DEF Busy, Deleting, Indexing, Removed
    <2> QED
        BY <1>1, <1>2, <1>3, <2>1, <2>2, Moving DEF Indexing
<1>7. CASE DeleteRow(s)
    <2>1. /\ op[s].at \in Busy \ {"uploaded"} /\ Move(s, "removed") /\ op[s].file \in Files
          /\ UNCHANGED <<rows, stored, background, chunksOf, inserted, faults>>
        BY <1>2, <1>7 DEF DeleteRow, At, Busy, Deleting
    <2>2. /\ rowOf' \in [Files -> Sessions \union {None}]
          /\ \A t \in Sessions \ {s}, f \in Files : rowOf[f] = t => rowOf'[f] = t
          /\ IsRow(op[s].file, op[s].id) => rowOf'[op[s].file] = s
        BY <1>1, <1>2, <1>7, <2>1 DEF DeleteRow, Taken
    <2>3. "removed" \in Busy \ {"uploaded"} /\ "removed" \notin Indexing
        BY DEF Busy, Deleting, Indexing
    <2> QED
        BY <1>1, <1>2, <2>1, <2>2, <2>3, Moving DEF Indexing
<1>8. CASE DeleteCascade(s)
    <2>1. /\ op[s].at \in Busy \ {"uploaded"} /\ Move(s, "deleted") /\ op[s].at \in Removed
          /\ UNCHANGED <<rows, stored, background, rowOf, inserted, faults>> /\ TakeChunks(s)
        BY <1>8 DEF DeleteCascade, At, Busy, Deleting, Removed
    <2>2. IsRow(op[s].file, op[s].id) => rowOf[op[s].file] = s
        BY <1>1, <2>1 DEF LocksInv
    <2>3. "deleted" \in Busy \ {"uploaded"} /\ "deleted" \notin Indexing
        BY DEF Busy, Deleting, Indexing
    <2> QED
        BY <1>1, <1>2, <1>3, <2>1, <2>2, <2>3, Moving DEF Indexing
<1>9. CASE IndexRead(s)
    <2>1. /\ op[s].at \in Busy \ {"uploaded"} /\ op[s].at \in Indexing /\ Move(s, "read")
          /\ UNCHANGED <<rows, stored, background, rowOf, chunksOf, inserted, faults>>
          /\ Chunks[op[s].file] # <<>>
        BY <1>9 DEF IndexRead, At, Busy, Deleting, Indexing
    <2>2. rowOf[op[s].file] = s /\ IsRow(op[s].file, op[s].id)
        BY <1>1, <2>1 DEF LocksInv
    <2>3. "read" \in Busy \ {"uploaded"} /\ "read" \notin Removed
        BY DEF Busy, Deleting, Indexing, Removed
    <2> QED
        BY <1>1, <1>2, <2>1, <2>2, <2>3, Moving
<1>10. CASE IndexFails(s)
    <2>1. /\ op[s].at \in Busy \ {"uploaded"} /\ op[s].at \in Indexing /\ Move(s, "failed")
          /\ UNCHANGED <<rows, stored, background, rowOf, chunksOf, inserted, faults>>
        BY <1>10 DEF IndexFails, At, Busy, Deleting, Indexing
    <2>2. rowOf[op[s].file] = s /\ IsRow(op[s].file, op[s].id)
        BY <1>1, <2>1 DEF LocksInv
    <2>3. "failed" \in Busy \ {"uploaded"} /\ "failed" \notin Removed \union {"read", "indexed"}
        BY DEF Busy, Deleting, Indexing, Removed
    <2> QED
        BY <1>1, <1>2, <2>1, <2>2, <2>3, Moving
<1>11. CASE IndexWrite(s)
    <2>1. /\ op[s].at \in Busy \ {"uploaded"} /\ op[s].at \in Indexing /\ At(s, "read")
          /\ Move(s, "indexed") /\ TakeChunks(s)
          /\ UNCHANGED <<rows, stored, background, rowOf, inserted, faults>>
        BY <1>11 DEF IndexWrite, At, Busy, Deleting, Indexing
    <2>2. rowOf[op[s].file] = s /\ IsRow(op[s].file, op[s].id) /\ Chunks[op[s].file] # <<>>
        BY <1>1, <2>1 DEF LocksInv, At
    <2>4. "indexed" \in Busy \ {"uploaded"} /\ "indexed" \notin Removed
        BY DEF Busy, Deleting, Indexing, Removed
    <2> QED
        BY <1>1, <1>2, <1>3, <2>1, <2>2, <2>4, Moving
<1> QED
    BY <1>4, <1>5, <1>6, <1>7, <1>8, <1>9, <1>10, <1>11

\* A session that takes up something: what the others hold is theirs.
LEMMA Beginning ==
    ASSUME DocInv, NEW s \in Sessions, op[s].at \in {"idle", "put"},
           NEW what \in Ops, Do(s, what),
           UNCHANGED <<rows, chunksOf, faults, lost, commitFirst>>, stored' \in SUBSET Files,
           tasks' \in SUBSET tasks, inserted' \in 0 .. MaxRows, inserted' >= inserted,
           rowOf' \in [Files -> Sessions \union {None}],
           \A f \in Files : rowOf[f] # None => rowOf'[f] = rowOf[f],
           what.at \in Busy => what.id <= inserted',
           \/ what.at \in {"put", "found"} /\ (what.at = "found" => \E f \in Files : IsRow(f, what.id))
           \/ what.at = "uploaded" /\ rowOf'[what.file] = s /\ rows[what.file] = None
                /\ what.id > inserted
           \/ what.at = "parsing" /\ rowOf'[what.file] = s /\ IsRow(what.file, what.id)
    PROVE  DocInv'
<1>1. TypeOK /\ RowsInv /\ IdsInv /\ LocksInv /\ None \notin Sessions
    BY DocumentsAssumption DEF DocInv
<1>2. /\ op \in [Sessions -> Ops] /\ inserted \in Nat /\ inserted' \in Nat
      /\ tasks \subseteq Files \X Ids
    BY <1>1, DocumentsAssumption DEF TypeOK
<1>3. /\ op' \in [Sessions -> Ops] /\ op'[s] = what
      /\ \A t \in Sessions \ {s} : op'[t] = op[t]
    BY <1>2 DEF Do
<1>4. \A t \in Sessions : op[t].at \in Busy => op[t].file \in Files /\ op[t].id \in Nat
    BY <1>1, OpFacts, IdsFacts
<1>5. TypeOK'
    BY <1>1, <1>3 DEF TypeOK
<1>6. /\ \A f \in Files : rows[f] # None => rows[f].id <= inserted /\ rows[f].id \in Nat
      /\ \A t \in tasks : t[2] <= inserted /\ t[2] \in Nat
      /\ \A t \in Sessions : op[t].at \in Busy => op[t].id <= inserted
    <2>1. rows \in [Files -> Row \union {None}] /\ \A r \in Row : r.id \in Nat
        BY <1>1, DocumentsAssumption DEF TypeOK, Row, Ids
    <2>2. \A t \in tasks : t[2] \in Nat
        BY <1>2, DocumentsAssumption DEF Ids
    <2> QED
        BY <1>1, <2>1, <2>2 DEF RowsInv, IdsInv
<1>7. what.at \in Busy => what.id \in Nat /\ what.file \in Files
    <2>1. what.at \in Busy => what.id \in Ids /\ what.file \in Files
        BY DEF Ops, Idle, Busy, Deleting, Indexing
    <2> QED
        BY <2>1, IdsFacts
<1>8. RowsInv'
    <2>1. \A f \in Files : rows[f] # None => rows[f].id <= inserted'
        BY <1>2, <1>6
    <2> QED
        BY <1>1, <2>1 DEF RowsInv
<1>9. IdsInv'
    <2>1. \A t \in tasks' : t[2] <= inserted'
        BY <1>2, <1>6
    <2>2. \A t \in Sessions : op'[t].at \in Busy => op'[t].id <= inserted'
        BY <1>2, <1>3, <1>4, <1>6
    <2>3. ASSUME NEW t \in Sessions, At(t, "uploaded")'
          PROVE  /\ \A u \in tasks' : u[2] # op'[t].id
                 /\ \A f \in Files : rows[f] # None => rows[f].id # op'[t].id
                 /\ \A u \in Sessions \ {t} : op'[u].at \in Busy => op'[u].id # op'[t].id
        <3>1. CASE t = s
            <4>1. op'[t] = what /\ what.at = "uploaded" /\ what.id \in Nat /\ what.id > inserted
                BY <1>3, <1>7, <2>3, <3>1 DEF At, Busy, Deleting
            <4>2. \A u \in Sessions \ {t} : op'[u] = op[u]
                BY <1>3, <3>1
            <4> QED
                BY <1>2, <1>4, <1>6, <4>1, <4>2
        <3>2. CASE t # s
            <4>1. op'[t] = op[t] /\ At(t, "uploaded") /\ op[t].id <= inserted /\ op[t].id \in Nat
                BY <1>3, <1>4, <1>6, <2>3, <3>2 DEF At, Busy, Deleting
            <4>2. /\ \A u \in tasks : u[2] # op[t].id
                  /\ \A f \in Files : rows[f] # None => rows[f].id # op[t].id
                  /\ \A u \in Sessions \ {t} : op[u].at \in Busy => op[u].id # op[t].id
                BY <1>1, <4>1 DEF IdsInv
            <4>3. what.at \in Busy => what.id # op[t].id
                <5>1. CASE what.at = "found" \/ what.at = "parsing"
                    BY <1>7, <4>2, <5>1 DEF IsRow, Busy, Deleting, Indexing
                <5>2. CASE what.at = "uploaded"
                    BY <1>2, <1>7, <4>1, <5>2 DEF Busy, Deleting
                <5>3. CASE what.at = "put"
                    BY <5>3 DEF Busy, Deleting, Indexing
                <5> QED
                    BY <5>1, <5>2, <5>3
            <4>4. ASSUME NEW u \in Sessions \ {t}, op'[u].at \in Busy
                  PROVE  op'[u].id # op[t].id
                BY <1>3, <4>2, <4>3, <4>4
            <4> QED
                BY <4>1, <4>2, <4>4
        <3> QED
            BY <3>1, <3>2
    <2> QED
        BY <2>1, <2>2, <2>3 DEF IdsInv
<1>10. LocksInv'
    <2>1. \A t \in Sessions, f \in Files : rowOf[f] = t => rowOf'[f] = t
        BY <1>1
    <2>2. ASSUME NEW t \in Sessions, At(t, "uploaded")'
          PROVE  rowOf'[op'[t].file] = t /\ rows[op'[t].file] = None
        <3>1. CASE t = s
            BY <1>3, <2>2, <3>1 DEF At
        <3>2. CASE t # s
            <4>1. op'[t] = op[t] /\ At(t, "uploaded") /\ op[t].file \in Files
                BY <1>3, <1>4, <2>2, <3>2 DEF At, Busy, Deleting
            <4> QED
                BY <1>1, <2>1, <4>1 DEF LocksInv
        <3> QED
            BY <3>1, <3>2
    <2>3. ASSUME NEW t \in Sessions, op'[t].at \in Indexing
          PROVE  rowOf'[op'[t].file] = t /\ IsRow(op'[t].file, op'[t].id)
        <3>1. CASE t = s
            BY <1>3, <2>3, <3>1 DEF Indexing
        <3>2. CASE t # s
            <4>1. op'[t] = op[t] /\ op[t].file \in Files
                BY <1>3, <1>4, <2>3, <3>2 DEF Busy, Deleting
            <4> QED
                BY <1>1, <2>1, <2>3, <4>1 DEF LocksInv
        <3> QED
            BY <3>1, <3>2
    <2>4. ASSUME NEW t \in Sessions, op'[t].at \in {"read", "indexed"}
          PROVE  Chunks[op'[t].file] # <<>>
        BY <1>1, <1>3, <2>4 DEF LocksInv
    <2>5. ASSUME NEW t \in Sessions, op'[t].at \in Removed, IsRow(op'[t].file, op'[t].id)
          PROVE  /\ rowOf'[op'[t].file] = t
                 /\ op'[t].at = "deleted" /\ rows[op'[t].file].chunks # <<>> =>
                    chunksOf[op'[t].file] = t
        <3>1. op'[t] = op[t] /\ op[t].at \in Removed /\ op[t].file \in Files
            BY <1>3, <1>4, <2>5 DEF Busy, Deleting, Indexing, Removed
        <3> QED
            BY <1>1, <2>1, <2>5, <3>1 DEF LocksInv, At
    <2> QED
        BY <1>1, <2>2, <2>3, <2>4, <2>5 DEF LocksInv, IsRow, At
<1> QED
    BY <1>5, <1>8, <1>9, <1>10 DEF DocInv

LEMMA Beginnings ==
    ASSUME DocInv, NEW s \in Sessions, NEW f \in Files,
           \/ UploadPut(s, f) \/ UploadInsert(s) \/ DeleteFind(s, f)
           \/ \E id \in Ids : IndexStart(s, f, id)
    PROVE  DocInv'
<1>1. TypeOK /\ RowsInv /\ IdsInv /\ LocksInv /\ MaxRows \in Nat
    BY DocumentsAssumption DEF DocInv
<1>2. /\ stored \in SUBSET Files /\ tasks \in SUBSET (Files \X Ids)
      /\ inserted \in 0 .. MaxRows /\ faults \in 0 .. MaxFaults
      /\ rowOf \in [Files -> Sessions \union {None}] /\ rows \in [Files -> Row \union {None}]
      /\ inserted \in Int /\ lost \in SUBSET (Files \X Ids)
    BY <1>1 DEF TypeOK
<1>3. CASE UploadPut(s, f)
    <2> DEFINE what == [at |-> "put", file |-> f]
    <2>1. what \in Ops /\ what.at = "put" /\ what.at \notin Busy
        BY DEF Ops, Busy, Deleting, Indexing
    <2>2. /\ op[s].at \in {"idle", "put"} /\ Do(s, what)
          /\ UNCHANGED <<rows, tasks, rowOf, chunksOf, inserted, faults, lost, commitFirst>>
          /\ stored' \in SUBSET Files
        BY <1>2, <1>3 DEF UploadPut, At, background
    <2> HIDE DEF what
    <2> QED
        BY <1>2, <2>1, <2>2, Beginning
<1>4. CASE DeleteFind(s, f)
    <2> DEFINE what == [at |-> "found", file |-> f, id |-> rows[f].id]
    <2>1. rows[f] # None /\ rows[f] \in Row
        BY <1>2, <1>4 DEF DeleteFind
    <2>2. rows[f].id \in Ids /\ rows[f].id <= inserted
        BY <1>1, <2>1 DEF Row, RowsInv
    <2>3. /\ what \in Ops /\ what.at = "found" /\ what.id = rows[f].id /\ IsRow(f, what.id)
        BY <2>1, <2>2 DEF Ops, Deleting, IsRow
    <2>4. /\ op[s].at \in {"idle", "put"} /\ Do(s, what)
          /\ UNCHANGED <<rows, stored, tasks, rowOf, chunksOf, inserted, faults, lost, commitFirst>>
        BY <1>4 DEF DeleteFind, At, background
    <2> HIDE DEF what
    <2> QED
        BY <1>2, <2>2, <2>3, <2>4, Beginning
<1>5. CASE UploadInsert(s)
    <2>1. op[s].at = "put" /\ op[s].file \in Files /\ rowOf[op[s].file] = None
        BY <1>1, <1>5, OpFacts DEF UploadInsert, At
    <2>2. CASE rows[op[s].file] = None
        <3> DEFINE what == [at |-> "uploaded", file |-> op[s].file, id |-> inserted + 1]
        <3>1. /\ inserted < MaxRows /\ inserted' = inserted + 1 /\ Do(s, what)
              /\ rowOf' = [rowOf EXCEPT ![op[s].file] = s]
              /\ UNCHANGED <<rows, stored, tasks, chunksOf, faults, lost, commitFirst>>
            BY <1>5, <2>2 DEF UploadInsert, Taken, background
        <3>2. /\ inserted + 1 \in Ids /\ inserted' \in 0 .. MaxRows /\ inserted' >= inserted
              /\ inserted + 1 > inserted /\ inserted + 1 <= inserted'
            BY <1>1, <1>2, <3>1 DEF Ids
        <3>3. what \in Ops /\ what.at = "uploaded" /\ what.id = inserted + 1 /\ what.file = op[s].file
            BY <2>1, <3>2 DEF Ops
        <3>4. /\ rowOf' \in [Files -> Sessions \union {None}] /\ rowOf'[op[s].file] = s
              /\ \A g \in Files : rowOf[g] # None => rowOf'[g] = rowOf[g]
            BY <1>2, <2>1, <3>1
        <3> HIDE DEF what
        <3> QED
            BY <1>2, <2>1, <2>2, <3>1, <3>2, <3>3, <3>4, Beginning
    <2>3. CASE rows[op[s].file] # None
        <3>1. End({s}) /\ UNCHANGED <<rows, stored, tasks, inserted, faults, lost, commitFirst>>
            BY <1>5, <2>3 DEF UploadInsert, background
        <3> QED
            BY <1>2, <3>1, Ending
    <2> QED
        BY <2>2, <2>3
<1>6. CASE \E id \in Ids : IndexStart(s, f, id)
    <2> PICK id \in Ids : IndexStart(s, f, id)
        BY <1>6
    <2>1. /\ op[s].at = "idle" /\ <<f, id>> \in tasks /\ tasks' \in SUBSET tasks
          /\ UNCHANGED <<rows, stored, chunksOf, inserted, faults, lost, commitFirst>>
        BY DEF IndexStart, At
    <2>2. CASE IsRow(f, id)
        <3> DEFINE what == [at |-> "parsing", file |-> f, id |-> id]
        <3>1. what \in Ops /\ what.at = "parsing" /\ what.file = f /\ what.id = id
            BY DEF Ops, Indexing
        <3>2. Do(s, what) /\ rowOf[f] = None /\ rowOf' = [rowOf EXCEPT ![f] = s]
            BY <2>2 DEF IndexStart, Taken
        <3>3. /\ rowOf' \in [Files -> Sessions \union {None}] /\ rowOf'[f] = s
              /\ \A g \in Files : rowOf[g] # None => rowOf'[g] = rowOf[g]
            BY <1>2, <2>1, <3>2
        <3>4. id <= inserted
            BY <1>1, <2>2 DEF IsRow, RowsInv
        <3> HIDE DEF what
        <3> QED
            BY <1>2, <2>1, <2>2, <3>1, <3>2, <3>3, <3>4, Beginning
    <2>3. CASE ~IsRow(f, id)
        <3>1. UNCHANGED <<op, rowOf>>
            BY <2>3 DEF IndexStart
        <3>2. TypeOK'
            BY <1>1, <1>2, <2>1, <3>1 DEF TypeOK
        <3> QED
            BY <1>1, <2>1, <3>1, <3>2 DEF DocInv, RowsInv, IdsInv, LocksInv, At, IsRow
    <2> QED
        BY <2>2, <2>3
<1> QED
    BY <1>3, <1>4, <1>5, <1>6

LEMMA UploadedAgain ==
    ASSUME DocInv, NEW s \in Sessions, NEW f \in Files, UploadExisting(s, f)
    PROVE  DocInv'
<1>1. TypeOK /\ RowsInv /\ IdsInv /\ LocksInv
    BY DEF DocInv
<1>2. rows[f] # None /\ rows[f] \in Row
    BY <1>1 DEF UploadExisting, TypeOK
<1>3. rows[f].id \in Ids /\ rows[f].id <= inserted
    BY <1>1, <1>2 DEF Row, RowsInv
<1>4. /\ tasks' \in SUBSET (tasks \union {<<f, rows[f].id>>})
      /\ lost' \subseteq lost
      /\ UNCHANGED <<rows, stored, op, rowOf, chunksOf, inserted, faults, commitFirst>>
    BY DEF UploadExisting
<1>5. TypeOK'
    BY <1>1, <1>3, <1>4 DEF TypeOK
<1>6. IdsInv'
    <2>1. \A t \in tasks' : t[2] <= inserted
        BY <1>1, <1>3, <1>4 DEF IdsInv
    <2>2. \A u \in Sessions : At(u, "uploaded") => \A t \in tasks' : t[2] # op[u].id
        BY <1>1, <1>2, <1>4 DEF IdsInv
    <2> QED
        BY <1>1, <1>4, <2>1, <2>2 DEF IdsInv, At
<1> QED
    BY <1>1, <1>4, <1>5, <1>6 DEF DocInv, RowsInv, LocksInv, At, IsRow

\* A commit that changes a row: whoever held it had it for itself.
LEMMA Committing ==
    ASSUME DocInv, NEW s \in Sessions, op[s].at \in Busy, rowOf[op[s].file] = s, End({s}),
           NEW new \in Row \union {None}, rows' = [rows EXCEPT ![op[s].file] = new],
           UNCHANGED <<stored, inserted, faults, commitFirst>>, lost' \in SUBSET (Files \X Ids),
           tasks' \in SUBSET (tasks \union {<<op[s].file, op[s].id>>}),
           new # None =>
                /\ new.id = op[s].id /\ new.status # "parsing"
                /\ new.status = "pending" => new.chunks = <<>>
                /\ new.status = "indexed" =>
                    new.chunks = Chunks[op[s].file] /\ Chunks[op[s].file] # <<>>
                /\ At(s, "uploaded") \/ IsRow(op[s].file, op[s].id),
           chunksOf[op[s].file] \in {None, s} \/ (new # None /\ new.chunks # <<>>)
    PROVE  DocInv'
<1> DEFINE f == op[s].file
<1>1. TypeOK /\ RowsInv /\ IdsInv /\ LocksInv /\ None \notin Sessions
    BY DocumentsAssumption DEF DocInv
<1>2. /\ op' \in [Sessions -> Ops]
      /\ rowOf' \in [Files -> Sessions \union {None}]
      /\ chunksOf' \in [Files -> Sessions \union {None}]
      /\ \A t \in Sessions : op'[t] = IF t = s THEN Idle ELSE op[t]
      /\ \A g \in Files : rowOf'[g] = IF rowOf[g] = s THEN None ELSE rowOf[g]
      /\ \A g \in Files : chunksOf'[g] = IF chunksOf[g] = s THEN None ELSE chunksOf[g]
    BY <1>1, EndFacts
<1>3. f \in Files /\ op[s].id \in Ids /\ op[s].id <= inserted /\ rows \in [Files -> Row \union {None}]
    BY <1>1, OpFacts DEF IdsInv, TypeOK
<1>4. /\ rows'[f] = new /\ \A g \in Files \ {f} : rows'[g] = rows[g]
      /\ rows' \in [Files -> Row \union {None}]
    BY <1>3
<1>5. \A t \in Sessions : op'[t].at \in Busy =>
        t # s /\ op'[t] = op[t] /\ op[t].at \in Busy /\ op[t].file \in Files
    <2> SUFFICES ASSUME NEW t \in Sessions, op'[t].at \in Busy
                 PROVE  t # s /\ op'[t] = op[t] /\ op[t].at \in Busy /\ op[t].file \in Files
        OBVIOUS
    <2>1. t # s
        BY <1>2, IdleFacts
    <2>2. op'[t] = op[t]
        BY <1>2, <2>1
    <2> QED
        BY <1>1, <2>1, <2>2, OpFacts
<1> HIDE DEF f
<1>6. TypeOK'
    <2>1. tasks' \subseteq Files \X Ids
        BY <1>1, <1>3 DEF TypeOK, f
    <2>2. \A g \in Files : rows'[g] # None => rows'[g].status # "parsing"
        BY <1>1, <1>4 DEF TypeOK
    <2> QED
        BY <1>1, <1>2, <1>4, <2>1, <2>2 DEF TypeOK
<1>7. RowsInv'
    <2>1. ASSUME NEW g \in Files, rows'[g] # None
          PROVE  /\ rows'[g].id <= inserted
                 /\ rows'[g].status = "pending" => rows'[g].chunks = <<>>
                 /\ rows'[g].status = "indexed" => rows'[g].chunks = Chunks[g] /\ Chunks[g] # <<>>
        <3>1. CASE g = f
            BY <1>3, <1>4, <2>1, <3>1 DEF f
        <3>2. CASE g # f
            BY <1>1, <1>4, <2>1, <3>2 DEF RowsInv
        <3> QED
            BY <3>1, <3>2
    <2> QED
        BY <2>1 DEF RowsInv
<1>8. IdsInv'
    <2>1. \A t \in tasks' : t[2] <= inserted
        BY <1>1, <1>3 DEF IdsInv
    <2>2. \A t \in Sessions : op'[t].at \in Busy => op'[t].id <= inserted
        BY <1>1, <1>5 DEF IdsInv
    <2>3. ASSUME NEW t \in Sessions, At(t, "uploaded")'
          PROVE  /\ \A u \in tasks' : u[2] # op'[t].id
                 /\ \A g \in Files : rows'[g] # None => rows'[g].id # op'[t].id
                 /\ \A u \in Sessions \ {t} : op'[u].at \in Busy => op'[u].id # op'[t].id
        <3>1. t # s /\ op'[t] = op[t] /\ At(t, "uploaded")
            BY <1>5, <2>3 DEF At, Busy, Deleting
        <3>2. /\ \A u \in tasks : u[2] # op[t].id
              /\ \A g \in Files : rows[g] # None => rows[g].id # op[t].id
              /\ \A u \in Sessions \ {t} : op[u].at \in Busy => op[u].id # op[t].id
            BY <1>1, <3>1 DEF IdsInv
        <3>3. op[s].id # op[t].id
            BY <3>1, <3>2
        <3>4. \A u \in tasks' : u[2] # op[t].id
            BY <3>2, <3>3
        <3>5. \A g \in Files : rows'[g] # None => rows'[g].id # op[t].id
            BY <1>4, <3>2, <3>3
        <3>6. \A u \in Sessions \ {t} : op'[u].at \in Busy => op'[u].id # op[t].id
            BY <1>5, <3>2
        <3> QED
            BY <3>1, <3>4, <3>5, <3>6
    <2> QED
        BY <2>1, <2>2, <2>3 DEF IdsInv
<1>9. LocksInv'
    <2>1. ASSUME NEW t \in Sessions, At(t, "uploaded")'
          PROVE  rowOf'[op'[t].file] = t /\ rows'[op'[t].file] = None
        <3>1. t # s /\ op'[t] = op[t] /\ op[t].file \in Files /\ At(t, "uploaded")
            BY <1>5, <2>1 DEF At, Busy, Deleting
        <3>2. rowOf[op[t].file] = t /\ rows[op[t].file] = None
            BY <1>1, <3>1 DEF LocksInv
        <3>3. op[t].file # f
            BY <3>1, <3>2 DEF f
        <3> QED
            BY <1>2, <1>4, <3>1, <3>2, <3>3
    <2>2. ASSUME NEW t \in Sessions, op'[t].at \in Indexing
          PROVE  /\ rowOf'[op'[t].file] = t /\ rows'[op'[t].file] # None
                 /\ rows'[op'[t].file].id = op'[t].id
        <3>1. t # s /\ op'[t] = op[t] /\ op[t].file \in Files /\ op[t].at \in Indexing
            BY <1>5, <2>2 DEF Busy, Deleting
        <3>2. rowOf[op[t].file] = t /\ IsRow(op[t].file, op[t].id)
            BY <1>1, <3>1 DEF LocksInv
        <3>3. op[t].file # f
            BY <3>1, <3>2 DEF f
        <3> QED
            BY <1>2, <1>4, <3>1, <3>2, <3>3 DEF IsRow
    <2>3. ASSUME NEW t \in Sessions, op'[t].at \in {"read", "indexed"}
          PROVE  Chunks[op'[t].file] # <<>>
        BY <1>1, <1>5, <2>3 DEF LocksInv, Busy, Deleting, Indexing
    <2>4. ASSUME NEW t \in Sessions, op'[t].at \in Removed, rows'[op'[t].file] # None,
                 rows'[op'[t].file].id = op'[t].id
          PROVE  /\ rowOf'[op'[t].file] = t
                 /\ op'[t].at = "deleted" /\ rows'[op'[t].file].chunks # <<>> =>
                    chunksOf'[op'[t].file] = t
        <3>1. t # s /\ op'[t] = op[t] /\ op[t].file \in Files /\ op[t].at \in Removed
            BY <1>5, <2>4 DEF Busy, Deleting, Removed
        <3>2. op[t].file # f
            <4> SUFFICES ASSUME op[t].file = f PROVE FALSE
                OBVIOUS
            <4>1. new # None /\ new.id = op[t].id /\ op[t].id = op[s].id
                <5>1. new # None /\ new.id = op[t].id
                    BY <1>4, <2>4, <3>1
                <5> QED
                    BY <5>1
            <4>2. CASE At(s, "uploaded")
                <5>1. op[t].at \in Busy
                    BY <3>1 DEF Busy, Deleting, Removed
                <5> QED
                    BY <1>1, <3>1, <4>1, <4>2, <5>1 DEF IdsInv
            <4>3. CASE IsRow(op[s].file, op[s].id)
                <5>1. IsRow(op[t].file, op[t].id)
                    BY <4>1, <4>3 DEF f
                <5> QED
                    BY <1>1, <3>1, <5>1 DEF LocksInv, f
            <4> QED
                BY <4>1, <4>2, <4>3
        <3>3. IsRow(op[t].file, op[t].id)
            BY <1>4, <2>4, <3>1, <3>2 DEF IsRow
        <3> QED
            BY <1>1, <1>2, <1>4, <3>1, <3>2, <3>3 DEF LocksInv, At
    <2>5. ASSUME NEW g \in Files, chunksOf'[g] # None
          PROVE  rows'[g] # None /\ rows'[g].chunks # <<>>
        BY <1>1, <1>2, <1>4, <2>5 DEF LocksInv, f
    <2> QED
        BY <2>1, <2>2, <2>3, <2>4, <2>5 DEF LocksInv, IsRow, At
<1> QED
    BY <1>6, <1>7, <1>8, <1>9 DEF DocInv

LEMMA Commits ==
    ASSUME DocInv, NEW s \in Sessions, UploadCommit(s) \/ DeleteCommit(s) \/ IndexCommit(s)
    PROVE  DocInv'
<1>1. TypeOK /\ RowsInv /\ IdsInv /\ LocksInv
    BY DEF DocInv
<1>2. /\ rows \in [Files -> Row \union {None}] /\ faults \in 0 .. MaxFaults
      /\ lost \in SUBSET (Files \X Ids)
      /\ op[s].at \in Busy => op[s].file \in Files /\ op[s].id \in Ids
    BY <1>1, OpFacts DEF TypeOK
<1>3. CASE UploadCommit(s)
    <2> DEFINE new == [id |-> op[s].id, status |-> "pending", chunks |-> <<>>]
    <2>1. /\ At(s, "uploaded") /\ op[s].at \in Busy /\ End({s})
          /\ rows' = [rows EXCEPT ![op[s].file] = new]
          /\ tasks' \in SUBSET (tasks \union {<<op[s].file, op[s].id>>})
          /\ UNCHANGED <<stored, inserted, faults, commitFirst>> /\ lost' \in SUBSET (Files \X Ids)
        BY <1>2, <1>3 DEF UploadCommit, At, Busy, Deleting
    <2>2. rowOf[op[s].file] = s /\ rows[op[s].file] = None
        BY <1>1, <2>1 DEF LocksInv
    <2>3. /\ new \in Row /\ new.id = op[s].id /\ new.status = "pending" /\ new.chunks = <<>>
        BY <1>2, <2>1 DEF Row, Statuses
    <2>4. chunksOf[op[s].file] \in {None, s}
        BY <1>1, <1>2, <2>1, <2>2 DEF LocksInv
    <2> HIDE DEF new
    <2> QED
        BY <2>1, <2>2, <2>3, <2>4, Committing
<1>4. CASE DeleteCommit(s)
    <2>1. /\ At(s, "deleted") /\ op[s].at \in Busy /\ End({s})
          /\ op[s].at \in Removed
          /\ UNCHANGED <<stored, tasks, inserted, faults, lost, commitFirst>>
        BY <1>4 DEF DeleteCommit, At, Busy, Deleting, Removed, background
    <2>2. CASE IsRow(op[s].file, op[s].id)
        <3>1. rows' = [rows EXCEPT ![op[s].file] = None]
            BY <1>4, <2>2 DEF DeleteCommit
        <3>2. /\ rowOf[op[s].file] = s
              /\ rows[op[s].file].chunks # <<>> => chunksOf[op[s].file] = s
            BY <1>1, <2>1, <2>2 DEF LocksInv
        <3>3. chunksOf[op[s].file] \in {None, s}
            BY <1>1, <1>2, <2>1, <3>2 DEF LocksInv
        <3> QED
            BY <1>2, <2>1, <3>1, <3>2, <3>3, Committing
    <2>3. CASE ~IsRow(op[s].file, op[s].id)
        <3>1. rows' = rows
            BY <1>4, <2>3 DEF DeleteCommit
        <3> QED
            BY <1>2, <2>1, <3>1, Ending
    <2> QED
        BY <2>2, <2>3
<1>5. CASE IndexCommit(s)
    <2> DEFINE old == rows[op[s].file]
               new == [id |-> old.id, status |-> op[s].at,
                       chunks |-> IF At(s, "indexed") THEN Chunks[op[s].file] ELSE old.chunks]
    <2>1. /\ op[s].at \in {"indexed", "failed"} /\ op[s].at \in Busy /\ op[s].at \in Indexing
          /\ End({s}) /\ UNCHANGED <<stored, tasks, inserted, faults, lost, commitFirst>>
          /\ rows' = [rows EXCEPT ![op[s].file] = new]
        BY <1>5 DEF IndexCommit, At, Busy, Deleting, Indexing, background
    <2>2. rowOf[op[s].file] = s /\ IsRow(op[s].file, op[s].id)
        BY <1>1, <2>1 DEF LocksInv
    <2>3. At(s, "indexed") => Chunks[op[s].file] # <<>>
        BY <1>1 DEF LocksInv, At
    <2>4. old \in Row /\ old.id = op[s].id
        BY <1>2, <2>1, <2>2 DEF IsRow
    <2>5. Chunks[op[s].file] \in Range(Chunks)
        BY <1>2, <2>1 DEF Range, Chunks
    <2> HIDE DEF old
    <2>7. new \in Row
        BY <2>1, <2>4, <2>5 DEF Row, Statuses
    <2>8. /\ new.id = op[s].id /\ new.status = op[s].at
          /\ new.chunks = IF At(s, "indexed") THEN Chunks[op[s].file] ELSE old.chunks
        BY <2>4
    <2>9. chunksOf[op[s].file] \in {None, s} \/ (new # None /\ new.chunks # <<>>)
        BY <1>1, <1>2, <2>1, <2>3, <2>7, <2>8, NoneAssumption DEF LocksInv, old
    <2> HIDE DEF new
    <2>10. new # None =>
                /\ new.id = op[s].id /\ new.status # "parsing"
                /\ new.status = "pending" => new.chunks = <<>>
                /\ new.status = "indexed" =>
                    new.chunks = Chunks[op[s].file] /\ Chunks[op[s].file] # <<>>
                /\ At(s, "uploaded") \/ IsRow(op[s].file, op[s].id)
        BY <2>1, <2>2, <2>3, <2>8 DEF At
    <2>11. /\ rowOf[op[s].file] = s /\ new \in Row \union {None} /\ lost' \in SUBSET (Files \X Ids)
           /\ tasks' \in SUBSET (tasks \union {<<op[s].file, op[s].id>>})
        BY <1>2, <2>1, <2>2, <2>7
    <2> QED
        BY <2>1, <2>9, <2>10, <2>11, Committing
<1> QED
    BY <1>3, <1>4, <1>5

LEMMA DocInvStep == DocInv /\ [Next]_vars => DocInv'
<1> SUFFICES ASSUME DocInv, [Next]_vars PROVE DocInv'
    OBVIOUS
<1>1. faults \in 0 .. MaxFaults /\ MaxFaults \in Nat /\ lost \in SUBSET (Files \X Ids)
    BY DocumentsAssumption DEF DocInv, TypeOK
<1>2. /\ Indexed(Sessions) \subseteq Files \X Ids
      /\ \A s \in Sessions : Indexed({s}) \subseteq Files \X Ids
    <2>1. \A s \in Sessions : op[s].at \in Indexing => op[s].file \in Files /\ op[s].id \in Ids
        BY OpFacts DEF DocInv, Busy
    <2> QED
        BY <2>1 DEF Indexed
<1>3. ASSUME NEW s \in Sessions, NEW f \in Files, UploadExisting(s, f)
      PROVE  DocInv'
    BY <1>3, UploadedAgain
<1>4. ASSUME NEW s \in Sessions, NEW f \in Files,
             \/ UploadPut(s, f) \/ DeleteFind(s, f)
             \/ \E id \in Ids : IndexStart(s, f, id)
      PROVE  DocInv'
    BY <1>4, Beginnings
<1>5. ASSUME NEW s \in Sessions, UploadInsert(s)
      PROVE  DocInv'
    <2>1. op[s].file \in Files
        BY <1>5, OpFacts DEF DocInv, UploadInsert, At
    <2> QED
        BY <1>5, <2>1, Beginnings
<1>6. ASSUME NEW s \in Sessions,
             \/ DeleteChunks(s) \/ DeleteBytes(s) \/ DeleteLoaded(s)
             \/ DeleteRow(s) \/ DeleteCascade(s)
             \/ IndexRead(s) \/ IndexFails(s) \/ IndexWrite(s)
      PROVE  DocInv'
    BY <1>6, Statements
<1>7. ASSUME NEW s \in Sessions, UploadCommit(s) \/ DeleteCommit(s) \/ IndexCommit(s)
      PROVE  DocInv'
    BY <1>7, Commits
<1>8. ASSUME NEW s \in Sessions, DeadlockVictim(s)
      PROVE  DocInv'
    <2>1. /\ End({s}) /\ {s} \in SUBSET Sessions
          /\ UNCHANGED <<rows, stored, inserted, commitFirst>>
          /\ tasks' \in SUBSET tasks /\ lost' \in SUBSET (Files \X Ids)
          /\ faults' \in 0 .. MaxFaults
        BY <1>1, <1>8 DEF DeadlockVictim, background
    <2> QED
        BY <2>1, Ending
<1>9. ASSUME NEW s \in Sessions, Breaks(s)
      PROVE  DocInv'
    <2>1. /\ End({s}) /\ {s} \in SUBSET Sessions
          /\ UNCHANGED <<rows, stored, inserted, commitFirst>>
          /\ tasks' \in SUBSET tasks /\ lost' \in SUBSET (Files \X Ids)
          /\ faults' \in 0 .. MaxFaults
        BY <1>1, <1>9, <1>2 DEF Breaks
    <2> QED
        BY <2>1, Ending
<1>10. CASE Crash
    <2>1. /\ End(Sessions) /\ UNCHANGED <<rows, stored, inserted, commitFirst>>
          /\ tasks' \in SUBSET tasks /\ lost' \in SUBSET (Files \X Ids)
          /\ faults' \in 0 .. MaxFaults
        BY <1>1, <1>10, <1>2 DEF Crash, DocInv, TypeOK
    <2> QED
        BY <2>1, Ending
<1>11. CASE UNCHANGED vars
    BY <1>11 DEF vars, background, DocInv, TypeOK, RowsInv, IdsInv, LocksInv, At, IsRow
<1> QED
    BY <1>3, <1>4, <1>5, <1>6, <1>7, <1>8, <1>9, <1>10, <1>11 DEF Next

LEMMA DocInvInit == Init => DocInv
<1> SUFFICES ASSUME Init PROVE DocInv
    OBVIOUS
<1>1. \A s \in Sessions : op[s] = Idle /\ op[s].at \notin Busy
    BY IdleFacts DEF Init
<1>2. TypeOK
    BY DocumentsAssumption DEF Init, TypeOK, Ops
<1>3. RowsInv /\ IdsInv
    BY <1>1 DEF Init, RowsInv, IdsInv, At, Busy, Deleting
<1>4. LocksInv
    BY <1>1 DEF Init, LocksInv, At, Busy, Deleting, Indexing, Removed
<1> QED
    BY <1>2, <1>3, <1>4 DEF DocInv

THEOREM DocInvAlways == Spec => []DocInv
    BY DocInvInit, DocInvStep, PTL DEF Spec

-----------------------------------------------------------------------------
(* What the invariant is for. *)

\* Types: ids stay below the bound on rows, and nobody else sees a row that is
\* being parsed (document_service.py index_document, its one transaction).
THEOREM DocumentsTyping == Spec => []TypeOK
    BY DocInvAlways, PTL DEF DocInv

\* If the cutting keeps the texts, which is what Chunking's operators compute
\* and TLC checks, then a row that says indexed is searchable from end to end,
\* whatever deletions and indexings ran at the same time, failed, deadlocked or
\* were cut off (document_service.py index_document and delete_document).
THEOREM IndexedTheorem ==
    ASSUME \A f \in Files : Chunks[f] # <<>> => HoldsTheText(Chunks[f], Text[f], MaxTokens)
    PROVE  Spec => []IndexedIsSearchable
<1>1. DocInv => IndexedIsSearchable
    BY DEF DocInv, RowsInv, IndexedIsSearchable
<1> QED
    BY <1>1, DocInvAlways, PTL

-----------------------------------------------------------------------------
(* A document left pending. *)

Works(s, f) == op[s].at \in Indexing /\ op[s].file = f /\ op[s].id = rows[f].id

OnItsWay(f) ==
    \/ <<f, rows[f].id>> \in tasks \union lost
    \/ \E s \in Sessions : Works(s, f)

LostToFaults == lost # {} => faults > 0 \/ ~commitFirst

\* Only a crash, a failed statement or a commit that comes late loses a task.
LEMMA LossStep ==
    ASSUME DocInv, LostToFaults, [Next]_vars
    PROVE  LostToFaults'
<1>1. faults \in Nat
    BY DocumentsAssumption DEF DocInv, TypeOK
<1>2. ASSUME NEW s \in Sessions, NEW f \in Files, UploadExisting(s, f)
      PROVE  lost' \subseteq lost /\ faults' = faults /\ commitFirst' = commitFirst
    BY <1>2 DEF UploadExisting
<1>3. ASSUME NEW s \in Sessions, UploadCommit(s)
      PROVE  (lost' = lost \/ ~commitFirst) /\ faults' = faults /\ commitFirst' = commitFirst
    BY <1>3 DEF UploadCommit
<1>4. ASSUME Crash \/ \E s \in Sessions : Breaks(s)
      PROVE  faults' > 0
    <2>1. faults' = faults + 1
        BY <1>4 DEF Crash, Breaks
    <2> QED
        BY <1>1, <2>1
<1>5. ASSUME UNCHANGED <<lost, faults, commitFirst>>
      PROVE  LostToFaults'
    BY <1>5 DEF LostToFaults
<1>6. ASSUME NEW s \in Sessions,
             \/ \E f \in Files : \/ UploadPut(s, f) \/ DeleteFind(s, f)
                                \/ \E id \in Ids : IndexStart(s, f, id)
             \/ UploadInsert(s) \/ DeleteChunks(s) \/ DeleteBytes(s) \/ DeleteLoaded(s)
             \/ DeleteRow(s) \/ DeleteCascade(s) \/ DeleteCommit(s)
             \/ IndexRead(s) \/ IndexFails(s) \/ IndexWrite(s) \/ IndexCommit(s)
             \/ DeadlockVictim(s)
      PROVE  UNCHANGED <<lost, faults, commitFirst>>
    BY <1>6 DEF UploadPut, DeleteFind, IndexStart, UploadInsert, DeleteChunks, DeleteBytes,
        DeleteLoaded, DeleteRow, DeleteCascade, DeleteCommit, IndexRead, IndexFails, IndexWrite,
        IndexCommit, DeadlockVictim, background
<1>7. CASE UNCHANGED vars
    BY <1>5, <1>7 DEF vars, background
<1> QED
    BY <1>2, <1>3, <1>4, <1>5, <1>6, <1>7 DEF Next, LostToFaults

LEMMA PendingStep ==
    ASSUME DocInv, PendingIsOnItsWay, [Next]_vars
    PROVE  PendingIsOnItsWay'
<1>0. LostToFaults'
    BY LossStep DEF PendingIsOnItsWay, LostToFaults
<1> SUFFICES ASSUME NEW f \in Files, rows'[f] # None, rows'[f].status = "pending"
             PROVE  OnItsWay(f)'
    BY <1>0 DEF PendingIsOnItsWay, OnItsWay, Works, LostToFaults
<1>1. TypeOK /\ RowsInv /\ IdsInv /\ LocksInv /\ None \notin Sessions
    BY DocumentsAssumption DEF DocInv, TypeOK
<1>2. \A s \in Sessions : op[s].at \in Busy => op[s].file \in Files
    BY <1>1, OpFacts
<1>3. ASSUME rows[f] # None, rows[f].status = "pending" PROVE OnItsWay(f)
    BY <1>3 DEF PendingIsOnItsWay, OnItsWay, Works
\* Who works on the row goes on, and the task stays.
<1>4. ASSUME rows'[f] = rows[f],
             <<f, rows[f].id>> \in tasks \union lost => OnItsWay(f)',
             \A s \in Sessions : Works(s, f) => Works(s, f)'
      PROVE  OnItsWay(f)'
    BY <1>3, <1>4 DEF OnItsWay
<1>5. ASSUME NEW s \in Sessions, ~Works(s, f), End({s})
      PROVE  \A u \in Sessions : Works(u, f) => op'[u] = op[u]
    BY <1>1, <1>5, EndFacts
<1>6. ASSUME NEW s \in Sessions, NEW g \in Files, UploadExisting(s, g)
      PROVE  OnItsWay(f)'
    <2>1. tasks \union lost \subseteq tasks' \union lost' /\ UNCHANGED <<rows, op>>
        BY <1>6 DEF UploadExisting
    <2> QED
        BY <1>4, <2>1 DEF OnItsWay, Works
<1>7. ASSUME NEW s \in Sessions, NEW g \in Files, UploadPut(s, g) \/ DeleteFind(s, g)
      PROVE  OnItsWay(f)'
    <2>1. /\ op[s].at = "idle" /\ UNCHANGED <<rows, tasks, lost>>
          /\ \A u \in Sessions \ {s} : op'[u] = op[u]
        BY <1>1, <1>7 DEF UploadPut, DeleteFind, At, Do, TypeOK, background
    <2>2. \A u \in Sessions : Works(u, f) => op'[u] = op[u]
        BY <2>1 DEF Works, Indexing
    <2> QED
        BY <1>4, <2>1, <2>2 DEF OnItsWay, Works
<1>8. ASSUME NEW s \in Sessions, NEW g \in Files, NEW id \in Ids, IndexStart(s, g, id)
      PROVE  OnItsWay(f)'
    <2>1. /\ op[s].at = "idle" /\ UNCHANGED <<rows, lost>> /\ tasks' = tasks \ {<<g, id>>}
          /\ \A u \in Sessions \ {s} : op'[u] = op[u]
        BY <1>1, <1>8 DEF IndexStart, At, Do, TypeOK
    <2>2. \A u \in Sessions : Works(u, f) => op'[u] = op[u]
        BY <2>1 DEF Works, Indexing
    <2>3. ASSUME <<f, rows[f].id>> \in tasks \union lost PROVE OnItsWay(f)'
        <3>1. CASE <<f, rows[f].id>> = <<g, id>>
            <4>1. IsRow(g, id) /\ g = f /\ id = rows[f].id
                BY <2>1, <3>1 DEF IsRow
            <4>2. op'[s] = [at |-> "parsing", file |-> f, id |-> id]
                BY <1>1, <1>8, <4>1 DEF IndexStart, Do, TypeOK
            <4> QED
                BY <2>1, <4>1, <4>2 DEF OnItsWay, Works, Indexing
        <3>2. CASE <<f, rows[f].id>> # <<g, id>>
            BY <2>1, <2>3, <3>2 DEF OnItsWay
        <3> QED
            BY <3>1, <3>2
    <2> QED
        BY <1>4, <2>1, <2>2, <2>3 DEF Works
<1>9. ASSUME NEW s \in Sessions, UploadInsert(s)
      PROVE  OnItsWay(f)'
    <2>1. /\ op[s].at = "put" /\ UNCHANGED <<rows, tasks, lost>>
          /\ \A u \in Sessions \ {s} : op'[u] = op[u]
        BY <1>1, <1>9 DEF UploadInsert, At, Do, End, TypeOK, background
    <2>2. \A u \in Sessions : Works(u, f) => op'[u] = op[u]
        BY <2>1 DEF Works, Indexing
    <2> QED
        BY <1>4, <2>1, <2>2 DEF OnItsWay, Works
<1>10. ASSUME NEW s \in Sessions,
              \/ DeleteChunks(s) \/ DeleteBytes(s) \/ DeleteLoaded(s)
              \/ DeleteRow(s) \/ DeleteCascade(s)
       PROVE  OnItsWay(f)'
    <2>1. /\ op[s].at \notin Indexing /\ UNCHANGED <<rows, tasks, lost>>
          /\ \A u \in Sessions \ {s} : op'[u] = op[u]
        BY <1>1, <1>10 DEF DeleteChunks, DeleteBytes, DeleteLoaded, DeleteRow, DeleteCascade,
            At, Move, TypeOK, Indexing, background
    <2>2. \A u \in Sessions : Works(u, f) => op'[u] = op[u]
        BY <2>1 DEF Works
    <2> QED
        BY <1>4, <2>1, <2>2 DEF OnItsWay, Works
<1>11. ASSUME NEW s \in Sessions, IndexRead(s) \/ IndexFails(s) \/ IndexWrite(s)
       PROVE  OnItsWay(f)'
    <2>1. PICK where \in Indexing : Move(s, where)
        BY <1>11 DEF IndexRead, IndexFails, IndexWrite, Indexing
    <2>2. /\ op[s].at \in Busy /\ where \in Busy /\ UNCHANGED <<rows, tasks, lost>>
        BY <1>11, <2>1 DEF IndexRead, IndexFails, IndexWrite, At, Busy, Deleting, Indexing,
            background
    <2>3. /\ op'[s].at = where /\ op'[s].file = op[s].file /\ op'[s].id = op[s].id
          /\ \A u \in Sessions \ {s} : op'[u] = op[u]
        BY <1>1, <2>1, <2>2, MoveFacts
    <2>4. \A u \in Sessions : Works(u, f) => Works(u, f)'
        BY <2>1, <2>2, <2>3 DEF Works
    <2> QED
        BY <1>4, <2>2, <2>4 DEF OnItsWay
<1>12. ASSUME NEW s \in Sessions, UploadCommit(s)
       PROVE  OnItsWay(f)'
    <2>1. /\ op[s].at = "uploaded" /\ op[s].file \in Files /\ End({s})
          /\ rows' = [rows EXCEPT ![op[s].file] =
                        [id |-> op[s].id, status |-> "pending", chunks |-> <<>>]]
          /\ tasks' \union lost' = tasks \union lost \union {<<op[s].file, op[s].id>>}
        BY <1>2, <1>12 DEF UploadCommit, At, Busy, Deleting
    <2>2. CASE f = op[s].file
        BY <1>1, <2>1, <2>2 DEF OnItsWay, TypeOK
    <2>3. CASE f # op[s].file
        <3>1. rows'[f] = rows[f] /\ tasks \union lost \subseteq tasks' \union lost'
            BY <1>1, <2>1, <2>3 DEF TypeOK
        <3>2. \A u \in Sessions : Works(u, f) => op'[u] = op[u]
            BY <1>5, <2>1 DEF Works, Indexing
        <3> QED
            BY <1>4, <2>1, <3>1, <3>2 DEF OnItsWay, Works
    <2> QED
        BY <2>2, <2>3
<1>13. ASSUME NEW s \in Sessions, DeleteCommit(s)
       PROVE  OnItsWay(f)'
    <2>1. /\ op[s].at = "deleted" /\ End({s}) /\ UNCHANGED <<tasks, lost>>
          /\ rows'[f] = rows[f]
        BY <1>1, <1>13 DEF DeleteCommit, At, TypeOK, background
    <2>2. \A u \in Sessions : Works(u, f) => op'[u] = op[u]
        BY <1>5, <2>1 DEF Works, Indexing
    <2> QED
        BY <1>4, <2>1, <2>2 DEF OnItsWay, Works
<1>14. ASSUME NEW s \in Sessions, IndexCommit(s)
       PROVE  OnItsWay(f)'
    <2>1. /\ op[s].at \in {"indexed", "failed"} /\ op[s].file \in Files /\ End({s})
          /\ UNCHANGED <<tasks, lost>>
        BY <1>2, <1>14 DEF IndexCommit, At, Busy, Deleting, Indexing, background
    <2>2. f # op[s].file /\ rows'[f] = rows[f]
        BY <1>1, <1>14, <2>1 DEF IndexCommit, TypeOK
    <2>3. \A u \in Sessions : Works(u, f) => op'[u] = op[u]
        BY <1>5, <2>1, <2>2 DEF Works
    <2> QED
        BY <1>4, <2>1, <2>2, <2>3 DEF OnItsWay, Works
<1>15. ASSUME NEW s \in Sessions, DeadlockVictim(s)
       PROVE  OnItsWay(f)'
    <2>1. End({s}) /\ UNCHANGED <<rows, tasks, lost>>
        BY <1>15 DEF DeadlockVictim, background
    <2>2. ~Works(s, f)
        <3> SUFFICES ASSUME Works(s, f) PROVE FALSE
            OBVIOUS
        <3>1. PICK t \in Sessions : chunksOf[f] = t
            BY <1>15 DEF DeadlockVictim, Works, At, Indexing
        <3> QED
            BY <1>1, <2>1, <3>1 DEF LocksInv, RowsInv
    <2>3. \A u \in Sessions : Works(u, f) => op'[u] = op[u]
        BY <1>5, <2>1, <2>2
    <2> QED
        BY <1>4, <2>1, <2>3 DEF OnItsWay, Works
\* What is cut off is lost.
<1>16. ASSUME NEW ss \in SUBSET Sessions, End(ss), rows' = rows,
              Indexed(ss) \subseteq lost', tasks \union lost \subseteq tasks' \union lost'
       PROVE  OnItsWay(f)'
    <2>1. ASSUME NEW s \in Sessions, Works(s, f) PROVE OnItsWay(f)'
        <3>1. CASE s \in ss
            <4>1. <<f, rows[f].id>> \in Indexed(ss)
                BY <2>1, <3>1 DEF Works, Indexed
            <4> QED
                BY <1>16, <4>1 DEF OnItsWay
        <3>2. CASE s \notin ss
            <4>1. op'[s] = op[s]
                BY <1>1, <1>16, <3>2, EndFacts
            <4> QED
                BY <1>16, <2>1, <4>1 DEF OnItsWay, Works
        <3> QED
            BY <3>1, <3>2
    <2>2. ASSUME <<f, rows[f].id>> \in tasks \union lost PROVE OnItsWay(f)'
        BY <1>16, <2>2 DEF OnItsWay
    <2>3. OnItsWay(f)
        BY <1>3, <1>16
    <2> QED
        BY <2>1, <2>2, <2>3 DEF OnItsWay
<1>17. ASSUME NEW s \in Sessions, Breaks(s)
       PROVE  OnItsWay(f)'
    <2>1. /\ {s} \in SUBSET Sessions /\ End({s}) /\ rows' = rows
          /\ Indexed({s}) \subseteq lost' /\ tasks \union lost \subseteq tasks' \union lost'
        BY <1>17 DEF Breaks
    <2> QED
        BY <1>16, <2>1
<1>18. CASE Crash
    <2>1. /\ End(Sessions) /\ rows' = rows
          /\ Indexed(Sessions) \subseteq lost' /\ tasks \union lost \subseteq tasks' \union lost'
        BY <1>18 DEF Crash
    <2> QED
        BY <1>16, <2>1
<1>19. CASE UNCHANGED vars
    BY <1>4, <1>19 DEF vars, background, OnItsWay, Works
<1> QED
    BY <1>6, <1>7, <1>8, <1>9, <1>10, <1>11, <1>12, <1>13, <1>14, <1>15, <1>17, <1>18, <1>19
        DEF Next

\* A document left pending is on its way, or lost its indexing to one of the
\* three: a crash, a failed statement, a commit after the task; and where a
\* request commits first and nothing fails none is lost, not by an upload of it
\* again while its task waits, not by a deletion that is undone, not by a
\* deadlock (api/v1/routes/documents.py upload_document, document_service.py).
THEOREM PendingTheorem == Spec => []PendingIsOnItsWay
<1>1. Init => PendingIsOnItsWay
    BY DEF Init, PendingIsOnItsWay
<1>2. DocInv /\ PendingIsOnItsWay /\ [Next]_vars => PendingIsOnItsWay'
    BY PendingStep
<1> QED
    BY <1>1, <1>2, DocInvAlways, PTL DEF Spec
==============================================================================
