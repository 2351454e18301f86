-------------------------- MODULE IngestionProofs --------------------------
(***************************************************************************)
(* Theorems about Ingestion, for every set of postings, row ids and        *)
(* sessions: what survives any interleaving of sessions, and what holds    *)
(* until some probe for duplicates was blind.                              *)
(***************************************************************************)
EXTENDS Ingestion, FiniteSetTheorems, TLAPS

\* A session's probes that find nothing, and those that find the posting.
ProbeStep(s) == (\E p \in Postings : ProbeUrl(s, p)) \/ ProbeHash(s) \/ ProbeTitle(s)
MergeStep(s) == (\E p \in Postings : MergeByUrl(s, p)) \/ MergeByHash(s)

\* Collide and Rollback both undo the session's transaction.
LEMMA SessionCases ==
    ASSUME NEW s \in Sessions, SessionStep(s)
    PROVE  MergeStep(s) \/ ProbeStep(s) \/ Insert(s) \/ Commit(s) \/ Undo(s)
    BY DEF SessionStep, MergeStep, ProbeStep, Collide, Rollback

\* A posting that is being probed for.
LEMMA AwaitsFacts ==
    ASSUME TypeOK, NEW s \in Sessions, NEW probe, Awaits(s, probe)
    PROVE  /\ pending[s] \in Inserts /\ pending[s] # Nothing
           /\ pending[s].posting \in Postings /\ pending[s].next = probe
    BY DEF TypeOK, Awaits, Inserts

\* What the title probe found for the posting: a row it can see, or nothing.
LEMMA ProbeTitleFacts ==
    ASSUME TypeOK, NEW s \in Sessions, ProbeTitle(s)
    PROVE  \E o \in Ids \union {Nothing} :
               /\ pending' = [pending EXCEPT ![s] = Probing(pending[s].posting, "flush", o)]
               /\ o # Nothing => OwnedBy(o, {s, Shared})
<1> DEFINE p == pending[s].posting
<1>1. PICK fetched \in Fetches(FromOrganization(s, p)) :
         \E o \in IF ByTitle(fetched, p) = {} THEN {Nothing} ELSE ByTitle(fetched, p) :
             pending' = [pending EXCEPT ![s] = Probing(p, "flush", o)]
    BY DEF ProbeTitle
<1>2. fetched \subseteq FromOrganization(s, p)
    BY DEF Fetches
<1>3. \A o \in ByTitle(fetched, p) : o \in Ids /\ OwnedBy(o, {s, Shared})
    BY <1>2 DEF ByTitle, FromOrganization, Open, Visible
<1>4. PICK o \in IF ByTitle(fetched, p) = {} THEN {Nothing} ELSE ByTitle(fetched, p) :
         pending' = [pending EXCEPT ![s] = Probing(p, "flush", o)]
    BY <1>1
<1>5. CASE ByTitle(fetched, p) = {}
    BY <1>4, <1>5
<1>6. CASE ByTitle(fetched, p) # {}
    <2>1. o \in ByTitle(fetched, p)
        BY <1>4, <1>6
    <2> QED
        BY <1>3, <1>4, <2>1
<1> QED
    BY <1>5, <1>6

\* A probe that finds nothing moves the posting on, and changes no row.
LEMMA ProbeFacts ==
    ASSUME TypeOK, NEW s \in Sessions, ProbeStep(s)
    PROVE  /\ UNCHANGED <<rows, taken, seen, flagged>>
           /\ blind' \in BOOLEAN /\ (~blind' => ~blind)
           /\ \E entry \in Inserts :
                  /\ pending' = [pending EXCEPT ![s] = entry]
                  /\ entry.original # Nothing => OwnedBy(entry.original, {s, Shared})
<1>1. ASSUME NEW p \in Postings, ProbeUrl(s, p)
      PROVE  \E entry \in Inserts :
                  /\ pending' = [pending EXCEPT ![s] = entry]
                  /\ entry.original # Nothing => OwnedBy(entry.original, {s, Shared})
    <2>1. Probing(p, "hash", Nothing) \in Inserts /\ Probing(p, "hash", Nothing).original = Nothing
        BY DEF Probing, Inserts
    <2> QED
        BY <1>1, <2>1 DEF ProbeUrl
<1>2. CASE ProbeHash(s)
    <2>1. pending[s].posting \in Postings
        BY <1>2, AwaitsFacts DEF ProbeHash
    <2> DEFINE entry == Probing(pending[s].posting, "title", Nothing)
    <2>2. entry \in Inserts /\ entry.original = Nothing
        BY <2>1 DEF Probing, Inserts
    <2> HIDE DEF entry
    <2>3. pending' = [pending EXCEPT ![s] = entry]
        BY <1>2 DEF ProbeHash, entry
    <2> QED
        BY <1>2, <2>2, <2>3 DEF ProbeHash, TypeOK
<1>3. CASE ProbeTitle(s)
    <2>1. PICK o \in Ids \union {Nothing} :
              /\ pending' = [pending EXCEPT ![s] = Probing(pending[s].posting, "flush", o)]
              /\ o # Nothing => OwnedBy(o, {s, Shared})
        BY <1>3, ProbeTitleFacts
    <2>2. pending[s].posting \in Postings
        BY <1>3, AwaitsFacts DEF ProbeTitle
    <2> DEFINE entry == Probing(pending[s].posting, "flush", o)
    <2>3. entry \in Inserts /\ entry.original = o
        BY <2>1, <2>2 DEF Probing, Inserts
    <2> HIDE DEF entry
    <2>4. pending' = [pending EXCEPT ![s] = entry]
        BY <2>1 DEF entry
    <2>5. blind' \in BOOLEAN /\ (~blind' => ~blind)
        BY <1>3 DEF ProbeTitle, TypeOK
    <2> QED
        BY <1>3, <2>1, <2>3, <2>4, <2>5 DEF ProbeTitle
<1> QED
    BY <1>1, <1>2, <1>3 DEF ProbeStep, ProbeUrl, TypeOK

\* A probe that finds the posting ends its ingestion; a row it can see has the
\* posting's URL or text.
LEMMA MergeFacts ==
    ASSUME TypeOK, NEW s \in Sessions, MergeStep(s)
    PROVE  /\ UNCHANGED <<rows, seen, blind, flagged>>
           /\ pending' = [pending EXCEPT ![s] = Nothing]
           /\ \E p \in Postings :
                  /\ taken' = [taken EXCEPT ![s] = @ \union {p}]
                  /\ \E i \in Ids : /\ OwnedBy(i, {s, Shared})
                                    /\ rows[i].url = p.url \/ rows[i].text = p.text
<1>1. PICK p \in Postings : Merged(s, p) /\ (ByUrl(s, p) # {} \/ ByHash(s, p) # {})
    <2>1. CASE MergeByHash(s)
        BY <2>1, AwaitsFacts DEF MergeByHash
    <2> QED
        BY <2>1 DEF MergeStep, MergeByUrl
<1> QED
    BY <1>1 DEF Merged, ByUrl, ByHash, Open, Visible

\* The row a flush adds, and whether it is flagged.
LEMMA InsertFacts ==
    ASSUME TypeOK, NEW s \in Sessions, Insert(s)
    PROVE  /\ pending[s] \in Inserts /\ pending[s] # Nothing
           /\ pending[s].next = "flush" /\ pending[s].posting \in Postings
           /\ \E i \in Ids, row \in Rows :
               /\ rows[i] = NoRow
               /\ rows' = [rows EXCEPT ![i] = row]
               /\ row.url = pending[s].posting.url
               /\ row.text = pending[s].posting.text
               /\ row.domain = pending[s].posting.domain
               /\ row.original = pending[s].original
               /\ row.owner = s
               /\ flagged \subseteq flagged' /\ flagged' \subseteq flagged \union {i}
               /\ row.status = "duplicate" => i \in flagged'
               /\ row.status # "duplicate" => row.original = Nothing
<1>1. /\ pending[s] \in Inserts /\ pending[s] # Nothing
      /\ pending[s].next = "flush" /\ pending[s].posting \in Postings
    BY AwaitsFacts DEF Insert
<1>2. pending[s].posting \in [url : Urls, text : Texts, domain : Domains \union {NoOrganization}]
    BY <1>1, IngestionAssumption
<1>3. PICK i \in Ids, status \in IF pending[s].original = Nothing
                                 THEN {"active", "closed"} ELSE {"duplicate"} :
         /\ rows[i] = NoRow
         /\ rows' = [rows EXCEPT ![i] =
                        [url |-> pending[s].posting.url, text |-> pending[s].posting.text,
                         domain |-> pending[s].posting.domain, status |-> status,
                         entered |-> status, original |-> pending[s].original,
                         owner |-> s]]
         /\ flagged' = IF status = "duplicate" THEN flagged \union {i} ELSE flagged
    BY DEF Insert
<1> DEFINE row == [url |-> pending[s].posting.url, text |-> pending[s].posting.text,
                   domain |-> pending[s].posting.domain, status |-> status,
                   entered |-> status, original |-> pending[s].original, owner |-> s]
<1>4. status \in RowStatuses /\ (status # "duplicate" => pending[s].original = Nothing)
    BY <1>3 DEF RowStatuses
<1>5. row \in Rows
    BY <1>1, <1>2, <1>4 DEF Rows, Inserts
<1>6. /\ row.url = pending[s].posting.url /\ row.text = pending[s].posting.text
      /\ row.domain = pending[s].posting.domain
      /\ row.original = pending[s].original /\ row.owner = s
      /\ row.status = status
    OBVIOUS
<1>7. rows[i] = NoRow /\ rows' = [rows EXCEPT ![i] = row]
    BY <1>3
<1> HIDE DEF row
<1> QED
    BY <1>1, <1>3, <1>4, <1>5, <1>6, <1>7

-----------------------------------------------------------------------------
(* Types.                                                                  *)

\* Rows, prepared inserts and the sets of postings are well typed.
THEOREM IngestionTyping == Spec => []TypeOK
<1>1. Init => TypeOK
    BY DEF Init, TypeOK
<1>2. TypeOK /\ [Next]_vars => TypeOK'
    <2> SUFFICES ASSUME TypeOK, [Next]_vars PROVE TypeOK'
        OBVIOUS
    <2>1. ASSUME NEW s \in Sessions, MergeStep(s) PROVE TypeOK'
        <3>1. PICK p \in Postings : taken' = [taken EXCEPT ![s] = @ \union {p}]
            BY <2>1, MergeFacts
        <3>2. /\ UNCHANGED <<rows, seen, blind, flagged>>
              /\ pending' = [pending EXCEPT ![s] = Nothing]
            BY <2>1, MergeFacts
        <3> QED
            BY <3>1, <3>2 DEF TypeOK
    <2>2. ASSUME NEW s \in Sessions, ProbeStep(s) PROVE TypeOK'
        BY <2>2, ProbeFacts DEF TypeOK
    <2>3. ASSUME NEW s \in Sessions, Insert(s) PROVE TypeOK'
        <3>1. rows' \in [Ids -> Rows \union {NoRow}]
            BY <2>3, InsertFacts DEF TypeOK
        <3>2. pending[s].posting \in Postings /\ flagged' \subseteq Ids
            BY <2>3, InsertFacts DEF TypeOK
        <3> QED
            BY <2>3, <3>1, <3>2 DEF TypeOK, Insert
    <2>4. ASSUME NEW s \in Sessions, Commit(s) PROVE TypeOK'
        <3>1. ASSUME NEW i \in Ids, OwnedBy(i, {s})
              PROVE  [rows[i] EXCEPT !.owner = Shared] \in Rows
            BY <3>1 DEF TypeOK, OwnedBy, Rows
        <3>2. rows' \in [Ids -> Rows \union {NoRow}]
            BY <2>4, <3>1 DEF TypeOK, Commit
        <3> QED
            BY <2>4, <3>2 DEF TypeOK, Commit
    <2>5. ASSUME NEW s \in Sessions, Undo(s) PROVE TypeOK'
        BY <2>5 DEF TypeOK, Undo
    <2>6. ASSUME NEW i \in Ids, ChangeStatus(i) PROVE TypeOK'
        <3>1. rows[i] \in Rows
            BY <2>6 DEF ChangeStatus, OwnedBy, TypeOK
        <3>2. PICK status \in {"duplicate", "closed", rows[i].entered} :
                  /\ rows' = [rows EXCEPT ![i].status = status]
                  /\ flagged' = IF status = "duplicate" THEN flagged \union {i} ELSE flagged
            BY <2>6 DEF ChangeStatus
        <3>3. [rows[i] EXCEPT !.status = status] \in Rows
            BY <3>1, <3>2 DEF Rows, RowStatuses
        <3> QED
            BY <2>6, <3>2, <3>3 DEF TypeOK, ChangeStatus
    <2>7. CASE UNCHANGED vars
        BY <2>7 DEF TypeOK, vars
    <2> QED
        BY <2>1, <2>2, <2>3, <2>4, <2>5, <2>6, <2>7, SessionCases DEF Next
<1> QED
    BY <1>1, <1>2, PTL DEF Spec

-----------------------------------------------------------------------------
(* Links and representation, whatever the sessions do.                     *)

\* What a commit and a change of status keep of a row.
Keeps(i) ==
    /\ rows'[i] # NoRow
    /\ rows'[i].url = rows[i].url
    /\ rows'[i].text = rows[i].text
    /\ rows'[i].domain = rows[i].domain
    /\ rows'[i].original = rows[i].original

\* What the commit of an ingestion does to the rows: the rows of the session
\* become visible and no link of a row changes.
LEMMA CommitFacts ==
    ASSUME TypeOK, NEW s \in Sessions, Commit(s), NEW i \in Ids
    PROVE  /\ rows[i] = NoRow => rows'[i] = NoRow
           /\ rows[i] # NoRow =>
                /\ Keeps(i)
                /\ rows'[i].status = rows[i].status
                /\ rows'[i].owner = IF rows[i].owner = s THEN Shared ELSE rows[i].owner
<1>1. rows'[i] = IF OwnedBy(i, {s}) THEN [rows[i] EXCEPT !.owner = Shared] ELSE rows[i]
    BY DEF Commit
<1>2. CASE OwnedBy(i, {s})
    <2>1. rows[i] \in Rows /\ rows[i] # NoRow /\ rows[i].owner = s
        BY <1>2 DEF OwnedBy, TypeOK
    <2>2. [rows[i] EXCEPT !.owner = Shared] \in Rows
        BY <2>1 DEF Rows
    <2> QED
        BY <1>1, <1>2, <2>1, <2>2, IngestionAssumption DEF Rows, Keeps
<1>3. CASE ~OwnedBy(i, {s})
    BY <1>1, <1>3 DEF OwnedBy, Keeps
<1> QED
    BY <1>2, <1>3

\* What a change of status does: links, owners and texts stay, and a row that
\* becomes a duplicate is flagged for good.
LEMMA ChangeStatusFacts ==
    ASSUME TypeOK, NEW j \in Ids, ChangeStatus(j), NEW i \in Ids
    PROVE  /\ rows[i] = NoRow => rows'[i] = NoRow
           /\ rows[i] # NoRow =>
                /\ Keeps(i)
                /\ rows'[i].owner = rows[i].owner
                /\ rows'[i].status = "duplicate" =>
                       i \in flagged' \/ rows[i].status = "duplicate"
           /\ flagged \subseteq flagged'
<1>1. PICK status \in {"duplicate", "closed", rows[j].entered} :
          /\ rows' = [rows EXCEPT ![j].status = status]
          /\ flagged' = IF status = "duplicate" THEN flagged \union {j} ELSE flagged
    BY DEF ChangeStatus
<1>2. CASE i = j
    <2>1. rows[i] \in Rows /\ rows[i] # NoRow
        BY <1>2 DEF ChangeStatus, OwnedBy, TypeOK
    <2>2. rows'[i] = [rows[i] EXCEPT !.status = status]
        BY <1>1, <1>2 DEF TypeOK
    <2>3. rows'[i] \in Rows
        BY <1>1, <1>2, <2>1, <2>2 DEF Rows, RowStatuses
    <2>4. rows'[i].status = status
        BY <2>1, <2>2 DEF Rows
    <2> QED
        BY <1>1, <1>2, <2>1, <2>2, <2>3, <2>4, IngestionAssumption DEF Rows, Keeps
<1>3. CASE i # j
    BY <1>1, <1>3 DEF TypeOK, Keeps
<1> QED
    BY <1>2, <1>3

\* Links of stored rows stay within what their transaction can see, and so do
\* the links of rows about to be stored.
Linked(i) ==
    rows[i] # NoRow /\ rows[i].original # Nothing =>
        /\ rows[i].original # i
        /\ rows[i].original \in Ids
        /\ OwnedBy(rows[i].original, {rows[i].owner, Shared})

LinkReady(s) ==
    pending[s] # Nothing /\ pending[s].original # Nothing =>
        /\ pending[s].original \in Ids
        /\ OwnedBy(pending[s].original, {s, Shared})

LinksInv == (\A i \in Ids : Linked(i)) /\ (\A s \in Sessions : LinkReady(s))

\* What a session has ingested is represented among the rows it sees.
PostingsInv ==
    /\ EveryPostingIsRepresented
    /\ \A s \in Sessions : \A p \in taken[s] : Represented(p, {s, Shared})

\* A row that is still there, and as visible as before, represents what it did.
LEMMA StaysRepresented ==
    ASSUME NEW p, NEW before, NEW after, Represented(p, before),
           \A i \in Ids : OwnedBy(i, before) =>
               Keeps(i) /\ rows'[i].owner \in after
    PROVE  Represented(p, after)'
<1>1. PICK i \in Ids : OwnedBy(i, before) /\ (rows[i].url = p.url \/ rows[i].text = p.text)
    BY DEF Represented
<1>2. rows'[i] # NoRow /\ rows'[i].owner \in after
    BY <1>1 DEF Keeps
<1>3. rows'[i].url = p.url \/ rows'[i].text = p.text
    BY <1>1 DEF Keeps
<1> QED
    BY <1>2, <1>3 DEF Represented, OwnedBy

\* No step of ingestion leaves a duplicate without its original.
LEMMA LinksStep == TypeOK /\ LinksInv /\ [Next]_vars => LinksInv'
<1> SUFFICES ASSUME TypeOK, LinksInv, [Next]_vars PROVE LinksInv'
    OBVIOUS
<1>1. ASSUME NEW s \in Sessions, MergeStep(s) PROVE LinksInv'
    <2>1. UNCHANGED rows /\ pending' = [pending EXCEPT ![s] = Nothing]
        BY <1>1, MergeFacts
    <2> QED
        BY <2>1 DEF LinksInv, Linked, LinkReady, OwnedBy, TypeOK
<1>2. ASSUME NEW s \in Sessions, ProbeStep(s) PROVE LinksInv'
    <2>1. PICK entry \in Inserts :
              /\ pending' = [pending EXCEPT ![s] = entry]
              /\ entry.original # Nothing => OwnedBy(entry.original, {s, Shared})
        BY <1>2, ProbeFacts
    <2>2. UNCHANGED rows /\ entry.original \in Ids \union {Nothing}
        BY <1>2, ProbeFacts DEF Inserts
    <2> QED
        BY <2>1, <2>2 DEF LinksInv, Linked, LinkReady, OwnedBy, TypeOK
<1>3. ASSUME NEW s \in Sessions, Insert(s) PROVE LinksInv'
    <2>1. PICK i \in Ids, row \in Rows :
              /\ rows[i] = NoRow
              /\ rows' = [rows EXCEPT ![i] = row]
              /\ row.original = pending[s].original
              /\ row.owner = s
        BY <1>3, InsertFacts
    <2>2. pending[s] # Nothing /\ pending' = [pending EXCEPT ![s] = Nothing]
        BY <1>3 DEF Insert, Awaits
    <2>3. \A j \in Ids : \A owners : OwnedBy(j, owners) => j # i /\ OwnedBy(j, owners)'
        BY <2>1 DEF OwnedBy, TypeOK
    <2>4. \A j \in Ids : j # i => rows'[j] = rows[j]
        BY <2>1
    <2>5. rows'[i] = row
        BY <2>1 DEF TypeOK
    <2>6. \A j \in Ids : Linked(j)'
        <3>1. ASSUME NEW j \in Ids, j # i PROVE Linked(j)'
            BY <2>3, <2>4, <3>1 DEF LinksInv, Linked, OwnedBy
        <3>2. Linked(i)'
            BY <2>1, <2>2, <2>3, <2>5 DEF LinksInv, LinkReady, Linked, OwnedBy
        <3> QED
            BY <3>1, <3>2
    <2>7. \A t \in Sessions : LinkReady(t)'
        BY <2>2, <2>3 DEF LinksInv, LinkReady, TypeOK, OwnedBy
    <2> QED
        BY <2>6, <2>7 DEF LinksInv
<1>4. ASSUME NEW s \in Sessions, Commit(s) PROVE LinksInv'
    <2>1. \A j \in Ids : \A t : t # s /\ OwnedBy(j, {t, Shared}) => OwnedBy(j, {t, Shared})'
        BY <1>4, CommitFacts DEF OwnedBy, Keeps
    <2>2. \A j \in Ids : OwnedBy(j, {s, Shared}) => OwnedBy(j, {Shared})'
        BY <1>4, CommitFacts DEF OwnedBy, Keeps
    <2>3. \A j \in Ids : Linked(j)'
        <3> SUFFICES ASSUME NEW j \in Ids, rows'[j] # NoRow, rows'[j].original # Nothing
                     PROVE  Linked(j)'
            BY DEF Linked
        <3>1. rows[j] # NoRow /\ rows'[j].original = rows[j].original
            BY <1>4, CommitFacts DEF Keeps
        <3>2. /\ rows[j].original # j /\ rows[j].original \in Ids
              /\ OwnedBy(rows[j].original, {rows[j].owner, Shared})
            BY <3>1 DEF LinksInv, Linked
        <3>3. rows'[j].owner = IF rows[j].owner = s THEN Shared ELSE rows[j].owner
            BY <1>4, <3>1, CommitFacts
        <3>4. CASE rows[j].owner = s
            <4> DEFINE o == rows[j].original
            <4>1. o \in Ids /\ OwnedBy(o, {s, Shared})
                BY <3>2, <3>4
            <4>2. rows'[o] # NoRow /\ rows'[o].owner = Shared
                BY <2>2, <4>1 DEF OwnedBy
            <4> QED
                BY <3>1, <3>2, <4>2 DEF Linked, OwnedBy
        <3>5. CASE rows[j].owner # s
            BY <2>1, <3>1, <3>2, <3>3, <3>5 DEF Linked, OwnedBy
        <3> QED
            BY <3>4, <3>5
    <2>4. \A t \in Sessions : LinkReady(t)'
        BY <1>4, <2>1, <2>2 DEF Commit, LinksInv, LinkReady, OwnedBy
    <2> QED
        BY <2>3, <2>4 DEF LinksInv
<1>5. ASSUME NEW s \in Sessions, Undo(s) PROVE LinksInv'
    <2>1. \A j \in Ids : rows'[j] = IF OwnedBy(j, {s}) THEN NoRow ELSE rows[j]
        BY <1>5 DEF Undo
    <2>2. \A j \in Ids : \A t : t # s /\ OwnedBy(j, {t, Shared}) => OwnedBy(j, {t, Shared})'
        BY <2>1, IngestionAssumption DEF OwnedBy
    <2>3. pending' = [pending EXCEPT ![s] = Nothing]
        BY <1>5 DEF Undo
    <2>4. \A j \in Ids : rows'[j] # NoRow => rows'[j] = rows[j] /\ rows[j].owner # s
        BY <2>1 DEF OwnedBy
    <2>5. \A j \in Ids : Linked(j)'
        BY <2>2, <2>4 DEF LinksInv, Linked, OwnedBy
    <2>6. \A t \in Sessions : LinkReady(t)'
        BY <2>2, <2>3 DEF LinksInv, LinkReady, TypeOK, OwnedBy
    <2> QED
        BY <2>5, <2>6 DEF LinksInv
<1>6. ASSUME NEW i \in Ids, ChangeStatus(i) PROVE LinksInv'
    <2>1. \A j \in Ids : \A owners : OwnedBy(j, owners) => OwnedBy(j, owners)'
        BY <1>6, ChangeStatusFacts DEF OwnedBy, Keeps
    <2>2. \A j \in Ids : rows'[j] # NoRow =>
              /\ rows[j] # NoRow
              /\ rows'[j].original = rows[j].original /\ rows'[j].owner = rows[j].owner
        BY <1>6, ChangeStatusFacts DEF Keeps
    <2>3. UNCHANGED pending
        BY <1>6 DEF ChangeStatus
    <2> QED
        BY <2>1, <2>2, <2>3 DEF LinksInv, Linked, LinkReady, OwnedBy
<1>7. CASE UNCHANGED vars
    BY <1>7 DEF vars, LinksInv, Linked, LinkReady, OwnedBy
<1> QED
    BY <1>1, <1>2, <1>3, <1>4, <1>5, <1>6, <1>7, SessionCases DEF Next

\* No step of ingestion loses a posting that was committed.
LEMMA PostingsStep == TypeOK /\ PostingsInv /\ [Next]_vars => PostingsInv'
<1> SUFFICES ASSUME TypeOK, PostingsInv, [Next]_vars PROVE PostingsInv'
    OBVIOUS
<1>1. ASSUME NEW s \in Sessions, MergeStep(s) PROVE PostingsInv'
    <2>1. PICK p \in Postings :
              /\ taken' = [taken EXCEPT ![s] = @ \union {p}]
              /\ Represented(p, {s, Shared})
        BY <1>1, MergeFacts DEF Represented
    <2>2. UNCHANGED <<rows, seen>>
        BY <1>1, MergeFacts
    <2>3. \A q, owners : Represented(q, owners) => Represented(q, owners)'
        BY <2>2 DEF Represented, OwnedBy
    <2> QED
        BY <2>1, <2>2, <2>3 DEF PostingsInv, EveryPostingIsRepresented, TypeOK
<1>2. ASSUME NEW s \in Sessions, ProbeStep(s) PROVE PostingsInv'
    <2>1. UNCHANGED <<rows, taken, seen>>
        BY <1>2, ProbeFacts
    <2> QED
        BY <2>1 DEF PostingsInv, EveryPostingIsRepresented, Represented, OwnedBy
<1>3. ASSUME NEW s \in Sessions, Insert(s) PROVE PostingsInv'
    <2>1. PICK i \in Ids, row \in Rows :
              /\ rows[i] = NoRow
              /\ rows' = [rows EXCEPT ![i] = row]
              /\ row.url = pending[s].posting.url
              /\ row.owner = s
        BY <1>3, InsertFacts
    <2>2. /\ UNCHANGED seen
          /\ taken' = [taken EXCEPT ![s] = @ \union {pending[s].posting}]
        BY <1>3 DEF Insert
    <2>3. \A j \in Ids : \A owners : OwnedBy(j, owners) => Keeps(j) /\ rows'[j].owner \in owners
        BY <2>1 DEF OwnedBy, Keeps
    <2>4. \A q, owners : Represented(q, owners) => Represented(q, owners)'
        BY <2>3, StaysRepresented
    <2>5. rows'[i] = row /\ row # NoRow
        BY <2>1, IngestionAssumption DEF TypeOK
    <2>6. \A q : q.url = row.url => Represented(q, {s, Shared})'
        BY <2>1, <2>5 DEF Represented, OwnedBy
    <2> QED
        BY <2>1, <2>2, <2>4, <2>6 DEF PostingsInv, EveryPostingIsRepresented, TypeOK
<1>4. ASSUME NEW s \in Sessions, Commit(s) PROVE PostingsInv'
    <2>1. \A j \in Ids, t \in Sessions :
              OwnedBy(j, {t, Shared}) => Keeps(j) /\ rows'[j].owner \in {t, Shared}
        BY <1>4, CommitFacts DEF OwnedBy
    <2>2. \A j \in Ids : OwnedBy(j, {s, Shared}) => Keeps(j) /\ rows'[j].owner \in {Shared}
        BY <1>4, CommitFacts DEF OwnedBy
    <2>3. \A q : \A t \in Sessions : Represented(q, {t, Shared}) => Represented(q, {t, Shared})'
        BY <2>1, StaysRepresented
    <2>4. \A q : Represented(q, {s, Shared}) => Represented(q, {Shared})'
        BY <2>2, StaysRepresented
    <2>5. \A q : Represented(q, {Shared}) => Represented(q, {s, Shared})
        BY DEF Represented, OwnedBy
    <2>6. seen' = seen \union taken[s] /\ taken' = [taken EXCEPT ![s] = {}]
        BY <1>4 DEF Commit
    <2>7. \A q \in seen' : Represented(q, {Shared})'
        BY <2>4, <2>5, <2>6 DEF PostingsInv, EveryPostingIsRepresented
    <2>8. ASSUME NEW t \in Sessions, NEW q \in taken'[t]
          PROVE  Represented(q, {t, Shared})'
        <3>1. q \in taken[t]
            BY <2>6, <2>8 DEF TypeOK
        <3> QED
            BY <2>3, <3>1 DEF PostingsInv
    <2> QED
        BY <2>7, <2>8 DEF PostingsInv, EveryPostingIsRepresented
<1>5. ASSUME NEW s \in Sessions, Undo(s) PROVE PostingsInv'
    <2>1. \A j \in Ids : rows'[j] = IF OwnedBy(j, {s}) THEN NoRow ELSE rows[j]
        BY <1>5 DEF Undo
    <2>2. \A j \in Ids : \A owners :
              s \notin owners /\ OwnedBy(j, owners) => Keeps(j) /\ rows'[j].owner \in owners
        BY <2>1 DEF OwnedBy, Keeps
    <2>3. \A q, owners :
              s \notin owners /\ Represented(q, owners) => Represented(q, owners)'
        BY <2>2, StaysRepresented
    <2>4. UNCHANGED seen /\ taken' = [taken EXCEPT ![s] = {}]
        BY <1>5 DEF Undo
    <2> QED
        <3>1. \A q \in seen' : Represented(q, {Shared})'
            BY <2>3, <2>4, IngestionAssumption DEF PostingsInv, EveryPostingIsRepresented
        <3>2. ASSUME NEW t \in Sessions, NEW q \in taken'[t]
              PROVE  Represented(q, {t, Shared})'
            <4>1. t # s /\ q \in taken[t]
                BY <2>4, <3>2 DEF TypeOK
            <4>2. s \notin {t, Shared}
                BY <4>1, IngestionAssumption
            <4> QED
                BY <2>3, <4>1, <4>2 DEF PostingsInv
        <3> QED
            BY <3>1, <3>2 DEF PostingsInv, EveryPostingIsRepresented
<1>6. ASSUME NEW i \in Ids, ChangeStatus(i) PROVE PostingsInv'
    <2>1. \A j \in Ids : \A owners : OwnedBy(j, owners) => Keeps(j) /\ rows'[j].owner \in owners
        BY <1>6, ChangeStatusFacts DEF OwnedBy
    <2>2. \A q, owners : Represented(q, owners) => Represented(q, owners)'
        BY <2>1, StaysRepresented
    <2> QED
        BY <1>6, <2>2 DEF ChangeStatus, PostingsInv, EveryPostingIsRepresented
<1>7. CASE UNCHANGED vars
    BY <1>7 DEF vars, PostingsInv, EveryPostingIsRepresented, Represented, OwnedBy
<1> QED
    BY <1>1, <1>2, <1>3, <1>4, <1>5, <1>6, <1>7, SessionCases DEF Next

\* Any number of sessions may ingest, commit and roll back side by side: no
\* stored duplicate loses its original, and no committed posting its row.
THEOREM SafeIngestion == Spec => [](DuplicatesHaveOriginals /\ EveryPostingIsRepresented)
<1>1. Init => TypeOK /\ LinksInv /\ PostingsInv
    BY DEF Init, TypeOK, LinksInv, Linked, LinkReady, PostingsInv, EveryPostingIsRepresented
<1>2. TypeOK /\ LinksInv => DuplicatesHaveOriginals
    BY DEF LinksInv, Linked, DuplicatesHaveOriginals, OwnedBy
<1>3. PostingsInv => EveryPostingIsRepresented
    BY DEF PostingsInv
<1> QED
    BY <1>1, <1>2, <1>3, IngestionTyping, LinksStep, PostingsStep, PTL DEF Spec

-----------------------------------------------------------------------------
(* No opportunity twice, unless a probe was blind.                         *)

\* Two rows, or a row and a posting, that no probe relates.
Unrelated(a, b) == a.url # b.url /\ a.text # b.text /\ ~SameRole(a, b)

\* A stored row, committed or not, that no one has flagged.
Kept(i) == rows[i] # NoRow /\ i \notin flagged

\* What the probes behind a posting have told it from.
ToldApart(row, entry) ==
    /\ row.url # entry.posting.url
    /\ entry.next \in {"title", "flush"} => row.text # entry.posting.text
    /\ entry.next = "flush" /\ entry.original = Nothing => ~SameRole(row, entry.posting)

\* A row with the status of a duplicate is flagged.
FlaggedInv == \A i \in Ids : rows[i] # NoRow /\ rows[i].status = "duplicate" => i \in flagged

\* At most one session has rows to flush or to commit.
Exclusive == \A s, t \in Sessions : Busy(s) /\ Busy(t) => s = t

\* Kept rows are unrelated, and a posting on its way is told apart from them.
Distinct ==
    /\ \A i, j \in Ids : i # j /\ Kept(i) /\ Kept(j) => Unrelated(rows[i], rows[j])
    /\ \A s \in Sessions : pending[s] # Nothing =>
          \A i \in Ids : Kept(i) => ToldApart(rows[i], pending[s])

DistinctInv == ~blind => Exclusive /\ Distinct

\* Being unrelated is symmetric.
LEMMA UnrelatedSymmetry ==
    ASSUME NEW a, NEW b, a.text \in Texts, b.text \in Texts, Unrelated(a, b)
    PROVE  Unrelated(b, a)
    BY IngestionAssumption DEF Unrelated, SameRole, SameOrganization

\* What relates two rows are their URLs, texts and domains.
LEMMA SameFacts ==
    ASSUME NEW a, NEW b, NEW c, NEW d,
           a.url = c.url, a.text = c.text, a.domain = c.domain,
           b.url = d.url, b.text = d.text, b.domain = d.domain
    PROVE  /\ SameRole(a, b) <=> SameRole(c, d)
           /\ Unrelated(a, b) <=> Unrelated(c, d)
    BY DEF Unrelated, SameRole, SameOrganization

\* A session that is alone sees every row that is kept, through every probe.
LEMMA AloneSeesAll ==
    ASSUME TypeOK, FlaggedInv, NEW s \in Sessions,
           \A t \in Sessions : Busy(t) => t = s,
           NEW i \in Ids, Kept(i)
    PROVE  i \in Open(s)
<1>1. rows[i].owner \in Sessions \union {Shared}
    BY DEF Kept, TypeOK, Rows
<1>2. rows[i].owner \in Sessions => Busy(rows[i].owner)
    BY DEF Kept, Busy, OwnedBy
<1> QED
    BY <1>1, <1>2 DEF Kept, OwnedBy, Open, Visible, FlaggedInv

\* A title probe within its limit finds a similar title when there is one.
LEMMA TitleProbeIsThorough ==
    ASSUME TypeOK, NEW s \in Sessions, ProbeTitle(s), ~blind',
           pending'[s].original = Nothing,
           NEW i \in Open(s)
    PROVE  ~SameRole(rows[i], pending[s].posting)
<1> DEFINE p == pending[s].posting
           all == FromOrganization(s, p)
<1>1. all \subseteq Ids
    BY DEF FromOrganization, Open, Visible
<1>2. IsFiniteSet(all)
    BY <1>1, IngestionAssumption, FS_Subset
<1>3. Cardinality(all) \in Nat /\ ~(Cardinality(all) > CandidateLimit)
    BY <1>2, FS_CardinalityType DEF ProbeTitle
<1>4. Fetches(all) = {all}
    BY <1>3, IngestionAssumption DEF Fetches
<1>5. PICK o \in IF ByTitle(all, p) = {} THEN {Nothing} ELSE ByTitle(all, p) :
          pending' = [pending EXCEPT ![s] = Probing(p, "flush", o)]
    BY <1>4 DEF ProbeTitle
<1>6. o = Nothing
    BY <1>5 DEF TypeOK, Probing
<1>7. ByTitle(all, p) = {}
    BY <1>1, <1>5, <1>6, IngestionAssumption DEF ByTitle
<1> QED
    BY <1>7 DEF ByTitle, FromOrganization, SameRole

\* Each probe that finds nothing tells the posting apart from every kept row.
LEMMA ProbeIsThorough ==
    ASSUME TypeOK, FlaggedInv, DistinctInv, NEW s \in Sessions, ProbeStep(s), ~blind'
    PROVE  /\ \A t \in Sessions : Busy(t) => t = s
           /\ \A i \in Ids : Kept(i) => ToldApart(rows[i], pending'[s])
<1>0. ~blind
    BY ProbeFacts
<1>1. ASSUME NEW p \in Postings, ProbeUrl(s, p)
      PROVE  /\ \A t \in Sessions : Busy(t) => t = s
             /\ \A i \in Ids : Kept(i) => ToldApart(rows[i], pending'[s])
    <2>1. \A t \in Sessions : Busy(t) => t = s
        BY <1>1 DEF ProbeUrl
    <2>2. \A i \in Ids : Kept(i) => rows[i].url # p.url
        BY <1>1, <2>1, AloneSeesAll DEF ProbeUrl, ByUrl
    <2>3. pending'[s] = Probing(p, "hash", Nothing)
        BY <1>1 DEF ProbeUrl, TypeOK
    <2> QED
        BY <2>1, <2>2, <2>3 DEF ToldApart, Probing
<1>2. ASSUME Awaits(s, "hash") \/ Awaits(s, "title")
      PROVE  /\ \A t \in Sessions : Busy(t) => t = s
             /\ \A i \in Ids : Kept(i) => i \in Open(s) /\ ToldApart(rows[i], pending[s])
    <2>1. \A t \in Sessions : Busy(t) => t = s
        BY <1>0, <1>2 DEF DistinctInv, Exclusive, Busy, Awaits
    <2> QED
        BY <1>0, <1>2, <2>1, AloneSeesAll DEF DistinctInv, Distinct, Awaits
<1>3. CASE ProbeHash(s)
    <2>1. \A i \in Ids : Kept(i) => rows[i].text # pending[s].posting.text
        BY <1>2, <1>3 DEF ProbeHash, ByHash
    <2>2. pending'[s] = Probing(pending[s].posting, "title", Nothing)
        BY <1>3 DEF ProbeHash, TypeOK
    <2> QED
        BY <1>2, <1>3, <2>1, <2>2 DEF ProbeHash, ToldApart, Probing
<1>4. CASE ProbeTitle(s)
    <2>1. PICK o \in Ids \union {Nothing} :
              pending' = [pending EXCEPT ![s] = Probing(pending[s].posting, "flush", o)]
        BY <1>4, ProbeTitleFacts
    <2>2. pending'[s] = Probing(pending[s].posting, "flush", o)
        BY <2>1 DEF TypeOK
    <2>3. ASSUME NEW i \in Ids, Kept(i), o = Nothing
          PROVE  ~SameRole(rows[i], pending[s].posting)
        <3>1. i \in Open(s)
            BY <1>2, <1>4, <2>3 DEF ProbeTitle
        <3>2. pending'[s].original = Nothing
            BY <2>2, <2>3 DEF Probing
        <3> QED
            BY <1>4, <3>1, <3>2, TitleProbeIsThorough
    <2>4. pending[s].next = "title"
        BY <1>4 DEF ProbeTitle, Awaits
    <2> QED
        BY <1>2, <1>4, <2>2, <2>3, <2>4 DEF ProbeTitle, ToldApart, Probing
<1> QED
    BY <1>1, <1>3, <1>4 DEF ProbeStep

\* A duplicate stays flagged.
LEMMA FlaggedStep == TypeOK /\ FlaggedInv /\ [Next]_vars => FlaggedInv'
<1> SUFFICES ASSUME TypeOK, FlaggedInv, [Next]_vars PROVE FlaggedInv'
    OBVIOUS
<1> USE DEF FlaggedInv
<1>1. ASSUME NEW s \in Sessions, MergeStep(s) \/ ProbeStep(s) PROVE FlaggedInv'
    BY <1>1, MergeFacts, ProbeFacts
<1>2. ASSUME NEW s \in Sessions, Insert(s) PROVE FlaggedInv'
    <2>1. PICK i \in Ids, row \in Rows :
              /\ rows' = [rows EXCEPT ![i] = row]
              /\ flagged \subseteq flagged'
              /\ row.status = "duplicate" => i \in flagged'
        BY <1>2, InsertFacts
    <2> QED
        BY <2>1 DEF TypeOK
<1>3. ASSUME NEW s \in Sessions, Commit(s) PROVE FlaggedInv'
    BY <1>3, CommitFacts DEF Commit
<1>4. ASSUME NEW s \in Sessions, Undo(s) PROVE FlaggedInv'
    BY <1>4 DEF Undo
<1>5. ASSUME NEW i \in Ids, ChangeStatus(i) PROVE FlaggedInv'
    BY <1>5, ChangeStatusFacts
<1>6. CASE UNCHANGED vars
    BY <1>6 DEF vars
<1> QED
    BY <1>1, <1>2, <1>3, <1>4, <1>5, <1>6, SessionCases DEF Next

\* A session that is not busy stays so unless it starts to probe.
LEMMA ExclusiveStays ==
    ASSUME Exclusive, \A t \in Sessions : Busy(t)' => Busy(t)
    PROVE  Exclusive'
    BY DEF Exclusive

\* Steps that add no row, unflag none and bring no posting on keep rows distinct.
LEMMA DistinctStays ==
    ASSUME Distinct,
           \A i \in Ids : Kept(i)' => Kept(i) /\ Keeps(i),
           \A s \in Sessions : pending'[s] # Nothing => pending'[s] = pending[s]
    PROVE  Distinct'
<1>1. ASSUME NEW i \in Ids, NEW j \in Ids, i # j, Kept(i)', Kept(j)'
      PROVE  Unrelated(rows'[i], rows'[j])
    <2>1. Unrelated(rows[i], rows[j])
        BY <1>1 DEF Distinct
    <2> QED
        BY <1>1, <2>1, SameFacts DEF Keeps
<1>2. ASSUME NEW s \in Sessions, pending'[s] # Nothing, NEW i \in Ids, Kept(i)'
      PROVE  ToldApart(rows'[i], pending'[s])
    <2>1. pending'[s] = pending[s] /\ ToldApart(rows[i], pending[s])
        BY <1>2 DEF Distinct
    <2>2. SameRole(rows'[i], pending[s].posting) <=> SameRole(rows[i], pending[s].posting)
        BY <1>2, SameFacts DEF Keeps
    <2> QED
        BY <1>2, <2>1, <2>2 DEF ToldApart, Keeps
<1>3. \A i, j \in Ids : i # j /\ Kept(i)' /\ Kept(j)' => Unrelated(rows'[i], rows'[j])
    BY <1>1
<1>4. \A s \in Sessions : pending'[s] # Nothing =>
          \A i \in Ids : Kept(i)' => ToldApart(rows'[i], pending'[s])
    BY <1>2
<1> QED
    BY <1>3, <1>4 DEF Distinct

\* No step lets an opportunity in twice before some probe was blind.
LEMMA DistinctStep == TypeOK /\ FlaggedInv /\ DistinctInv /\ [Next]_vars => DistinctInv'
<1> SUFFICES ASSUME TypeOK, FlaggedInv, DistinctInv, [Next]_vars, ~blind'
             PROVE  Exclusive' /\ Distinct'
    BY DEF DistinctInv
<1>1. ASSUME NEW s \in Sessions, MergeStep(s) PROVE Exclusive' /\ Distinct'
    <2>1. /\ UNCHANGED <<rows, blind, flagged>>
          /\ pending' = [pending EXCEPT ![s] = Nothing]
        BY <1>1, MergeFacts
    <2>2. \A t \in Sessions : pending'[t] # Nothing => pending'[t] = pending[t]
        BY <2>1 DEF TypeOK
    <2>3. Exclusive'
        BY <2>1, <2>2, ExclusiveStays DEF DistinctInv, Busy, OwnedBy
    <2>4. Distinct'
        BY <2>1, <2>2, DistinctStays DEF DistinctInv, Kept, Keeps
    <2> QED
        BY <2>3, <2>4
<1>2. ASSUME NEW s \in Sessions, ProbeStep(s) PROVE Exclusive' /\ Distinct'
    <2>1. UNCHANGED <<rows, flagged>> /\ ~blind
        BY <1>2, ProbeFacts
    <2>2. \A t \in Sessions : t # s => pending'[t] = pending[t]
        BY <1>2, ProbeFacts DEF TypeOK
    <2>3. /\ \A t \in Sessions : Busy(t) => t = s
          /\ \A i \in Ids : Kept(i) => ToldApart(rows[i], pending'[s])
        BY <1>2, ProbeIsThorough
    <2>4. Exclusive'
        BY <2>1, <2>2, <2>3 DEF Exclusive, Busy, OwnedBy
    <2>5. Distinct'
        BY <2>1, <2>2, <2>3 DEF DistinctInv, Distinct, Kept
    <2> QED
        BY <2>4, <2>5
<1>3. ASSUME NEW s \in Sessions, Insert(s) PROVE Exclusive' /\ Distinct'
    <2>1. PICK i \in Ids, row \in Rows :
              /\ rows[i] = NoRow
              /\ rows' = [rows EXCEPT ![i] = row]
              /\ row.url = pending[s].posting.url
              /\ row.text = pending[s].posting.text
              /\ row.domain = pending[s].posting.domain
              /\ row.original = pending[s].original
              /\ row.owner = s
              /\ flagged \subseteq flagged'
              /\ row.status = "duplicate" => i \in flagged'
              /\ row.status # "duplicate" => row.original = Nothing
        BY <1>3, InsertFacts
    <2>2. /\ pending[s] # Nothing /\ pending[s].next = "flush"
          /\ pending' = [pending EXCEPT ![s] = Nothing] /\ ~blind
        BY <1>3 DEF Insert, Awaits
    <2>3. rows'[i] = row /\ \A j \in Ids : j # i => rows'[j] = rows[j]
        BY <2>1 DEF TypeOK
    <2>4. Exclusive /\ Distinct
        BY <2>2 DEF DistinctInv
    <2>5. \A t \in Sessions : Busy(t)' => Busy(t)
        <3>1. Busy(s)
            BY <2>2 DEF Busy
        <3>2. ASSUME NEW t \in Sessions, t # s, Busy(t)' PROVE Busy(t)
            <4>1. pending'[t] = pending[t]
                BY <2>2, <3>2 DEF TypeOK
            <4>2. \A j \in Ids : OwnedBy(j, {t})' => OwnedBy(j, {t})
                BY <2>1, <2>3, <3>2 DEF OwnedBy
            <4> QED
                BY <3>2, <4>1, <4>2 DEF Busy
        <3> QED
            BY <3>1, <3>2
    <2>6. Exclusive'
        BY <2>4, <2>5, ExclusiveStays
    <2>7. \A t \in Sessions : pending'[t] = Nothing
        <3>1. \A t \in Sessions : t # s => pending[t] = Nothing
            BY <2>2, <2>4 DEF Exclusive, Busy
        <3> QED
            BY <2>2, <3>1 DEF TypeOK
    <2>8. ASSUME NEW j \in Ids, j # i, Kept(i)', Kept(j)'
          PROVE  Unrelated(rows'[j], row) /\ Unrelated(row, rows'[j])
        <3>1. Kept(j) /\ rows'[j] = rows[j] /\ rows[j] \in Rows
            BY <2>1, <2>3, <2>8 DEF Kept, TypeOK
        <3>2. pending[s].original = Nothing
            BY <2>1, <2>8 DEF Kept
        <3>3. ToldApart(rows[j], pending[s])
            BY <2>2, <2>4, <3>1 DEF Distinct
        <3>4. Unrelated(rows[j], pending[s].posting)
            BY <2>2, <3>2, <3>3 DEF ToldApart, Unrelated
        <3>5. Unrelated(rows[j], row)
            BY <2>1, <3>4, SameFacts
        <3>6. rows[j].text \in Texts /\ row.text \in Texts
            BY <2>1, <3>1 DEF Rows
        <3>7. Unrelated(row, rows[j])
            BY <3>5, <3>6, UnrelatedSymmetry
        <3> QED
            BY <3>1, <3>5, <3>7
    <2>9. ASSUME NEW j \in Ids, NEW k \in Ids, j # k, Kept(j)', Kept(k)'
          PROVE  Unrelated(rows'[j], rows'[k])
        <3>1. CASE j = i
            BY <2>3, <2>8, <2>9, <3>1
        <3>2. CASE k = i
            BY <2>3, <2>8, <2>9, <3>2
        <3>3. CASE j # i /\ k # i
            BY <2>1, <2>3, <2>4, <2>9, <3>3 DEF Distinct, Kept
        <3> QED
            BY <3>1, <3>2, <3>3
    <2>10. Distinct'
        BY <2>7, <2>9 DEF Distinct
    <2> QED
        BY <2>6, <2>10
<1>4. ASSUME NEW s \in Sessions, Commit(s) PROVE Exclusive' /\ Distinct'
    <2>1. UNCHANGED <<pending, blind, flagged>>
        BY <1>4 DEF Commit
    <2>2. \A i \in Ids : Kept(i)' => Kept(i) /\ Keeps(i)
        BY <1>4, <2>1, CommitFacts DEF Kept
    <2>3. \A i \in Ids : \A t \in Sessions : OwnedBy(i, {t})' => OwnedBy(i, {t})
        BY <1>4, CommitFacts, IngestionAssumption DEF OwnedBy
    <2>4. Exclusive'
        BY <2>1, <2>3, ExclusiveStays DEF DistinctInv, Busy
    <2>5. Distinct'
        BY <2>1, <2>2, DistinctStays DEF DistinctInv
    <2> QED
        BY <2>4, <2>5
<1>5. ASSUME NEW s \in Sessions, Undo(s) PROVE Exclusive' /\ Distinct'
    <2>1. \A i \in Ids : rows'[i] # NoRow => rows[i] # NoRow /\ rows'[i] = rows[i]
                                             /\ ~OwnedBy(i, {s})
        BY <1>5 DEF Undo
    <2>2. \A t \in Sessions : pending'[t] # Nothing => pending'[t] = pending[t]
        BY <1>5 DEF Undo, TypeOK
    <2>3. UNCHANGED blind /\ \A i \in flagged : ~OwnedBy(i, {s}) => i \in flagged'
        BY <1>5 DEF Undo
    <2>4. \A i \in Ids : Kept(i)' => Kept(i) /\ Keeps(i)
        BY <2>1, <2>3 DEF Kept, Keeps
    <2>5. Exclusive'
        BY <2>1, <2>2, <2>3, ExclusiveStays DEF DistinctInv, Busy, OwnedBy
    <2>6. Distinct'
        BY <2>2, <2>3, <2>4, DistinctStays DEF DistinctInv
    <2> QED
        BY <2>5, <2>6
<1>6. ASSUME NEW j \in Ids, ChangeStatus(j) PROVE Exclusive' /\ Distinct'
    <2>1. UNCHANGED <<pending, blind>>
        BY <1>6 DEF ChangeStatus
    <2>2. \A i \in Ids : Kept(i)' => Kept(i) /\ Keeps(i)
        BY <1>6, ChangeStatusFacts DEF Kept
    <2>3. \A i \in Ids : \A owners : OwnedBy(i, owners)' => OwnedBy(i, owners)
        BY <1>6, ChangeStatusFacts DEF OwnedBy
    <2>4. Exclusive'
        BY <2>1, <2>3, ExclusiveStays DEF DistinctInv, Busy
    <2>5. Distinct'
        BY <2>1, <2>2, DistinctStays DEF DistinctInv
    <2> QED
        BY <2>4, <2>5
<1>7. CASE UNCHANGED vars
    <2>1. UNCHANGED <<rows, pending, blind, flagged>>
        BY <1>7 DEF vars
    <2>2. Exclusive'
        BY <2>1, ExclusiveStays DEF DistinctInv, Busy, OwnedBy
    <2>3. Distinct'
        BY <2>1, DistinctStays DEF DistinctInv, Kept, Keeps
    <2> QED
        BY <2>2, <2>3
<1> QED
    BY <1>1, <1>2, <1>3, <1>4, <1>5, <1>6, <1>7, SessionCases DEF Next

\* For any number of sessions, postings and rows, and however stale the copies
\* of those who change statuses: two rows are the same opportunity only if one of
\* them is or was flagged as a duplicate, or a probe ran beside an open
\* transaction or beyond its limit.
THEOREM DistinctTheorem == Spec => []DistinctUnlessBlind
<1>1. Init => FlaggedInv /\ DistinctInv
    BY DEF Init, FlaggedInv, DistinctInv, Exclusive, Busy, OwnedBy, Distinct, Kept
<1>2. DistinctInv => DistinctUnlessBlind
    BY DEF DistinctInv, Distinct, DistinctUnlessBlind, Original, Kept, OwnedBy, Unrelated
<1> QED
    BY <1>1, <1>2, IngestionTyping, FlaggedStep, DistinctStep, PTL DEF Spec

=============================================================================
