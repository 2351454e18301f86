------------------------------ MODULE Ingestion ------------------------------
(***************************************************************************)
(* Ingestion and duplicate detection (services/ingestion.py, dedup.py):    *)
(* sessions that ingest postings side by side, each seeing committed rows  *)
(* and its own, the unique index on content_hash, and the status changes   *)
(* other services make to stored rows.                                     *)
(*                                                                         *)
(* A posting is its canonical URL, its normalised text (what the           *)
(* fingerprint hashes: title, organisation and description) and the domain *)
(* of the organisation.  An empty title or an unusable URL is rejected     *)
(* before anything is read or written.  The embedding probe is not         *)
(* reached: no caller gives a candidate an embedding.                      *)
(***************************************************************************)
EXTENDS Naturals, FiniteSets

CONSTANTS Ids,             \* row ids
          Urls,            \* canonical URLs
          Texts,           \* content fingerprints
          Domains,         \* domains of organisations
          Postings,        \* what the sources may send
          OrganizationOf,  \* the organisation a text names, or NoOrganization
          NoOrganization,  \* no name, or no domain
          SimilarTitles,   \* pairs of texts whose titles the probe matches
          CandidateLimit,  \* rows the title probe fetches
          MaxChanged,      \* bound: rows whose status other services change
          Sessions,        \* sessions that ingest
          Shared,          \* the owner of committed rows
          NoRow,           \* an unused id
          Nothing          \* no row to insert, or no original

RowStatuses == {"active", "duplicate", "closed"}

Rows == [url : Urls, text : Texts, domain : Domains \union {NoOrganization},
         status : RowStatuses, entered : RowStatuses,
         original : Ids \union {Nothing}, owner : Sessions \union {Shared}]

\* A posting on its way in: the probe to run next, or the row to flush.
Inserts == [posting : Postings, next : {"hash", "title", "flush"},
            original : Ids \union {Nothing}]

ASSUME IngestionAssumption ==
    /\ IsFiniteSet(Ids)
    /\ Postings \subseteq [url : Urls, text : Texts, domain : Domains \union {NoOrganization}]
    /\ \A t, u \in Texts : <<t, u>> \in SimilarTitles => <<u, t>> \in SimilarTitles
    /\ CandidateLimit \in Nat
    /\ MaxChanged \in Nat
    /\ Shared \notin Sessions
    /\ NoRow \notin Rows
    /\ Nothing \notin Ids /\ Nothing \notin Inserts

VARIABLES rows,      \* the opportunities table, uncommitted rows included
          pending,   \* the posting each session is probing for or about to flush
          taken,     \* postings ingested in the session's transaction
          seen,      \* postings whose ingestion was committed
          blind,     \* some probe could not see all rows; no step reads it
          flagged    \* rows that are or were duplicates; no step reads it

vars == <<rows, pending, taken, seen, blind, flagged>>

TypeOK ==
    /\ rows \in [Ids -> Rows \union {NoRow}]
    /\ pending \in [Sessions -> Inserts \union {Nothing}]
    /\ taken \in [Sessions -> SUBSET Postings]
    /\ seen \subseteq Postings
    /\ blind \in BOOLEAN
    /\ flagged \subseteq Ids

Init ==
    /\ rows = [i \in Ids |-> NoRow]
    /\ pending = [s \in Sessions |-> Nothing]
    /\ taken = [s \in Sessions |-> {}]
    /\ seen = {}
    /\ blind = FALSE
    /\ flagged = {}

-----------------------------------------------------------------------------
(* find_duplicate.                                                         *)

OwnedBy(i, owners) == rows[i] # NoRow /\ rows[i].owner \in owners

\* What a session reads: committed rows and its own, which ingest flushes.
Visible(s) == {i \in Ids : OwnedBy(i, {s, Shared})}

\* Every probe skips rows that are duplicates themselves.
Open(s) == {i \in Visible(s) : rows[i].status # "duplicate"}

ByUrl(s, p) == {i \in Open(s) : rows[i].url = p.url}
ByHash(s, p) == {i \in Open(s) : rows[i].text = p.text}

\* The name or the domain; a, b are postings or rows.
SameOrganization(a, b) ==
    \/ OrganizationOf[a.text] = OrganizationOf[b.text] /\ OrganizationOf[a.text] # NoOrganization
    \/ a.domain = b.domain /\ a.domain # NoOrganization

\* The trigram similarity of two titles is symmetric, and not transitive.
SameRole(a, b) == SameOrganization(a, b) /\ <<a.text, b.text>> \in SimilarTitles

\* What LIMIT leaves of a query without an order.
Fetches(all) ==
    IF Cardinality(all) <= CandidateLimit THEN {all}
    ELSE {some \in SUBSET all : Cardinality(some) = CandidateLimit}

\* Mutant of FromOrganization: the rows come from a cache all sessions share.
FromCache(s, p) ==
    {i \in Ids : /\ rows[i] # NoRow /\ rows[i].status # "duplicate"
                 /\ SameOrganization(rows[i], p)}

FromOrganization(s, p) == {i \in Open(s) : SameOrganization(rows[i], p)}

\* Mutant of ByTitle: a re-worded title is another role.
ByVerbatimTitle(fetched, p) == {i \in fetched : rows[i].text = p.text}

\* The rows the title probe may settle on; it takes the most similar one.
ByTitle(fetched, p) == {i \in fetched : SameRole(rows[i], p)}

\* A session between its first probe and the end of its transaction.
Busy(s) == pending[s] # Nothing \/ \E i \in Ids : OwnedBy(i, {s})

-----------------------------------------------------------------------------
(* ingest: three probes, one awaited statement each, and the flush.        *)

\* The URL or the text is known: the row is revalidated (its dates only).
Merged(s, p) ==
    /\ taken' = [taken EXCEPT ![s] = @ \union {p}]
    /\ pending' = [pending EXCEPT ![s] = Nothing]
    /\ UNCHANGED <<rows, seen, blind, flagged>>

MergeByUrl(s, p) ==
    /\ pending[s] = Nothing
    /\ ByUrl(s, p) # {}
    /\ Merged(s, p)

Probing(p, probe, o) == [posting |-> p, next |-> probe, original |-> o]

\* Probes miss the rows of transactions that are still open.
ProbeUrl(s, p) ==
    /\ pending[s] = Nothing
    /\ ByUrl(s, p) = {}
    /\ pending' = [pending EXCEPT ![s] = Probing(p, "hash", Nothing)]
    /\ blind' = (blind \/ \E t \in Sessions \ {s} : Busy(t))
    /\ UNCHANGED <<rows, taken, seen, flagged>>

Awaits(s, probe) == pending[s] # Nothing /\ pending[s].next = probe

MergeByHash(s) ==
    /\ Awaits(s, "hash")
    /\ ByHash(s, pending[s].posting) # {}
    /\ Merged(s, pending[s].posting)

ProbeHash(s) ==
    /\ Awaits(s, "hash")
    /\ ByHash(s, pending[s].posting) = {}
    /\ pending' = [pending EXCEPT ![s] = Probing(pending[s].posting, "title", Nothing)]
    /\ UNCHANGED <<rows, taken, seen, blind, flagged>>

\* Mutant of ProbeTitle: a similar title is merged as well.
ProbeTitleMerges(s) ==
    /\ Awaits(s, "title")
    /\ LET p == pending[s].posting
       IN  IF ByTitle(FromOrganization(s, p), p) # {} THEN Merged(s, p)
           ELSE /\ pending' = [pending EXCEPT ![s] = Probing(p, "flush", Nothing)]
                /\ UNCHANGED <<rows, taken, seen, blind, flagged>>

\* Mutant of ProbeTitle: the match is kept without being loaded.
ProbeTitleDangling(s) ==
    /\ Awaits(s, "title")
    /\ pending' = [pending EXCEPT ![s] = Probing(pending[s].posting, "flush", NoRow)]
    /\ UNCHANGED <<rows, taken, seen, blind, flagged>>

\* A new row, linked to the best title match when there is one.  The probe
\* misses what is beyond its limit.
ProbeTitle(s) ==
    /\ Awaits(s, "title")
    /\ LET p == pending[s].posting
       IN  /\ \E fetched \in Fetches(FromOrganization(s, p)) :
              \E o \in IF ByTitle(fetched, p) = {} THEN {Nothing} ELSE ByTitle(fetched, p) :
                pending' = [pending EXCEPT ![s] = Probing(p, "flush", o)]
           /\ blind' = (blind \/ Cardinality(FromOrganization(s, p)) > CandidateLimit)
    /\ UNCHANGED <<rows, taken, seen, flagged>>

\* Rows the unique index compares the flushed one with.
SameText(s, owners) == {i \in Ids : OwnedBy(i, owners) /\ rows[i].text = pending[s].posting.text}

\* The flush waits while another transaction holds the same fingerprint.
Waits(s) == SameText(s, Sessions \ {s}) # {}

\* The flush inserts; the row is already past its expiry or active.
Insert(s) ==
    /\ Awaits(s, "flush")
    /\ ~Waits(s)
    /\ SameText(s, {s, Shared}) = {}
    /\ \E i \in Ids, status \in IF pending[s].original = Nothing
                               THEN {"active", "closed"} ELSE {"duplicate"} :
        /\ rows[i] = NoRow
        /\ rows' = [rows EXCEPT ![i] =
                       [url |-> pending[s].posting.url, text |-> pending[s].posting.text,
                        domain |-> pending[s].posting.domain, status |-> status,
                        entered |-> status, original |-> pending[s].original,
                        owner |-> s]]
        /\ flagged' = IF status = "duplicate" THEN flagged \union {i} ELSE flagged
    /\ taken' = [taken EXCEPT ![s] = @ \union {pending[s].posting}]
    /\ pending' = [pending EXCEPT ![s] = Nothing]
    /\ UNCHANGED <<seen, blind>>

\* A transaction that rolls back leaves no rows.
Undo(s) ==
    /\ rows' = [i \in Ids |-> IF OwnedBy(i, {s}) THEN NoRow ELSE rows[i]]
    /\ pending' = [pending EXCEPT ![s] = Nothing]
    /\ taken' = [taken EXCEPT ![s] = {}]
    /\ flagged' = {i \in flagged : ~OwnedBy(i, {s})}
    /\ UNCHANGED <<seen, blind>>

\* IntegrityError: a stored row, a duplicate the probes skip included, has the
\* fingerprint.  Nothing catches it before the transaction is gone.
Collide(s) ==
    /\ Awaits(s, "flush")
    /\ ~Waits(s)
    /\ SameText(s, {s, Shared}) # {}
    /\ Undo(s)

Commit(s) ==
    /\ pending[s] = Nothing
    /\ rows' = [i \in Ids |-> IF OwnedBy(i, {s}) THEN [rows[i] EXCEPT !.owner = Shared]
                              ELSE rows[i]]
    /\ seen' = seen \union taken[s]
    /\ taken' = [taken EXCEPT ![s] = {}]
    /\ UNCHANGED <<pending, blind, flagged>>

\* The handler raises, the process dies, or the database ends a deadlock of
\* two flushes that wait for each other.
Rollback(s) == Undo(s)

\* Rows that are not as they were inserted.
Changed ==
    {i \in Ids : /\ rows[i] # NoRow
                 /\ \/ rows[i].status # rows[i].entered
                    \/ i \in flagged /\ rows[i].entered # "duplicate"}

\* score_opportunity, refresh or update_opportunity_status in another session
\* commits a status over whatever the committed row has by now.  What was
\* inactive when it was read stays so; a copy read while the row was active
\* makes it active again.
ChangeStatus(i) ==
    /\ OwnedBy(i, {Shared})
    /\ Cardinality(Changed \union {i}) <= MaxChanged
    /\ \E status \in {"duplicate", "closed", rows[i].entered} :
        /\ rows' = [rows EXCEPT ![i].status = status]
        /\ flagged' = IF status = "duplicate" THEN flagged \union {i} ELSE flagged
    /\ UNCHANGED <<pending, taken, seen, blind>>

SessionStep(s) ==
    \/ \E p \in Postings : MergeByUrl(s, p) \/ ProbeUrl(s, p)
    \/ MergeByHash(s) \/ ProbeHash(s) \/ ProbeTitle(s)
    \/ Insert(s) \/ Collide(s) \/ Commit(s) \/ Rollback(s)

Next == (\E s \in Sessions : SessionStep(s)) \/ (\E i \in Ids : ChangeStatus(i))

Spec == Init /\ [][Next]_vars

-----------------------------------------------------------------------------
(* Properties.                                                             *)

\* A committed row that was stored as a duplicate links to a committed row,
\* another one: no rollback of a concurrent transaction leaves the link
\* dangling, and no row is its own original.
DuplicatesHaveOriginals ==
    \A i \in Ids :
        OwnedBy(i, {Shared}) /\ rows[i].original # Nothing =>
            /\ rows[i].original # i
            /\ OwnedBy(rows[i].original, {Shared})

\* A row has the URL or the text of the posting.
Represented(p, owners) ==
    \E i \in Ids : OwnedBy(i, owners) /\ (rows[i].url = p.url \/ rows[i].text = p.text)

\* No posting is lost: one whose ingestion was committed, merged ones included,
\* has a committed row at its URL or with its text.
EveryPostingIsRepresented == \A p \in seen : Represented(p, {Shared})

\* Committed rows that are not duplicates and never were.
Original(i) == OwnedBy(i, {Shared}) /\ i \notin flagged

\* Only a blind probe lets an opportunity in twice: as long as no session looked
\* for duplicates beside another's open transaction, or beyond the limit of the
\* title probe, no two rows have the same URL, the same text or the same role,
\* active, closed or reopened by a stale commit, except those flagged as
\* duplicates and those whose flag another session has taken away since.
DistinctUnlessBlind ==
    ~blind =>
        \A i, j \in Ids :
            i # j /\ Original(i) /\ Original(j) =>
                /\ rows[i].url # rows[j].url
                /\ rows[i].text # rows[j].text
                /\ ~SameRole(rows[i], rows[j])


=============================================================================
