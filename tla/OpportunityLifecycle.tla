------------------------ MODULE OpportunityLifecycle ------------------------
(***************************************************************************)
(* The status of stored opportunities under the sessions that change it:   *)
(* ingest inserts the row, score_opportunity, refresh and the              *)
(* update_opportunity_status tool read it, decide on what they read, and   *)
(* write when their transaction commits.  The row has no version and no    *)
(* read takes a lock, so a session may decide on a status another session  *)
(* has since replaced.  Each accepted transition appends an event to       *)
(* opportunity_events in the same transaction.                             *)
(*                                                                         *)
(* A session works on one row at a time here; one that works on several    *)
(* does this for each of them and commits them together.                   *)
(***************************************************************************)
EXTENDS OpportunityStatus, Naturals, Sequences

CONSTANTS Sessions,  \* database sessions: requests, workers, agent runs
          Idle,      \* a session with no row loaded
          MaxEvents  \* bound: status events of one opportunity

ASSUME LifecycleAssumption ==
    /\ MaxEvents \in Nat
    /\ \A u \in [opp : Opps, read : Statuses, copy : Statuses, phase : {"read", "worked"}] :
           u # Idle

VARIABLES log,   \* the committed status events of each opportunity
          due,   \* the opportunities whose expiry has passed
          unit   \* the row each session holds, and what it made of it

vars == <<status, log, due, unit>>

Units == [opp : Opps, read : Statuses, copy : Statuses, phase : {"read", "worked"}]
Entries == [from : Statuses \union {Absent}, to : Statuses]

TypeOK ==
    /\ status \in [Opps -> Statuses \union {Absent}]
    /\ log \in [Opps -> Seq(Entries)]
    /\ due \subseteq Opps
    /\ unit \in [Sessions -> Units \union {Idle}]

Init ==
    /\ StatusInit
    /\ log = [o \in Opps |-> <<>>]
    /\ due = {}
    /\ unit = [s \in Sessions |-> Idle]

Entry(from, to) == [from |-> from, to |-> to]

\* Mutant of SetStatus: the move is not validated.
SetStatusUnchecked(current, target) == target

\* set_status and transition: an illegal move raises and changes nothing, an
\* equal one is a no-op.
SetStatus(current, target) ==
    IF CanTransition(current, target) THEN target ELSE current

\* ingest and its commit: DISCOVERED is always recorded, DEDUPLICATED or
\* EXPIRED after it.
Insert(o) ==
    /\ status[o] = Absent
    /\ \E s \in EntryStatuses :
        /\ s = "EXPIRED" => o \in due
        /\ s = "DISCOVERED" => o \notin due
        /\ status' = [status EXCEPT ![o] = s]
        /\ log' = [log EXCEPT ![o] =
                      IF s = "DISCOVERED" THEN <<Entry(Absent, s)>>
                      ELSE <<Entry(Absent, "DISCOVERED"), Entry("DISCOVERED", s)>>]
    /\ UNCHANGED <<due, unit>>

\* Time passes an opportunity's expiry.
PassExpiry(o) ==
    /\ due' = due \union {o}
    /\ UNCHANGED <<status, log, unit>>

\* Mutant of Load: a missing row is not an error.
LoadMissing(s, o) ==
    /\ unit[s] = Idle
    /\ Len(log[o]) < MaxEvents
    /\ unit' = [unit EXCEPT ![s] =
                   [opp |-> o, read |-> status[o], copy |-> status[o], phase |-> "read"]]
    /\ UNCHANGED <<status, log, due>>

\* session.get, or the rows of a select.
Load(s, o) ==
    /\ unit[s] = Idle
    /\ status[o] # Absent
    /\ Len(log[o]) < MaxEvents
    /\ unit' = [unit EXCEPT ![s] =
                   [opp |-> o, read |-> status[o], copy |-> status[o], phase |-> "read"]]
    /\ UNCHANGED <<status, log, due>>

\* The session changes its copy of the row.
Works(s, target) ==
    /\ unit[s] # Idle
    /\ unit[s].phase = "read"
    /\ unit' = [unit EXCEPT ![s].copy = SetStatus(unit[s].copy, target),
                            ![s].phase = "worked"]
    /\ UNCHANGED <<status, log, due>>

\* score_opportunity, for an opportunity that is still active as far as the
\* session knows: RECOMMENDED when the score clears the bar, else SCORED.
ScoreOpportunity(s) ==
    /\ unit[s] # Idle
    /\ unit[s].copy \notin Inactive
    /\ \E target \in {"SCORED", "RECOMMENDED"} : Works(s, target)

\* refresh, of a row past its expiry.
Refresh(s) ==
    /\ unit[s] # Idle
    /\ unit[s].opp \in due
    /\ unit[s].copy \notin Inactive
    /\ Works(s, "EXPIRED")

\* update_opportunity_status, with any status the model asks for.
UpdateStatusTool(s) == \E target \in Statuses : Works(s, target)

\* Mutant of Commit: the whole row is written back.
CommitWholeRow(s) ==
    /\ unit[s] # Idle
    /\ unit[s].phase = "worked"
    /\ LET u == unit[s]
       IN  /\ status' = [status EXCEPT ![u.opp] = u.copy]
           /\ log' = IF u.copy = u.read THEN log
                     ELSE [log EXCEPT ![u.opp] = Append(@, Entry(u.read, u.copy))]
    /\ unit' = [unit EXCEPT ![s] = Idle]
    /\ UNCHANGED due

\* The commit writes the status when it changed since the row was read, over
\* whatever is there by now, and the event of the transition with it.
Commit(s) ==
    /\ unit[s] # Idle
    /\ unit[s].phase = "worked"
    /\ LET u == unit[s]
       IN  IF u.copy = u.read THEN UNCHANGED <<status, log>>
           ELSE /\ status' = [status EXCEPT ![u.opp] = u.copy]
                /\ log' = [log EXCEPT ![u.opp] = Append(@, Entry(u.read, u.copy))]
    /\ unit' = [unit EXCEPT ![s] = Idle]
    /\ UNCHANGED due

\* The handler raises, or the process dies: the transaction rolls back.
Rollback(s) ==
    /\ unit[s] # Idle
    /\ unit' = [unit EXCEPT ![s] = Idle]
    /\ UNCHANGED <<status, log, due>>

SessionStep(s) ==
    \/ \E o \in Opps : Load(s, o)
    \/ ScoreOpportunity(s) \/ Refresh(s) \/ UpdateStatusTool(s)
    \/ Commit(s) \/ Rollback(s)

Next ==
    \/ \E o \in Opps : Insert(o) \/ PassExpiry(o)
    \/ \E s \in Sessions : SessionStep(s)

Spec == Init /\ [][Next]_vars

-----------------------------------------------------------------------------
(* Properties.                                                             *)

\* The event log explains the status of every row, whatever sessions
\* interleave: the last status event committed for it moved it to where it is.
LogExplainsStatus ==
    \A o \in Opps :
        IF status[o] = Absent THEN log[o] = <<>>
        ELSE log[o] # <<>> /\ log[o][Len(log[o])].to = status[o]

\* Every event after the first is a legal move from the status its session
\* had read; none leads back to DISCOVERED.
EntriesAreLegal ==
    \A o \in Opps : \A i \in 1..Len(log[o]) :
        /\ i > 1 => CanTransition(log[o][i].from, log[o][i].to)
        /\ i > 1 => log[o][i].to # "DISCOVERED"

\* The sessions' copies are current: nobody has written a row since a session
\* that still holds it read it.
CopiesAreCurrent ==
    \A s \in Sessions : unit[s] # Idle => status[unit[s].opp] = unit[s].read

\* A new event of a row starts where its last one ended.
Continues(o) ==
    log[o] # <<>> /\ log'[o] # log[o] =>
        log'[o][Len(log[o]) + 1].from = log[o][Len(log[o])].to

\* Only a stale copy breaks the lifecycle: while all copies are current, rows
\* take the abstract automaton's steps and their events chain up, two sessions
\* about to write the same row included.
CurrentCopiesFollowLifecycle ==
    [][CopiesAreCurrent => [StatusNext]_status /\ \A o \in Opps : Continues(o)]_vars

\* Each event starts where the one before it ended, so that the log can be
\* read as the history of the row: so it is when sessions take turns.
LogIsAHistory ==
    \A o \in Opps : \A i \in 1..Len(log[o]) :
        i > 1 => log[o][i].from = log[o][i - 1].to

\* The rows walk along legal moves only, when sessions take turns.
FollowsLifecycle == StatusSpec

=============================================================================
