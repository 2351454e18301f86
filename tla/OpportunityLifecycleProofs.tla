--------------------- MODULE OpportunityLifecycleProofs ---------------------
(***************************************************************************)
(* Theorems about OpportunityLifecycle, for every set of opportunities and *)
(* sessions.  What holds whatever the sessions do comes first; what needs  *)
(* them to take turns says so in its ASSUME.                               *)
(***************************************************************************)
EXTENDS OpportunityLifecycle, TLAPS

\* A legal move ends in a status, never in DISCOVERED, and never starts in
\* ARCHIVED.
LEMMA MoveFacts ==
    ASSUME NEW s \in Statuses, NEW t, CanTransition(s, t)
    PROVE  t \in Statuses /\ t # "DISCOVERED" /\ t # s /\ s # "ARCHIVED"
<1>1. CASE s = "ARCHIVED"
    BY <1>1 DEF CanTransition, AllowedTransitions, Terminal
<1>2. CASE s # "ARCHIVED"
    <2>1. t \in Pipeline(s) \union (Exits \ {s})
        BY <1>2 DEF CanTransition, AllowedTransitions, Terminal
    <2> QED
        BY <1>2, <2>1 DEF Pipeline, Exits, Statuses
<1> QED
    BY <1>1, <1>2

\* set_status leaves a status, and a new one only by a legal move.
LEMMA SetStatusFacts ==
    ASSUME NEW s \in Statuses, NEW t
    PROVE  /\ SetStatus(s, t) \in Statuses
           /\ SetStatus(s, t) # s => CanTransition(s, SetStatus(s, t))
    BY MoveFacts DEF SetStatus

\* What a session's work on its copy comes to.
LEMMA WorksFacts ==
    ASSUME TypeOK, NEW s \in Sessions, NEW t, Works(s, t)
    PROVE  /\ unit[s] \in Units /\ unit[s].phase = "read"
           /\ unit'[s] \in Units
           /\ unit'[s].opp = unit[s].opp /\ unit'[s].read = unit[s].read
           /\ unit'[s].copy = SetStatus(unit[s].copy, t)
           /\ unit'[s].phase = "worked"
           /\ unit' = [unit EXCEPT ![s] = unit'[s]]
           /\ UNCHANGED <<status, log, due>>
<1>1. unit[s] \in Units /\ unit[s].phase = "read"
    BY DEF TypeOK, Works
<1>2. SetStatus(unit[s].copy, t) \in Statuses
    BY <1>1, SetStatusFacts DEF Units
<1> QED
    BY <1>1, <1>2 DEF TypeOK, Works, Units

\* Every step of a session on its copy is a Works step.
LEMMA SessionCases ==
    ASSUME NEW s \in Sessions, SessionStep(s)
    PROVE  \/ \E o \in Opps : Load(s, o)
           \/ \E t : Works(s, t)
           \/ Commit(s)
           \/ Rollback(s)
    BY DEF SessionStep, ScoreOpportunity, Refresh, UpdateStatusTool

-----------------------------------------------------------------------------
(* Types.                                                                  *)

\* Rows, events and the sessions' copies are well typed.
THEOREM LifecycleTyping == Spec => []TypeOK
<1>1. Init => TypeOK
    BY DEF Init, StatusInit, TypeOK
<1>2. TypeOK /\ [Next]_vars => TypeOK'
    <2> SUFFICES ASSUME TypeOK, [Next]_vars PROVE TypeOK'
        OBVIOUS
    <2>1. ASSUME NEW o \in Opps, Insert(o) PROVE TypeOK'
        <3>1. PICK s \in EntryStatuses :
                  /\ status' = [status EXCEPT ![o] = s]
                  /\ log' = [log EXCEPT ![o] =
                                IF s = "DISCOVERED" THEN <<Entry(Absent, s)>>
                                ELSE <<Entry(Absent, "DISCOVERED"), Entry("DISCOVERED", s)>>]
            BY <2>1 DEF Insert
        <3>2. s \in Statuses /\ "DISCOVERED" \in Statuses
            BY DEF EntryStatuses, Statuses, Exits
        <3>3. Entry(Absent, "DISCOVERED") \in Entries /\ Entry("DISCOVERED", s) \in Entries
            BY <3>2 DEF Entry, Entries
        <3>4. <<Entry(Absent, s)>> \in Seq(Entries)
            BY <3>2 DEF Entry, Entries
        <3>5. <<Entry(Absent, "DISCOVERED"), Entry("DISCOVERED", s)>> \in Seq(Entries)
            BY <3>3
        <3>6. log' \in [Opps -> Seq(Entries)]
            BY <3>1, <3>4, <3>5 DEF TypeOK
        <3> QED
            BY <2>1, <3>1, <3>2, <3>6 DEF TypeOK, Insert
    <2>2. ASSUME NEW o \in Opps, PassExpiry(o) PROVE TypeOK'
        BY <2>2 DEF TypeOK, PassExpiry
    <2>3. ASSUME NEW s \in Sessions, NEW o \in Opps, Load(s, o) PROVE TypeOK'
        BY <2>3 DEF TypeOK, Load, Units
    <2>4. ASSUME NEW s \in Sessions, NEW t, Works(s, t) PROVE TypeOK'
        BY <2>4, WorksFacts DEF TypeOK
    <2>5. ASSUME NEW s \in Sessions, Commit(s) PROVE TypeOK'
        <3>1. unit[s] \in Units
            BY <2>5 DEF TypeOK, Commit
        <3>2. Entry(unit[s].read, unit[s].copy) \in Entries
            BY <3>1 DEF Units, Entry, Entries
        <3>3. unit[s].opp \in Opps /\ unit[s].copy \in Statuses
            BY <3>1 DEF Units
        <3>4. log[unit[s].opp] \in Seq(Entries)
            BY <3>3 DEF TypeOK
        <3>5. Append(log[unit[s].opp], Entry(unit[s].read, unit[s].copy)) \in Seq(Entries)
            BY <3>2, <3>4
        <3>6. log' \in [Opps -> Seq(Entries)] /\ status' \in [Opps -> Statuses \union {Absent}]
            BY <2>5, <3>3, <3>5 DEF TypeOK, Commit
        <3> QED
            BY <2>5, <3>6 DEF TypeOK, Commit
    <2>6. ASSUME NEW s \in Sessions, Rollback(s) PROVE TypeOK'
        BY <2>6 DEF TypeOK, Rollback
    <2>7. CASE UNCHANGED vars
        BY <2>7 DEF TypeOK, vars
    <2> QED
        BY <2>1, <2>2, <2>3, <2>4, <2>5, <2>6, <2>7, SessionCases DEF Next
<1> QED
    BY <1>1, <1>2, PTL DEF Spec

-----------------------------------------------------------------------------
(* The event log under any interleaving of sessions.                       *)

\* What a session may have made of the row it read.
UnitsAreLegal ==
    \A s \in Sessions : unit[s] # Idle =>
        /\ unit[s].phase = "read" => unit[s].copy = unit[s].read
        /\ \/ unit[s].copy = unit[s].read
           \/ CanTransition(unit[s].read, unit[s].copy)

LogInv == UnitsAreLegal /\ LogExplainsStatus /\ EntriesAreLegal

\* Every step keeps the log explained.
LEMMA LogStep == TypeOK /\ TypeOK' /\ LogInv /\ [Next]_vars => LogInv'
<1> SUFFICES ASSUME TypeOK, TypeOK', LogInv, [Next]_vars PROVE LogInv'
    OBVIOUS
<1>a. ASSUME UNCHANGED <<status, log>>, UnitsAreLegal' PROVE LogInv'
    BY <1>a DEF LogInv, LogExplainsStatus, EntriesAreLegal
<1>1. ASSUME NEW o \in Opps, Insert(o) PROVE LogInv'
    <2>1. PICK s \in EntryStatuses :
              /\ status' = [status EXCEPT ![o] = s]
              /\ log' = [log EXCEPT ![o] =
                            IF s = "DISCOVERED" THEN <<Entry(Absent, s)>>
                            ELSE <<Entry(Absent, "DISCOVERED"), Entry("DISCOVERED", s)>>]
        BY <1>1 DEF Insert
    <2>2. status'[o] = s /\ s # Absent
        BY <2>1, StatusAssumption DEF TypeOK, EntryStatuses, Statuses, Exits
    <2>3. CASE s = "DISCOVERED"
        <3>1. log'[o] = <<Entry(Absent, "DISCOVERED")>>
            BY <2>1, <2>3 DEF TypeOK
        <3> QED
            BY <1>1, <2>1, <2>2, <2>3, <3>1
            DEF LogInv, UnitsAreLegal, LogExplainsStatus, EntriesAreLegal,
                Insert, Entry, TypeOK
    <2>4. CASE s # "DISCOVERED"
        <3>1. log'[o] = <<Entry(Absent, "DISCOVERED"), Entry("DISCOVERED", s)>>
            BY <2>1, <2>4 DEF TypeOK
        <3>2. CanTransition("DISCOVERED", s)
            BY <2>4 DEF CanTransition, AllowedTransitions, Terminal, EntryStatuses, Exits
        <3> QED
            BY <1>1, <2>1, <2>2, <2>4, <3>1, <3>2
            DEF LogInv, UnitsAreLegal, LogExplainsStatus, EntriesAreLegal,
                Insert, Entry, TypeOK
    <2> QED
        BY <2>3, <2>4
<1>2. ASSUME NEW o \in Opps, PassExpiry(o) PROVE LogInv'
    BY <1>2, <1>a DEF LogInv, UnitsAreLegal, PassExpiry
<1>3. ASSUME NEW s \in Sessions, NEW o \in Opps, Load(s, o) PROVE LogInv'
    BY <1>3, <1>a DEF LogInv, UnitsAreLegal, Load, TypeOK
<1>4. ASSUME NEW s \in Sessions, NEW t, Works(s, t) PROVE LogInv'
    <2>1. /\ unit[s] \in Units /\ unit[s].phase = "read"
          /\ unit'[s].read = unit[s].read
          /\ unit'[s].copy = SetStatus(unit[s].copy, t)
          /\ unit'[s].phase = "worked"
          /\ unit' = [unit EXCEPT ![s] = unit'[s]]
          /\ UNCHANGED <<status, log, due>>
        BY <1>4, WorksFacts
    <2>2. unit[s].copy \in Statuses /\ unit[s] # Idle
        BY <2>1, <1>4 DEF Units, Works
    <2>3. \/ unit'[s].copy = unit[s].copy
          \/ CanTransition(unit[s].copy, unit'[s].copy)
        BY <2>1, <2>2, SetStatusFacts
    <2>4. unit[s].copy = unit[s].read
        BY <2>1, <2>2 DEF LogInv, UnitsAreLegal
    <2>5. UnitsAreLegal'
        BY <2>1, <2>3, <2>4 DEF LogInv, UnitsAreLegal, TypeOK
    <2> QED
        BY <1>a, <2>1, <2>5
<1>5. ASSUME NEW s \in Sessions, Commit(s) PROVE LogInv'
    <2>1. unit[s] \in Units /\ unit[s] # Idle
        BY <1>5 DEF TypeOK, Commit
    <2>2. UnitsAreLegal'
        BY <1>5 DEF LogInv, UnitsAreLegal, Commit, TypeOK
    <2>3. CASE unit[s].copy = unit[s].read
        BY <1>5, <1>a, <2>2, <2>3 DEF Commit
    <2>4. CASE unit[s].copy # unit[s].read
        <3> DEFINE o == unit[s].opp
                   e == Entry(unit[s].read, unit[s].copy)
        <3>1. /\ o \in Opps
              /\ status' = [status EXCEPT ![o] = unit[s].copy]
              /\ log' = [log EXCEPT ![o] = Append(log[o], e)]
            BY <1>5, <2>1, <2>4 DEF Commit, Units
        <3>2. CanTransition(unit[s].read, unit[s].copy)
            BY <2>1, <2>4 DEF LogInv, UnitsAreLegal
        <3>3. unit[s].copy \in Statuses /\ unit[s].copy # "DISCOVERED"
            BY <2>1, <3>2, MoveFacts DEF Units
        <3>4. log[o] \in Seq(Entries)
            BY <3>1 DEF TypeOK
        <3>5. /\ log'[o] = Append(log[o], e) /\ Len(log'[o]) = Len(log[o]) + 1
              /\ log'[o][Len(log[o]) + 1] = e
              /\ \A i \in 1..Len(log[o]) : log'[o][i] = log[o][i]
            BY <3>1, <3>4 DEF TypeOK
        <3>6. LogExplainsStatus'
            <4> SUFFICES ASSUME NEW p \in Opps
                         PROVE  IF status'[p] = Absent THEN log'[p] = <<>>
                                ELSE /\ log'[p] # <<>>
                                     /\ log'[p][Len(log'[p])].to = status'[p]
                BY DEF LogExplainsStatus
            <4>1. CASE p = o
                <5>1. status'[o] = unit[s].copy /\ status'[o] # Absent
                    BY <3>1, <3>3, StatusAssumption DEF TypeOK
                <5>2. log'[o][Len(log'[o])] = e /\ e.to = unit[s].copy
                    BY <3>5 DEF Entry
                <5>3. Len(log'[o]) # 0
                    BY <3>4, <3>5
                <5>4. log'[o] # <<>>
                    BY <5>3
                <5> QED
                    BY <4>1, <5>1, <5>2, <5>4
            <4>2. CASE p # o
                BY <3>1, <4>2 DEF LogInv, LogExplainsStatus, TypeOK
            <4> QED
                BY <4>1, <4>2
        <3>7. EntriesAreLegal'
            BY <3>1, <3>2, <3>3, <3>5, <3>4
            DEF LogInv, EntriesAreLegal, TypeOK, Entry
        <3> QED
            BY <2>2, <3>6, <3>7 DEF LogInv
    <2> QED
        BY <2>3, <2>4
<1>6. ASSUME NEW s \in Sessions, Rollback(s) PROVE LogInv'
    BY <1>6, <1>a DEF LogInv, UnitsAreLegal, Rollback, TypeOK
<1>7. CASE UNCHANGED vars
    BY <1>7, <1>a DEF LogInv, UnitsAreLegal, vars
<1> QED
    BY <1>1, <1>2, <1>3, <1>4, <1>5, <1>6, <1>7, SessionCases DEF Next

\* Whatever sessions interleave, the last event of a row explains its status,
\* and every event is a legal move from the status that session had read.
THEOREM LogTheorem == Spec => [](LogExplainsStatus /\ EntriesAreLegal)
<1>1. Init => LogInv
    BY DEF Init, StatusInit, LogInv, UnitsAreLegal, LogExplainsStatus, EntriesAreLegal
<1>2. TypeOK /\ TypeOK' /\ LogInv /\ [Next]_vars => LogInv'
    BY LogStep
<1> QED
    BY <1>1, <1>2, LifecycleTyping, PTL DEF Spec, LogInv

-----------------------------------------------------------------------------
(* Sessions that take turns.                                               *)

\* While copies are current every step is a step of the abstract lifecycle.
LEMMA CurrentMoves ==
    TypeOK /\ LogInv /\ CopiesAreCurrent /\ [Next]_vars => [StatusNext]_status
<1> SUFFICES ASSUME TypeOK, LogInv, CopiesAreCurrent, [Next]_vars
             PROVE  [StatusNext]_status
    OBVIOUS
<1>1. ASSUME NEW o \in Opps, Insert(o) PROVE StatusNext
    BY <1>1 DEF Insert, StatusNext, Enter
<1>2. ASSUME NEW s \in Sessions, Commit(s) PROVE [StatusNext]_status
    <2>1. unit[s] \in Units /\ unit[s] # Idle /\ status[unit[s].opp] = unit[s].read
        BY <1>2 DEF TypeOK, Commit, CopiesAreCurrent
    <2>2. CASE unit[s].copy # unit[s].read
        <3>1. CanTransition(unit[s].read, unit[s].copy)
            BY <2>1, <2>2 DEF LogInv, UnitsAreLegal
        <3>2. unit[s].opp \in Opps /\ unit[s].read # Absent
            BY <2>1, StatusAssumption DEF Units
        <3> QED
            BY <1>2, <2>1, <2>2, <3>1, <3>2
            DEF Commit, StatusNext, Move, CanTransition
    <2> QED
        BY <1>2, <2>2 DEF Commit
<1> QED
    BY <1>1, <1>2, SessionCases
    DEF Next, PassExpiry, Load, Works, Rollback, vars

\* While copies are current the event a commit appends continues the log.
LEMMA CurrentEvents ==
    TypeOK /\ LogInv /\ CopiesAreCurrent /\ [Next]_vars => \A o \in Opps : Continues(o)
<1> SUFFICES ASSUME TypeOK, LogInv, CopiesAreCurrent, [Next]_vars, NEW o \in Opps
             PROVE  Continues(o)
    OBVIOUS
<1>1. ASSUME NEW p \in Opps, Insert(p) PROVE Continues(o)
    <2>1. CASE p = o
        <3>1. log[o] = <<>>
            BY <1>1, <2>1 DEF Insert, LogInv, LogExplainsStatus
        <3> QED
            BY <3>1 DEF Continues
    <2>2. CASE p # o
        <3>1. log'[o] = log[o]
            BY <1>1, <2>2 DEF Insert, TypeOK
        <3> QED
            BY <3>1 DEF Continues
    <2> QED
        BY <2>1, <2>2
<1>2. ASSUME NEW s \in Sessions, Commit(s) PROVE Continues(o)
    <2>1. unit[s] \in Units /\ unit[s] # Idle /\ status[unit[s].opp] = unit[s].read
        BY <1>2 DEF TypeOK, Commit, CopiesAreCurrent
    <2>2. CASE unit[s].copy = unit[s].read \/ unit[s].opp # o
        <3>1. log'[o] = log[o]
            BY <1>2, <2>2 DEF Commit, TypeOK
        <3> QED
            BY <3>1 DEF Continues
    <2>3. CASE unit[s].copy # unit[s].read /\ unit[s].opp = o
        <3> DEFINE e == Entry(unit[s].read, unit[s].copy)
        <3>1. log[o] \in Seq(Entries) /\ log'[o] = Append(log[o], e)
            BY <1>2, <2>3 DEF Commit, TypeOK
        <3>2. log'[o][Len(log[o]) + 1] = e /\ e.from = unit[s].read
            BY <3>1 DEF Entry
        <3>3. log[o][Len(log[o])].to = status[o]
            BY <2>1, <2>3, StatusAssumption DEF LogInv, LogExplainsStatus, Units
        <3> QED
            BY <2>1, <2>3, <3>2, <3>3 DEF Continues
    <2> QED
        BY <2>2, <2>3
<1>3. ASSUME UNCHANGED log PROVE Continues(o)
    BY <1>3 DEF Continues
<1> QED
    BY <1>1, <1>2, <1>3, SessionCases
    DEF Next, PassExpiry, Load, Works, Rollback, vars

\* Whatever sessions there are, the rows leave the lifecycle only by a step
\* taken while some session holds a copy that is out of date.
THEOREM CurrentTheorem == Spec => CurrentCopiesFollowLifecycle
<1>1. Init => LogInv
    BY DEF Init, StatusInit, LogInv, UnitsAreLegal, LogExplainsStatus, EntriesAreLegal
<1>2. TypeOK /\ TypeOK' /\ LogInv /\ [Next]_vars => LogInv'
    BY LogStep
<1>3. TypeOK /\ LogInv /\ [Next]_vars
        => [CopiesAreCurrent => [StatusNext]_status /\ \A o \in Opps : Continues(o)]_vars
    BY CurrentMoves, CurrentEvents
<1> QED
    BY <1>1, <1>2, <1>3, LifecycleTyping, PTL DEF Spec, CurrentCopiesFollowLifecycle

SerialInv == CopiesAreCurrent /\ LogInv /\ LogIsAHistory

\* With one session (or sessions that take turns, which is one as far as the
\* rows can tell), the events of a row are its history and its status walks
\* along legal moves.  Two sessions are enough to break both.
THEOREM SerialTheorem ==
    ASSUME \A s, t \in Sessions : s = t
    PROVE  Spec => []LogIsAHistory /\ FollowsLifecycle
<1>1. Init => SerialInv
    BY DEF Init, StatusInit, SerialInv, CopiesAreCurrent, LogInv, UnitsAreLegal,
           LogExplainsStatus, EntriesAreLegal, LogIsAHistory
<1>2. TypeOK /\ TypeOK' /\ LogInv' /\ SerialInv /\ [Next]_vars => SerialInv'
    <2> SUFFICES ASSUME TypeOK, TypeOK', LogInv', SerialInv, [Next]_vars
                 PROVE  CopiesAreCurrent' /\ LogIsAHistory'
        BY DEF SerialInv
    <2>a. ASSUME UNCHANGED <<status, log>>, CopiesAreCurrent'
          PROVE  CopiesAreCurrent' /\ LogIsAHistory'
        BY <2>a DEF SerialInv, LogIsAHistory
    <2>1. ASSUME NEW o \in Opps, Insert(o) PROVE CopiesAreCurrent' /\ LogIsAHistory'
        <3>1. CopiesAreCurrent'
            <4>1. ASSUME NEW s \in Sessions, unit[s] # Idle
                  PROVE  unit[s].opp # o /\ unit[s].opp \in Opps
                <5>1. unit[s].read \in Statuses /\ unit[s].opp \in Opps
                    BY <4>1 DEF TypeOK, Units
                <5> QED
                    BY <2>1, <4>1, <5>1, StatusAssumption
                    DEF SerialInv, CopiesAreCurrent, Insert
            <4> QED
                BY <2>1, <4>1 DEF SerialInv, CopiesAreCurrent, Insert, TypeOK
        <3>2. PICK s \in EntryStatuses :
                  log' = [log EXCEPT ![o] =
                             IF s = "DISCOVERED" THEN <<Entry(Absent, s)>>
                             ELSE <<Entry(Absent, "DISCOVERED"), Entry("DISCOVERED", s)>>]
            BY <2>1 DEF Insert
        <3>3. \/ log'[o] = <<Entry(Absent, s)>>
              \/ log'[o] = <<Entry(Absent, "DISCOVERED"), Entry("DISCOVERED", s)>>
            BY <3>2 DEF TypeOK
        <3>4. LogIsAHistory'
            BY <3>2, <3>3 DEF SerialInv, LogIsAHistory, Entry, TypeOK
        <3> QED
            BY <3>1, <3>4
    <2>2. ASSUME NEW o \in Opps, PassExpiry(o) PROVE CopiesAreCurrent' /\ LogIsAHistory'
        BY <2>2, <2>a DEF SerialInv, CopiesAreCurrent, PassExpiry
    <2>3. ASSUME NEW s \in Sessions, NEW o \in Opps, Load(s, o)
          PROVE  CopiesAreCurrent' /\ LogIsAHistory'
        BY <2>3, <2>a DEF SerialInv, CopiesAreCurrent, Load, TypeOK
    <2>4. ASSUME NEW s \in Sessions, NEW t, Works(s, t)
          PROVE  CopiesAreCurrent' /\ LogIsAHistory'
        <3>1. /\ unit'[s].opp = unit[s].opp /\ unit'[s].read = unit[s].read
              /\ unit' = [unit EXCEPT ![s] = unit'[s]]
              /\ UNCHANGED <<status, log, due>>
            BY <2>4, WorksFacts
        <3>2. CopiesAreCurrent'
            BY <2>4, <3>1 DEF SerialInv, CopiesAreCurrent, TypeOK, Works
        <3> QED
            BY <2>a, <3>1, <3>2
    <2>5. ASSUME NEW s \in Sessions, Commit(s) PROVE CopiesAreCurrent' /\ LogIsAHistory'
        <3>1. unit[s] \in Units /\ unit[s] # Idle /\ status[unit[s].opp] = unit[s].read
            BY <2>5 DEF TypeOK, Commit, SerialInv, CopiesAreCurrent
        <3>2. \A t \in Sessions : unit'[t] = Idle
            BY <2>5 DEF Commit, TypeOK
        <3>3. CopiesAreCurrent'
            BY <3>2 DEF CopiesAreCurrent
        <3>4. CASE unit[s].copy = unit[s].read
            BY <2>5, <2>a, <3>3, <3>4 DEF Commit
        <3>5. CASE unit[s].copy # unit[s].read
            <4> DEFINE o == unit[s].opp
                       e == Entry(unit[s].read, unit[s].copy)
            <4>1. o \in Opps /\ log' = [log EXCEPT ![o] = Append(log[o], e)]
                BY <2>5, <3>1, <3>5 DEF Commit, Units
            <4>2. log[o] \in Seq(Entries) /\ status[o] \in Statuses
                BY <3>1, <4>1 DEF TypeOK, Units
            <4>3. log[o] # <<>> /\ log[o][Len(log[o])].to = unit[s].read
                BY <3>1, <4>1, <4>2, StatusAssumption DEF SerialInv, LogInv, LogExplainsStatus
            <4>4. /\ log'[o] = Append(log[o], e) /\ Len(log'[o]) = Len(log[o]) + 1
                  /\ log'[o][Len(log[o]) + 1] = e
                  /\ \A i \in 1..Len(log[o]) : log'[o][i] = log[o][i]
                BY <4>1, <4>2 DEF TypeOK
            <4>5. ASSUME NEW i \in 1..Len(log'[o]), i > 1
                  PROVE  log'[o][i].from = log'[o][i - 1].to
                <5>1. CASE i = Len(log[o]) + 1
                    BY <4>2, <4>3, <4>4, <4>5, <5>1 DEF Entry
                <5>2. CASE i # Len(log[o]) + 1
                    BY <4>1, <4>2, <4>4, <4>5, <5>2 DEF SerialInv, LogIsAHistory
                <5> QED
                    BY <5>1, <5>2
            <4>6. LogIsAHistory'
                BY <4>1, <4>5 DEF SerialInv, LogIsAHistory, TypeOK
            <4> QED
                BY <3>3, <4>6
        <3> QED
            BY <3>4, <3>5
    <2>6. ASSUME NEW s \in Sessions, Rollback(s) PROVE CopiesAreCurrent' /\ LogIsAHistory'
        BY <2>6, <2>a DEF SerialInv, CopiesAreCurrent, Rollback, TypeOK
    <2>7. CASE UNCHANGED vars
        BY <2>7, <2>a DEF SerialInv, CopiesAreCurrent, vars
    <2> QED
        BY <2>1, <2>2, <2>3, <2>4, <2>5, <2>6, <2>7, SessionCases DEF Next
<1>3. TypeOK /\ TypeOK' /\ LogInv /\ [Next]_vars => LogInv'
    BY LogStep
<1>4. TypeOK /\ SerialInv /\ [Next]_vars => [StatusNext]_status
    BY CurrentMoves DEF SerialInv
<1>5. Init => StatusInit
    BY DEF Init
<1>6. SerialInv => LogInv /\ LogIsAHistory
    BY DEF SerialInv
<1> QED
    BY <1>1, <1>2, <1>3, <1>4, <1>5, <1>6, LifecycleTyping, PTL
    DEF Spec, FollowsLifecycle, StatusSpec

=============================================================================
