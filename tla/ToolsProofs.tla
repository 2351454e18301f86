---------------------------- MODULE ToolsProofs ----------------------------
(***************************************************************************)
(* Theorems about Tools, for any tools, arguments, budgets, limits and     *)
(* numbers of calls.                                                       *)
(***************************************************************************)
EXTENDS Tools, FiniteSetTheorems, WellFoundedInduction, TLAPS

-----------------------------------------------------------------------------
(* What a tool's run can leave behind. *)

Ends == {"ok", "tool_not_found", "app_error", "exception"}

\* A run that answers has written once at most, one that does not has not.
Tidy(r) ==
    /\ r.end \in Ends
    /\ r.wrote = {} \/ (r.end = "ok" /\ \E w : r.wrote = {w})

LEMMA AnswersAreTidy ==
    /\ Tidy(Answer)
    /\ \A e \in Ends : Tidy(Refuse(e))
    /\ \A a, what : Tidy(Wrote(a, what))
    /\ \A a, what, s : Tidy([Wrote(a, what) EXCEPT !.status = s])
    BY DEF Tidy, Ends, Answer, Refuse, Wrote

\* The same of an opportunity that has to be looked up first.
LEMMA LookedUpIsTidy ==
    ASSUME NEW a, NEW results, \A r \in results : Tidy(r), NEW r \in IfPresent(a, results)
    PROVE  Tidy(r)
    BY AnswersAreTidy DEF IfPresent, Ends

\* Every registered tool is tidy.
LEMMA ResultsAreTidy ==
    ASSUME NEW n \in Registered, NEW a, NEW r \in Results(n, a)
    PROVE  Tidy(r)
<1> USE AnswersAreTidy, LookedUpIsTidy DEF Ends
<1>1. \A x \in SearchOpportunities(a) \union SearchUserProfile(a) \union SearchUserDocuments(a)
              \union GetPreviousOpportunities(a) : Tidy(x)
    BY DEF SearchOpportunities, SearchUserProfile, SearchUserDocuments, GetPreviousOpportunities
<1>2. \A x \in GetCompanyInformation(a) \union CheckEligibility(a) \union GenerateOutreach(a)
              \union CreateFollowUp(a) \union PrepareApplication(a) : Tidy(x)
    BY DEF GetCompanyInformation, CheckEligibility, GenerateOutreach, CreateFollowUp,
           PrepareApplication
<1>3. \A x \in SearchWeb(a) \union ResearchCompany(a) : Tidy(x)
    BY DEF SearchWeb, ResearchCompany, FetchEnds
<1>4. \A x \in ExtractDeadline(a) : Tidy(x)
    BY DEF ExtractDeadline
<1>5. \A x \in CalculateOpportunityScore(a) : Tidy(x)
    <2> SUFFICES ASSUME NEW x \in CalculateOpportunityScore(a) PROVE Tidy(x)
        OBVIOUS
    <2>1. \/ x \in {Refuse("tool_not_found"), Refuse("exception")}
          \/ \E s : x = [Wrote(a, "score") EXCEPT !.status = s]
        BY DEF CalculateOpportunityScore
    <2>2. CASE \E s : x = [Wrote(a, "score") EXCEPT !.status = s]
        BY <2>2 DEF Tidy, Wrote, Answer
    <2>3. CASE x \in {Refuse("tool_not_found"), Refuse("exception")}
        BY <2>3
    <2> QED
        BY <2>1, <2>2, <2>3
<1>6. \A x \in SaveOpportunity(a) : Tidy(x)
    <2> SUFFICES ASSUME NEW x \in SaveOpportunity(a) PROVE Tidy(x)
        OBVIOUS
    <2>1. \/ x \in {Refuse("app_error"), Wrote(a, "merge")}
          \/ \E s : x = [Wrote(a, "opportunity") EXCEPT !.status = s]
        BY DEF SaveOpportunity
    <2> QED
        BY <2>1
<1>7. \A x \in UpdateOpportunityStatus(a) : Tidy(x)
    BY DEF UpdateOpportunityStatus
<1> QED
    BY <1>1, <1>2, <1>3, <1>4, <1>5, <1>6, <1>7 DEF Results, Registered, Scope

-----------------------------------------------------------------------------
(* The trace and what it counts. *)

\* A row appended to the trace: the earlier ones stay.
LEMMA TraceGrows ==
    ASSUME trace \in Seq(RowType), NEW row \in RowType, trace' = Append(trace, row)
    PROVE  /\ trace' \in Seq(RowType)
           /\ DOMAIN trace' = DOMAIN trace \union {Len(trace) + 1}
           /\ Len(trace) + 1 \notin DOMAIN trace
           /\ \A i \in DOMAIN trace : trace'[i] = trace[i]
           /\ trace'[Len(trace) + 1] = row
<1>1. Len(trace) \in Nat /\ DOMAIN trace = 1 .. Len(trace)
    OBVIOUS
<1>2. DOMAIN trace' = 1 .. Len(trace) + 1
    OBVIOUS
<1> QED
    BY <1>1, <1>2

\* The answers of the names of S: finitely many, and one more with a row that
\* is one of them.
LEMMA AnswersAreFinite ==
    ASSUME trace \in Seq(RowType), NEW S
    PROVE  IsFiniteSet(Answers(S)) /\ Cardinality(Answers(S)) \in Nat
<1>1. DOMAIN trace = 1 .. Len(trace) /\ Len(trace) \in Nat
    OBVIOUS
<1>2. IsFiniteSet(DOMAIN trace) /\ Answers(S) \in SUBSET (DOMAIN trace)
    BY <1>1, FS_Interval DEF Answers
<1> QED
    BY <1>2, FS_Subset, FS_CardinalityType

LEMMA AnswersGrow ==
    ASSUME trace \in Seq(RowType), NEW row \in RowType, trace' = Append(trace, row), NEW S
    PROVE  Cardinality(Answers(S)')
             = IF row.status = "SUCCEEDED" /\ row.name \in S
               THEN Cardinality(Answers(S)) + 1 ELSE Cardinality(Answers(S))
<1> DEFINE next == Len(trace) + 1
<1>1. Answers(S)' = IF row.status = "SUCCEEDED" /\ row.name \in S
                    THEN Answers(S) \union {next} ELSE Answers(S)
    BY TraceGrows DEF Answers
<1>2. next \notin Answers(S)
    BY TraceGrows DEF Answers
<1>3. Cardinality(Answers(S) \union {next}) = Cardinality(Answers(S)) + 1
    BY <1>2, AnswersAreFinite, FS_AddElement
<1> QED
    BY <1>1, <1>3

-----------------------------------------------------------------------------
(* The invariants. *)

\* A call that runs was admitted under the budget, and nothing was charged
\* since: one call is made after the other, and none in a session that cannot
\* be used.
BooksInv ==
    /\ trace \in Seq(RowType) /\ made \in Nat /\ clock \in 0 .. LastTime
    /\ used \in Nat /\ perTool \in [Names -> Nat]
    /\ call # None => call \in CallType /\ session = "open"
    /\ call # None /\ call.status = "RUNNING" =>
        /\ call.name \in Registered /\ call.error = None
        /\ used < MaxTotal /\ perTool[call.name] < MaxCalls[call.name]
    /\ ChargesMatchTrace

\* What the session holds: as long as it can be used, a write has the row of its
\* call or belongs to the answer that waits for one, and a call that runs has
\* written nothing yet.
Explained(w) ==
    \/ \E i \in DOMAIN trace : trace[i].call = w.call /\ trace[i].status = "SUCCEEDED"
    \/ call # None /\ call.status = "SUCCEEDED" /\ w.call = made

WritesInv ==
    /\ session \in {"open", "committed"} => \A w \in writes : Explained(w)
    /\ \A w \in writes : /\ w.call \in Nat /\ w.call <= made
                         /\ call # None /\ call.status = "RUNNING" => w.call < made
    /\ \A v, w \in writes : v.call = w.call => v = w
    /\ stored.writes # {} => stored = [trace |-> trace, writes |-> writes]
    /\ stored.writes # {} => session = "committed"

ToolsInv == BooksInv /\ WritesInv

\* Who is owed a charge, and who is not.
LEMMA Balance ==
    ASSUME BooksInv, NEW S
    PROVE  /\ Unrecorded(S) \in {0, 1} /\ Cardinality(Answers(S)) \in Nat
           /\ call = None \/ call.status # "SUCCEEDED" => Unrecorded(S) = 0
           /\ Unrecorded(S)' \in {0, 1}
           /\ call' = None \/ call'.status # "SUCCEEDED" => Unrecorded(S)' = 0
    BY AnswersAreFinite DEF Unrecorded, BooksInv

\* No charge and no row, and the answer that waits still waits: the books match.
LEMMA ChargesStay ==
    ASSUME BooksInv, UNCHANGED <<trace, used, perTool>>, \A S : Unrecorded(S)' = Unrecorded(S),
           \/ session' = session
           \/ session = "open" /\ session' = "committed"
           \/ session = "broken" /\ session' = "rolledback"
    PROVE  ChargesMatchTrace'
<1>1. \A S : Answers(S)' = Answers(S)
    BY DEF Answers
<1> QED
    BY <1>1 DEF ChargesMatchTrace, BooksInv, Stands

\* A call that did not answer comes or goes, or changes its outcome.
LEMMA NothingCharged ==
    ASSUME BooksInv, UNCHANGED <<trace, used, perTool>>,
           call = None \/ call.status # "SUCCEEDED", call' = None \/ call'.status # "SUCCEEDED",
           \/ session' = session
           \/ session = "open" /\ session' = "committed"
           \/ session = "broken" /\ session' = "rolledback"
    PROVE  ChargesMatchTrace'
<1>1. \A S : Unrecorded(S)' = Unrecorded(S)
    BY Balance
<1> QED
    BY <1>1, ChargesStay

\* The answer is charged, to the run and to its tool.
LEMMA Charged ==
    ASSUME BooksInv, Running, Record(call.name), UNCHANGED <<session, trace>>,
           call' = [call EXCEPT !.status = "SUCCEEDED", !.error = None]
    PROVE  ChargesMatchTrace'
<1> DEFINE m == call.name
<1>1. /\ call \in CallType /\ m \in Names /\ session = "open" /\ session' = "open"
      /\ used < MaxTotal /\ perTool[m] < MaxCalls[m]
      /\ used \in Nat /\ perTool \in [Names -> Nat]
    BY DEF Running, BooksInv, CallType
<1>2. call' # None /\ call'.status = "SUCCEEDED" /\ call'.name = m
    <2>1. call' \in CallType
        BY <1>1 DEF CallType, CallStatuses, ErrorCodes
    <2> QED
        BY <1>1, <2>1, NoneAssumption DEF CallType
<1>3. \A S : /\ Unrecorded(S) = 0 /\ Unrecorded(S)' = IF m \in S THEN 1 ELSE 0
             /\ Answers(S)' = Answers(S) /\ Cardinality(Answers(S)) \in Nat
    <2>1. call.status # "SUCCEEDED"
        BY DEF Running
    <2> QED
        BY <1>2, <2>1, Balance DEF Unrecorded, Answers
<1>4. used' = used + 1 /\ perTool' = [perTool EXCEPT ![m] = @ + 1]
    BY DEF Record
<1>5. used' <= MaxTotal /\ Stands(used, Names)'
    <2>1. used = Cardinality(Answers(Names))
        BY <1>1, <1>3 DEF BooksInv, ChargesMatchTrace, Stands
    <2>2. used' = Cardinality(Answers(Names)) + 1 /\ used' <= MaxTotal
        BY <1>1, <1>4, <2>1, ToolsAssumption
    <2> QED
        BY <1>1, <1>3, <2>2 DEF Stands
<1>6. ASSUME NEW n \in Names
      PROVE  perTool'[n] <= MaxCalls[n] /\ Stands(perTool[n], {n})'
    <2>1. perTool[n] = Cardinality(Answers({n})) /\ perTool[n] <= MaxCalls[n]
        <3>1. Unrecorded({n}) = 0 /\ Cardinality(Answers({n})) \in Nat
            BY <1>3
        <3>2. perTool[n] = Cardinality(Answers({n})) + Unrecorded({n}) /\ perTool[n] <= MaxCalls[n]
            BY <1>1 DEF BooksInv, ChargesMatchTrace, Stands
        <3> QED
            BY <3>1, <3>2
    <2>2. perTool'[n] = IF n = m THEN perTool[n] + 1 ELSE perTool[n]
        BY <1>1, <1>4
    <2>3. perTool'[n] <= MaxCalls[n] /\ perTool[n] \in Nat
        BY <1>1, <2>1, <2>2, ToolsAssumption
    <2>4. perTool'[n] = Cardinality(Answers({n})) + (IF m \in {n} THEN 1 ELSE 0)
        BY <2>1, <2>2, <2>3
    <2> QED
        BY <1>1, <1>3, <2>3, <2>4 DEF Stands
<1> QED
    BY <1>5, <1>6 DEF ChargesMatchTrace

\* An outcome gets its row: an answer is on record instead of waiting.
LEMMA PutOnRecord ==
    ASSUME BooksInv, PersistRow
    PROVE  /\ trace' \in Seq(RowType) /\ ChargesMatchTrace'
           /\ \E row \in RowType :
                /\ trace' = Append(trace, row)
                /\ row.call = made /\ row.name = call.name /\ row.at = call.at
                /\ row.status = call.status /\ row.error = call.error
<1> DEFINE row == [call |-> made, name |-> call.name, at |-> call.at,
                   status |-> call.status, error |-> call.error]
<1>1. /\ call # None /\ call \in CallType /\ call.status \in CallStatuses
      /\ trace \in Seq(RowType) /\ made \in Nat
      /\ session = "open" /\ session' = "open" /\ call' = None /\ UNCHANGED <<used, perTool>>
    BY DEF PersistRow, Ended, BooksInv, CallType
<1>2. row \in RowType
    BY <1>1 DEF CallType, RowType
<1>3. trace' = Append(trace, row)
    BY DEF PersistRow
<1>4. /\ row.call = made /\ row.name = call.name /\ row.at = call.at
      /\ row.status = call.status /\ row.error = call.error
    OBVIOUS
<1> HIDE DEF row
<1>5. trace' \in Seq(RowType)
    BY <1>1, <1>2, <1>3, TraceGrows
<1>6. ASSUME NEW S
      PROVE  /\ Unrecorded(S)' = 0
             /\ Cardinality(Answers(S)') = Cardinality(Answers(S)) + Unrecorded(S)
             /\ Cardinality(Answers(S)) \in Nat
    <2>1. Unrecorded(S) = IF row.status = "SUCCEEDED" /\ row.name \in S THEN 1 ELSE 0
        BY <1>1, <1>4 DEF Unrecorded
    <2>2. Cardinality(Answers(S)')
            = IF row.status = "SUCCEEDED" /\ row.name \in S
              THEN Cardinality(Answers(S)) + 1 ELSE Cardinality(Answers(S))
        BY <1>1, <1>2, <1>3, AnswersGrow
    <2>3. Unrecorded(S)' = 0 /\ Cardinality(Answers(S)) \in Nat
        BY <1>1, Balance
    <2> QED
        BY <2>1, <2>2, <2>3
<1>7. ChargesMatchTrace'
    <2>1. used = Cardinality(Answers(Names)) + Unrecorded(Names) /\ used <= MaxTotal
        BY <1>1 DEF BooksInv, ChargesMatchTrace, Stands
    <2>2. \A n \in Names : /\ perTool[n] = Cardinality(Answers({n})) + Unrecorded({n})
                           /\ perTool[n] <= MaxCalls[n]
        BY <1>1 DEF BooksInv, ChargesMatchTrace, Stands
    <2>3. used' = Cardinality(Answers(Names)') + Unrecorded(Names)' /\ used' <= MaxTotal
        BY <1>1, <1>6, <2>1 DEF BooksInv
    <2>4. \A n \in Names :
            /\ perTool'[n] = Cardinality(Answers({n})') + Unrecorded({n})'
            /\ perTool'[n] <= MaxCalls[n]
        BY <1>1, <1>6, <2>2 DEF BooksInv
    <2> QED
        BY <1>1, <2>3, <2>4 DEF ChargesMatchTrace, Stands
<1> QED
    BY <1>2, <1>3, <1>4, <1>5, <1>7

\* A session that breaks is one charge ahead of its trace at most.
LEMMA ChargeIsLost ==
    ASSUME BooksInv, session = "open", session' = "broken", UNCHANGED <<trace, used, perTool>>
    PROVE  ChargesMatchTrace'
<1>1. \A S : /\ Answers(S)' = Answers(S) /\ Cardinality(Answers(S)) \in Nat
             /\ Unrecorded(S) \in {0, 1}
    BY Balance DEF Answers
<1>2. used <= MaxTotal /\ used - Cardinality(Answers(Names)) \in {0, 1}
    <2>1. used = Cardinality(Answers(Names)) + Unrecorded(Names) /\ used <= MaxTotal
        BY DEF BooksInv, ChargesMatchTrace, Stands
    <2> QED
        BY <1>1, <2>1
<1>3. ASSUME NEW n \in Names
      PROVE  perTool[n] <= MaxCalls[n] /\ perTool[n] - Cardinality(Answers({n})) \in {0, 1}
    <2>1. perTool[n] = Cardinality(Answers({n})) + Unrecorded({n}) /\ perTool[n] <= MaxCalls[n]
        BY DEF BooksInv, ChargesMatchTrace, Stands
    <2>2. Cardinality(Answers({n})) \in Nat /\ Unrecorded({n}) \in {0, 1}
        BY <1>1
    <2> QED
        BY <2>1, <2>2
<1> QED
    BY <1>1, <1>2, <1>3 DEF ChargesMatchTrace, Stands

-----------------------------------------------------------------------------
(* The steps. *)

\* A call begins: under way within the budget, or over.
LEMMA Beginning ==
    ASSUME ToolsInv, NEW n \in Names, NEW a \in Arguments[n],
           NEW st \in CallStatuses \union {"RUNNING"}, NEW error \in ErrorCodes,
           Begin(n, a, st, error), st # "SUCCEEDED",
           st = "RUNNING" => /\ n \in Registered /\ error = None
                             /\ used < MaxTotal /\ perTool[n] < MaxCalls[n]
    PROVE  ToolsInv'
<1>1. BooksInv /\ WritesInv
    BY DEF ToolsInv
<1>2. /\ session = "open" /\ call = None /\ made' = made + 1
      /\ call' = [name |-> n, args |-> a, at |-> clock, attempt |-> 1, status |-> st,
                  error |-> error]
      /\ UNCHANGED <<session, writes, trace, used, perTool, clock, stored>>
    BY DEF Begin
<1>3. call' \in CallType /\ call'.name = n /\ call'.status = st /\ call'.error = error
    BY <1>1, <1>2 DEF CallType, BooksInv
<1>4. BooksInv'
    <2>1. ChargesMatchTrace'
        BY <1>1, <1>2, <1>3, NothingCharged
    <2>2. made' \in Nat
        BY <1>1, <1>2 DEF BooksInv
    <2> QED
        BY <1>1, <1>2, <1>3, <2>1, <2>2 DEF BooksInv
<1>5. WritesInv'
    <2>1. \A w \in writes : w.call \in Nat /\ w.call <= made /\ made \in Nat
        BY <1>1 DEF WritesInv, BooksInv
    <2>2. \A w \in writes : w.call < made' /\ w.call <= made'
        BY <1>2, <2>1
    <2>3. \A w \in writes : \E i \in DOMAIN trace :
            trace[i].call = w.call /\ trace[i].status = "SUCCEEDED"
        BY <1>1, <1>2 DEF WritesInv, Explained
    <2> QED
        BY <1>1, <1>2, <2>1, <2>2, <2>3 DEF WritesInv, Explained
<1> QED
    BY <1>4, <1>5 DEF ToolsInv

LEMMA Admission ==
    ASSUME ToolsInv, NEW n \in Names, NEW a \in Arguments[n],
           InvokeUnknown(n, a) \/ InvokeRefused(n, a) \/ Invoke(n, a)
    PROVE  ToolsInv'
<1>1. BooksInv
    BY DEF ToolsInv
<1>2. CASE InvokeUnknown(n, a)
    <2>1. "FAILED" \in CallStatuses /\ "not_found" \in ErrorCodes
        BY DEF CallStatuses, ErrorCodes
    <2> QED
        BY <1>2, <2>1, Beginning DEF InvokeUnknown
<1>3. CASE InvokeRefused(n, a)
    <2> DEFINE st == IF Refusal(n, a) = "invalid_arguments" THEN "FAILED" ELSE "DENIED"
    <2>1. Refusal(n, a) \in ErrorCodes
        BY DEF Refusal, ErrorCodes
    <2>2. st \in CallStatuses /\ st \notin {"SUCCEEDED", "RUNNING"}
        BY DEF CallStatuses
    <2>3. Begin(n, a, st, Refusal(n, a))
        BY <1>3 DEF InvokeRefused
    <2> HIDE DEF st
    <2> QED
        BY <2>1, <2>2, <2>3, Beginning
<1>4. CASE Invoke(n, a)
    <2>1. used < MaxTotal /\ perTool[n] < MaxCalls[n]
        <3>1. MaxTotal \in Nat /\ MaxCalls[n] \in Nat /\ used \in Nat /\ perTool[n] \in Nat
            BY <1>1, ToolsAssumption DEF BooksInv
        <3>2. ~(used >= MaxTotal \/ perTool[n] >= MaxCalls[n])
            BY <1>4, NoneAssumption DEF Invoke, Refusal
        <3> QED
            BY <3>1, <3>2
    <2>2. None \in ErrorCodes
        BY DEF ErrorCodes
    <2> QED
        BY <1>4, <2>1, <2>2, Beginning DEF Invoke
<1> QED
    BY <1>2, <1>3, <1>4

\* An attempt that did not answer: the call is tried again, or is over.
LEMMA NoAnswer ==
    ASSUME ToolsInv, Running, call' \in CallType,
           call'.status = "RUNNING" => call'.name = call.name /\ call'.error = call.error,
           call'.status # "SUCCEEDED",
           UNCHANGED <<session, writes, trace, made, used, perTool, clock, stored>>
    PROVE  ToolsInv'
<1>1. BooksInv /\ WritesInv /\ call # None /\ session = "open" /\ call.status = "RUNNING"
    BY DEF ToolsInv, Running
<1>2. ChargesMatchTrace'
    BY <1>1, NothingCharged
<1>3. BooksInv'
    BY <1>1, <1>2 DEF BooksInv
<1>4. WritesInv'
    <2>1. \A w \in writes : Explained(w)'
        BY <1>1 DEF WritesInv, Explained
    <2>2. \A w \in writes : w.call \in Nat /\ w.call <= made /\ w.call < made
        BY <1>1 DEF WritesInv
    <2> QED
        BY <1>1, <2>1, <2>2 DEF WritesInv
<1> QED
    BY <1>3, <1>4 DEF ToolsInv

\* A failed attempt writes nothing.
LEMMA Failing == ToolsInv /\ (Fail \/ TimesOut) => ToolsInv'
<1> SUFFICES ASSUME ToolsInv, Fail \/ TimesOut PROVE ToolsInv'
    OBVIOUS
<1>1. /\ Running /\ call \in CallType /\ call.name \in Registered /\ call.status = "RUNNING"
      /\ UNCHANGED <<session, trace, made, used, perTool, clock, stored>>
    BY DEF Fail, FailBefore, TimesOut, Running, ToolsInv, BooksInv
<1>2. ASSUME NEW st \in CallStatuses, NEW error \in ErrorCodes, End(st, error), st # "SUCCEEDED",
             writes' = writes
      PROVE  ToolsInv'
    <2>1. call' \in CallType /\ call'.status = st
        BY <1>1, <1>2 DEF End, CallType
    <2>2. st # "RUNNING"
        BY DEF CallStatuses
    <2> QED
        BY <1>1, <1>2, <2>1, <2>2, NoAnswer
<1>3. CASE TimesOut
    BY <1>2, <1>3 DEF TimesOut, CallStatuses, ErrorCodes
<1>4. CASE Fail
    <2>1. PICK r \in Results(call.name, call.args) :
            /\ r.end # "ok" /\ Write(call.name, r.wrote)
            /\ IF r.end = "app_error" /\ call.attempt < MaxRetries[call.name] + 1
               THEN call' = [call EXCEPT !.attempt = @ + 1]
               ELSE End("FAILED", ErrorCode(r.end))
        BY <1>4 DEF Fail, FailBefore
    <2>2. r.wrote = {} /\ r.end \in Ends \ {"ok"}
        BY <1>1, <2>1, ResultsAreTidy DEF Tidy
    <2>3. writes' = writes
        BY <2>1, <2>2 DEF Write
    <2>4. CASE call' = [call EXCEPT !.attempt = @ + 1]
        <3>1. /\ call' \in CallType /\ call'.name = call.name /\ call'.error = call.error
              /\ call'.status = "RUNNING"
            BY <1>1, <2>4 DEF CallType
        <3> QED
            BY <1>1, <2>3, <3>1, NoAnswer
    <2>5. CASE End("FAILED", ErrorCode(r.end))
        <3>1. ErrorCode(r.end) \in ErrorCodes
            BY <2>2 DEF ErrorCode, Ends, ErrorCodes
        <3> QED
            BY <1>2, <2>3, <2>5, <3>1 DEF CallStatuses
    <2> QED
        BY <2>1, <2>4, <2>5
<1> QED
    BY <1>3, <1>4

\* An answer: one charge, one write at most.
LEMMA Answered == ToolsInv /\ Succeed => ToolsInv'
<1> SUFFICES ASSUME ToolsInv, Succeed PROVE ToolsInv'
    OBVIOUS
<1>1. BooksInv /\ WritesInv
    BY DEF ToolsInv
<1>2. /\ Running /\ call # None /\ session = "open" /\ call.status = "RUNNING"
      /\ call \in CallType /\ call.name \in Registered /\ Record(call.name)
      /\ call' = [call EXCEPT !.status = "SUCCEEDED", !.error = None]
      /\ UNCHANGED <<session, trace, made, events, clock, stored>>
    BY <1>1 DEF Succeed, Running, BooksInv, End
<1>3. call' \in CallType /\ call'.status = "SUCCEEDED"
    BY <1>2 DEF CallType, CallStatuses, ErrorCodes
<1>4. call' # None
    BY <1>3, NoneAssumption
<1>5. PICK r \in Results(call.name, call.args) : Write(call.name, r.wrote)
    BY DEF Succeed
<1>6. r.wrote = {} \/ \E w : r.wrote = {w}
    BY <1>2, ResultsAreTidy DEF Tidy
<1>7. writes' = writes \/ \E w : w.call = made /\ writes' = writes \union {w}
    <2>1. CASE r.wrote = {}
        BY <1>5, <2>1 DEF Write
    <2>2. CASE \E w : r.wrote = {w}
        <3>1. PICK w : r.wrote = {w}
            BY <2>2
        <3>2. writes' = writes \union
                {[call |-> made, name |-> call.name, opp |-> w.opp, what |-> w.what]}
            BY <1>5, <3>1 DEF Write
        <3> QED
            BY <3>2
    <2> QED
        BY <1>6, <2>1, <2>2
<1>8. BooksInv'
    <2>1. ChargesMatchTrace'
        BY <1>1, <1>2, Charged
    <2>2. used' \in Nat /\ perTool' \in [Names -> Nat]
        <3>1. call.name \in Names /\ used \in Nat /\ perTool \in [Names -> Nat]
            BY <1>1, <1>2 DEF BooksInv, CallType
        <3>2. used' = used + 1 /\ perTool' = [perTool EXCEPT ![call.name] = @ + 1]
            BY <1>2 DEF Record
        <3> QED
            BY <3>1, <3>2
    <2> QED
        BY <1>1, <1>2, <1>3, <2>1, <2>2 DEF BooksInv
<1>9. \A w \in writes : w.call \in Nat /\ w.call < made /\ Explained(w)'
    BY <1>1, <1>2 DEF WritesInv, Explained
<1>10. \A w : w.call = made => Explained(w)'
    BY <1>2, <1>3, <1>4 DEF Explained
<1>11. made \in Nat /\ stored.writes = {}
    BY <1>1, <1>2 DEF WritesInv, BooksInv
<1>12. WritesInv'
    BY <1>1, <1>2, <1>3, <1>7, <1>9, <1>10, <1>11 DEF WritesInv
<1> QED
    BY <1>8, <1>12 DEF ToolsInv

\* The row of an answer explains what the answer wrote.
LEMMA Persisted == ToolsInv /\ PersistRow => ToolsInv'
<1> SUFFICES ASSUME ToolsInv, PersistRow PROVE ToolsInv'
    OBVIOUS
<1>1. BooksInv /\ WritesInv
    BY DEF ToolsInv
<1>2. /\ call # None /\ call' = None /\ session = "open"
      /\ UNCHANGED <<session, writes, made, used, perTool, clock, stored>>
    BY DEF PersistRow, Ended
<1>3. PICK row \in RowType :
        /\ trace' = Append(trace, row) /\ row.call = made /\ row.status = call.status
    BY <1>1, PutOnRecord
<1>4. BooksInv'
    BY <1>1, <1>2, PutOnRecord DEF BooksInv
<1>5. \A w \in writes : Explained(w)'
    <2>1. /\ \A i \in DOMAIN trace : i \in DOMAIN trace' /\ trace'[i] = trace[i]
          /\ Len(trace) + 1 \in DOMAIN trace' /\ trace'[Len(trace) + 1] = row
        BY <1>1, <1>3, TraceGrows DEF BooksInv
    <2> QED
        BY <1>1, <1>2, <1>3, <2>1 DEF WritesInv, Explained
<1>6. WritesInv'
    BY <1>1, <1>2, <1>5 DEF WritesInv
<1> QED
    BY <1>4, <1>6 DEF ToolsInv

LEMMA InitHolds == Init => ToolsInv
<1> SUFFICES ASSUME Init PROVE ToolsInv
    OBVIOUS
<1>1. trace = <<>> /\ used = 0 /\ perTool = [n \in Names |-> 0] /\ call = None /\ session = "open"
    BY DEF Init
<1>2. \A S : Answers(S) = {}
    BY <1>1 DEF Answers
<1>3. ChargesMatchTrace
    <2>1. \A S : Cardinality(Answers(S)) = 0 /\ Unrecorded(S) = 0
        BY <1>1, <1>2, FS_EmptySet DEF Unrecorded
    <2>2. MaxTotal \in Nat /\ \A n \in Names : MaxCalls[n] \in Nat
        BY ToolsAssumption
    <2>3. \A n \in Names : perTool[n] = 0
        BY <1>1
    <2> QED
        BY <1>1, <2>1, <2>2, <2>3 DEF ChargesMatchTrace, Stands
<1>4. BooksInv
    BY <1>1, <1>3, ToolsAssumption DEF Init, BooksInv
<1>5. WritesInv
    BY DEF Init, WritesInv, Explained
<1> QED
    BY <1>4, <1>5 DEF ToolsInv

LEMMA Invariance == ToolsInv /\ [Next]_vars => ToolsInv'
<1> SUFFICES ASSUME ToolsInv, [Next]_vars PROVE ToolsInv'
    OBVIOUS
<1>1. BooksInv /\ WritesInv
    BY DEF ToolsInv
<1>2. CASE SessionBreaks \/ PersistFails
    <2>1. /\ session = "open" /\ session' = "broken" /\ call' = None
          /\ UNCHANGED <<writes, trace, made, used, perTool, clock, stored>>
        BY <1>2 DEF SessionBreaks, PersistFails, Running, Ended
    <2>2. ChargesMatchTrace'
        BY <1>1, <2>1, ChargeIsLost
    <2> QED
        BY <1>1, <2>1, <2>2 DEF ToolsInv, BooksInv, WritesInv
<1>3. CASE Commit
    <2>1. /\ stored' = [trace |-> trace, writes |-> writes] /\ call = None /\ call' = None
          /\ session = "open" /\ session' = "committed"
          /\ UNCHANGED <<trace, writes, made, used, perTool, clock>>
        BY <1>3 DEF Commit
    <2>2. ChargesMatchTrace'
        BY <1>1, <2>1, NothingCharged
    <2> QED
        BY <1>1, <2>1, <2>2 DEF ToolsInv, BooksInv, WritesInv, Explained
<1>4. CASE RollBack
    <2>1. ChargesMatchTrace'
        BY <1>1, <1>4, ChargesStay DEF RollBack, Unrecorded
    <2> QED
        BY <1>1, <1>4, <2>1 DEF RollBack, ToolsInv, BooksInv, WritesInv
<1>5. CASE Tick
    <2>1. clock' \in 0 .. LastTime
        BY <1>1, <1>5, ToolsAssumption DEF Tick, BooksInv
    <2>2. ChargesMatchTrace'
        BY <1>1, <1>5, ChargesStay DEF Tick, Unrecorded
    <2> QED
        BY <1>1, <1>5, <2>1, <2>2 DEF Tick, ToolsInv, BooksInv, WritesInv, Explained
<1>6. CASE UNCHANGED vars
    <2>1. ChargesMatchTrace'
        BY <1>1, <1>6, ChargesStay DEF vars, toolVars, Unrecorded
    <2> QED
        BY <1>1, <1>6, <2>1 DEF vars, toolVars, ToolsInv, BooksInv, WritesInv, Explained
<1> QED
    BY <1>2, <1>3, <1>4, <1>5, <1>6, Admission, Failing, Answered, Persisted DEF Next

\* The charges of the run and of each tool stand for answers of the trace,
\* exactly so in a run that is committed, and stay within what they were given.
THEOREM ChargesTheorem == Spec => []ChargesMatchTrace
<1>1. ToolsInv => ChargesMatchTrace
    BY DEF ToolsInv, BooksInv
<1> QED
    BY <1>1, InitHolds, Invariance, PTL DEF Spec

\* A write that reached the database has the row of its call beside it, and no
\* call wrote twice, whatever failed and was tried again in between.
THEOREM WritesTheorem == Spec => []TraceExplainsWrites
<1>1. ToolsInv => TraceExplainsWrites
    <2> SUFFICES ASSUME ToolsInv PROVE TraceExplainsWrites
        OBVIOUS
    <2>1. BooksInv /\ WritesInv
        BY DEF ToolsInv
    <2>2. CASE stored.writes = {}
        BY <2>2 DEF TraceExplainsWrites
    <2>3. CASE stored.writes # {}
        <3>1. stored.writes = writes /\ stored.trace = trace /\ session = "committed"
            BY <2>1, <2>3 DEF WritesInv
        <3>2. call = None
            BY <2>1, <3>1 DEF BooksInv
        <3> QED
            BY <2>1, <3>1, <3>2 DEF WritesInv, Explained, TraceExplainsWrites
    <2> QED
        BY <2>2, <2>3
<1> QED
    BY <1>1, InitHolds, Invariance, PTL DEF Spec
-----------------------------------------------------------------------------
(* The rate limiter's events. *)

\* A non-empty family of finite sets has one that no other is part of.
LEMMA Smallest ==
    ASSUME NEW S, NEW family, family \subseteq FiniteSubsetsOf(S), family # {}
    PROVE  \E m \in family : \A k \in family : k \subseteq m => k = m
<1>1. IsWellFoundedOn(StrictSubsetOrdering(S), FiniteSubsetsOf(S))
    BY FS_StrictSubsetOrderingWellFounded
<1>2. PICK m \in family : \A k \in family : ~(<<k, m>> \in StrictSubsetOrdering(S))
    BY <1>1, WFMin
<1> QED
    BY <1>2 DEF StrictSubsetOrdering, FiniteSubsetsOf

\* Min is what its name says.
LEMMA MinIsLeast ==
    ASSUME NEW S, S \subseteq Nat, S # {}
    PROVE  Min(S) \in S /\ \A k \in S : Min(S) <= k
<1> DEFINE family == {0 .. k : k \in S}
<1>1. family \subseteq FiniteSubsetsOf(Nat) /\ family # {}
    <2>1. \A k \in S : IsFiniteSet(0 .. k) /\ (0 .. k) \subseteq Nat
        BY FS_Interval
    <2> QED
        BY <2>1 DEF FiniteSubsetsOf
<1>2. \A k \in S : (0 .. k) \in family
    OBVIOUS
<1>3. \A t \in family : \E m \in S : t = 0 .. m
    OBVIOUS
<1> HIDE DEF family
<1>4. PICK t \in family : \A u \in family : u \subseteq t => u = t
    BY <1>1, Smallest
<1>5. PICK m \in S : t = 0 .. m
    BY <1>3
<1>6. ASSUME NEW k \in S PROVE m <= k
    <2>1. CASE k < m
        <3>1. (0 .. k) \subseteq 0 .. m
            BY <2>1
        <3>2. 0 .. k = 0 .. m
            BY <1>2, <1>4, <1>5, <3>1
        <3> QED
            BY <2>1, <3>2
    <2> QED
        BY <2>1
<1> QED
    BY <1>6 DEF Min

LEMMA ElementsOf ==
    ASSUME NEW T, NEW seq \in Seq(T)
    PROVE  \A i \in 1 .. Len(seq) : seq[i] \in T
    OBVIOUS

\* The events no older than u.
Late(es, u) == {j \in DOMAIN es : es[j] >= u}

LEMMA LateIsFinite ==
    ASSUME NEW es \in Seq(0 .. LastTime), NEW u \in Int
    PROVE  /\ IsFiniteSet(Late(es, u)) /\ Cardinality(Late(es, u)) \in Nat
           /\ Cardinality(Late(es, u)) <= Len(es)
<1>1. DOMAIN es = 1 .. Len(es) /\ Len(es) \in Nat
    OBVIOUS
<1>2. IsFiniteSet(1 .. Len(es)) /\ Cardinality(1 .. Len(es)) = Len(es)
    BY <1>1, FS_Interval
<1>3. Late(es, u) \in SUBSET (1 .. Len(es))
    BY <1>1 DEF Late
<1>4. IsFiniteSet(Late(es, u)) /\ Cardinality(Late(es, u)) <= Cardinality(1 .. Len(es))
    BY <1>2, <1>3, FS_Subset
<1> QED
    BY <1>2, <1>4, FS_CardinalityType

\* What is popped from the left is older than the start: nothing later is lost.
LEMMA SinceKeepsLate ==
    ASSUME NEW es \in Seq(0 .. LastTime), NEW start \in Int, NEW u \in Int, u >= start
    PROVE  /\ Since(es, start) \in Seq(0 .. LastTime)
           /\ Cardinality(Late(es, u)) <= Cardinality(Late(Since(es, start), u))
<1>1. DOMAIN es = 1 .. Len(es) /\ Len(es) \in Nat /\ \A i \in DOMAIN es : es[i] \in 0 .. LastTime
    <2>1. DOMAIN es = 1 .. Len(es) /\ Len(es) \in Nat
        OBVIOUS
    <2>2. \A i \in 1 .. Len(es) : es[i] \in 0 .. LastTime
        BY ElementsOf
    <2> QED
        BY <2>1, <2>2
<1> DEFINE left == {i \in DOMAIN es : es[i] >= start}
<1>2. CASE left = {}
    <2>1. Since(es, start) = <<>>
        BY <1>2 DEF Since
    <2>2. Late(es, u) = {}
        BY <1>1, <1>2, ToolsAssumption DEF Late
    <2>3. Late(<<>>, u) = {}
        BY DEF Late
    <2>4. Since(es, start) \in Seq(0 .. LastTime)
        BY <2>1
    <2>5. Cardinality(Late(es, u)) = 0 /\ Cardinality(Late(Since(es, start), u)) = 0
        BY <2>1, <2>2, <2>3, FS_EmptySet
    <2> QED
        BY <2>4, <2>5
<1>3. CASE left # {}
    <2> DEFINE m == Min(left)
               rest == SubSeq(es, m, Len(es))
               shift == [j \in Late(es, u) |-> j - m + 1]
    <2>1. left \subseteq Nat
        BY <1>1
    <2>2. m \in left /\ \A k \in left : m <= k
        BY <1>3, <2>1, MinIsLeast
    <2>3. Since(es, start) = rest
        BY <1>3 DEF Since
    <2> HIDE DEF m
    <2>4. m \in 1 .. Len(es)
        BY <1>1, <2>2
    <2>5. /\ rest \in Seq(0 .. LastTime) /\ DOMAIN rest = 1 .. Len(es) - m + 1
          /\ \A i \in DOMAIN rest : rest[i] = es[i + m - 1]
        BY <1>1, <2>4
    <2> HIDE DEF rest
    <2>6. ASSUME NEW j \in Late(es, u) PROVE j \in Int /\ j - m + 1 \in Late(rest, u)
        <3>1. j \in 1 .. Len(es) /\ es[j] >= u /\ es[j] \in Int
            BY <1>1, ToolsAssumption DEF Late
        <3>2. j \in left
            BY <1>1, <3>1
        <3>3. m <= j
            BY <2>2, <3>2
        <3>4. j - m + 1 \in DOMAIN rest
            BY <1>1, <2>4, <2>5, <3>1, <3>3
        <3>5. rest[j - m + 1] = es[j]
            <4>1. rest[j - m + 1] = es[(j - m + 1) + m - 1]
                BY <2>5, <3>4
            <4>2. (j - m + 1) + m - 1 = j
                BY <2>4, <3>1
            <4> QED
                BY <4>1, <4>2
        <3> QED
            BY <3>1, <3>4, <3>5 DEF Late
    <2>7. shift \in Injection(Late(es, u), Late(rest, u))
        <3>1. shift \in [Late(es, u) -> Late(rest, u)]
            BY <2>6
        <3>2. \A j, k \in Late(es, u) : shift[j] = shift[k] => j = k
            BY <2>4, <2>6
        <3> QED
            BY <3>1, <3>2 DEF Injection, IsInjective
    <2>8. IsFiniteSet(Late(rest, u))
        BY <2>5, LateIsFinite
    <2>9. Cardinality(Late(es, u)) <= Cardinality(Late(rest, u))
        BY <2>7, <2>8, FS_Injection
    <2> QED
        BY <2>3, <2>5, <2>9
<1> QED
    BY <1>2, <1>3

\* One more event, counted if it is late.
LEMMA LateGrows ==
    ASSUME NEW es \in Seq(0 .. LastTime), NEW c \in 0 .. LastTime, NEW u \in Int
    PROVE  /\ Append(es, c) \in Seq(0 .. LastTime)
           /\ Cardinality(Late(Append(es, c), u))
                = IF c >= u THEN Cardinality(Late(es, u)) + 1 ELSE Cardinality(Late(es, u))
<1> DEFINE next == Len(es) + 1
<1>1. /\ Len(es) \in Nat /\ DOMAIN es = 1 .. Len(es) /\ Append(es, c) \in Seq(0 .. LastTime)
      /\ DOMAIN Append(es, c) = DOMAIN es \union {next} /\ next \notin DOMAIN es
      /\ \A i \in DOMAIN es : Append(es, c)[i] = es[i]
      /\ Append(es, c)[next] = c
    <2>1. Len(es) \in Nat /\ DOMAIN es = 1 .. Len(es)
        OBVIOUS
    <2> QED
        BY <2>1
<1>2. Late(Append(es, c), u) = IF c >= u THEN Late(es, u) \union {next} ELSE Late(es, u)
    BY <1>1 DEF Late
<1>3. next \notin Late(es, u)
    BY <1>1 DEF Late
<1>4. Cardinality(Late(es, u) \union {next}) = Cardinality(Late(es, u)) + 1
    BY <1>3, LateIsFinite, FS_AddElement
<1> QED
    BY <1>1, <1>2, <1>4
-----------------------------------------------------------------------------
(* The rate limit. *)

\* The calls of n on record, and the one that has no row yet, that took a slot
\* at u or later.
Counts(row, n) == row.name = n /\ row.error \notin {"budget_exhausted", "rate_limited"}
Recorded(n, u) == {i \in Admitted(n) : trace[i].at >= u}
Pending(n, u) == IF call # None /\ Counts(call, n) /\ call.at >= u THEN 1 ELSE 0

\* Each has its event in the window, and the call under way was let in by a
\* window that was not full.
LimiterInv ==
    /\ events \in [Names -> Seq(0 .. LastTime)]
    /\ \A n \in Names \intersect Registered, u \in Int : u >= clock - Window =>
        Cardinality(Recorded(n, u)) + Pending(n, u) <= Cardinality(Late(events[n], u))
    /\ call # None /\ call.name \in Registered /\ Counts(call, call.name) =>
        Cardinality(Recorded(call.name, call.at - Window)) < RateLimit[call.name]
    /\ WindowHolds

LEMMA RecordedIsFinite ==
    ASSUME trace \in Seq(RowType), NEW n, NEW u \in Int
    PROVE  /\ IsFiniteSet(Recorded(n, u)) /\ Cardinality(Recorded(n, u)) \in Nat
           /\ \A S \in SUBSET Recorded(n, u) :
                IsFiniteSet(S) /\ Cardinality(S) \in Nat
                /\ Cardinality(S) <= Cardinality(Recorded(n, u))
<1>1. DOMAIN trace = 1 .. Len(trace) /\ Len(trace) \in Nat
    OBVIOUS
<1>2. IsFiniteSet(DOMAIN trace)
    BY <1>1, FS_Interval
<1>3. Recorded(n, u) \in SUBSET (DOMAIN trace)
    BY DEF Recorded, Admitted
<1>4. IsFiniteSet(Recorded(n, u))
    BY <1>2, <1>3, FS_Subset
<1> QED
    BY <1>4, FS_Subset, FS_CardinalityType

\* One more row, counted if it took a slot.
LEMMA RecordedGrows ==
    ASSUME trace \in Seq(RowType), NEW row \in RowType, trace' = Append(trace, row),
           NEW n, NEW u \in Int
    PROVE  Cardinality(Recorded(n, u)')
             = IF Counts(row, n) /\ row.at >= u
               THEN Cardinality(Recorded(n, u)) + 1 ELSE Cardinality(Recorded(n, u))
<1> DEFINE next == Len(trace) + 1
<1>1. Recorded(n, u)' = IF Counts(row, n) /\ row.at >= u
                        THEN Recorded(n, u) \union {next} ELSE Recorded(n, u)
    BY TraceGrows DEF Recorded, Admitted, Counts
<1>2. next \notin Recorded(n, u)
    BY TraceGrows DEF Recorded, Admitted
<1>3. Cardinality(Recorded(n, u) \union {next}) = Cardinality(Recorded(n, u)) + 1
    BY <1>2, RecordedIsFinite, FS_AddElement
<1> QED
    BY <1>1, <1>3

LEMMA RecordedStays ==
    ASSUME UNCHANGED trace, NEW n, NEW u
    PROVE  Recorded(n, u)' = Recorded(n, u)
    BY DEF Recorded, Admitted

\* A row that took its slot while fewer calls than the limit were on record in
\* the window that ends with it, or took none, leaves every window in bounds.
LEMMA WindowKept ==
    ASSUME trace \in Seq(RowType), NEW row \in RowType, trace' = Append(trace, row), WindowHolds,
           row.name \in Registered /\ Counts(row, row.name) =>
                Cardinality(Recorded(row.name, row.at - Window)) < RateLimit[row.name]
    PROVE  WindowHolds'
<1> SUFFICES ASSUME NEW n \in Names \intersect Registered, NEW t \in 0 .. LastTime
             PROVE  Cardinality({i \in Admitted(n) :
                        t - Window <= trace[i].at /\ trace[i].at <= t}') <= RateLimit[n]
    BY DEF WindowHolds
<1> DEFINE old == {i \in Admitted(n) : t - Window <= trace[i].at /\ trace[i].at <= t}
           next == Len(trace) + 1
<1>1. Cardinality(old) <= RateLimit[n]
    BY DEF WindowHolds
<1>2. row.at \in Int /\ Window \in Int /\ t \in Int /\ RateLimit[n] \in Int
    BY ToolsAssumption DEF RowType
<1>3. \A i \in DOMAIN trace : trace[i].at \in Int
    <2>1. DOMAIN trace = 1 .. Len(trace)
        OBVIOUS
    <2>2. \A i \in 1 .. Len(trace) : trace[i] \in RowType
        BY ElementsOf
    <2>3. \A r \in RowType : r.at \in Int
        BY ToolsAssumption DEF RowType
    <2> QED
        BY <2>1, <2>2, <2>3
<1>4. old' = IF Counts(row, n) /\ t - Window <= row.at /\ row.at <= t
             THEN old \union {next} ELSE old
    BY TraceGrows DEF Admitted, Counts
<1>5. CASE Counts(row, n) /\ t - Window <= row.at /\ row.at <= t
    <2>1. row.name = n
        BY <1>5 DEF Counts
    <2>2. row.at - Window \in Int /\ old \in SUBSET Recorded(n, row.at - Window)
        BY <1>2, <1>3, <1>5 DEF Recorded, Admitted
    <2>3. /\ IsFiniteSet(old) /\ Cardinality(old) \in Nat
          /\ Cardinality(old) <= Cardinality(Recorded(n, row.at - Window))
          /\ Cardinality(Recorded(n, row.at - Window)) \in Nat
        BY <2>2, RecordedIsFinite
    <2>4. Cardinality(Recorded(n, row.at - Window)) < RateLimit[n]
        BY <1>5, <2>1
    <2>5. next \notin old
        BY TraceGrows DEF Admitted
    <2> HIDE DEF old
    <2>6. Cardinality(old \union {next}) = Cardinality(old) + 1
        BY <2>3, <2>5, FS_AddElement
    <2>7. old' = old \union {next}
        BY <1>4, <1>5
    <2>8. Cardinality(old') <= RateLimit[n]
        BY <1>2, <2>3, <2>4, <2>6, <2>7
    <2> QED
        BY <2>8 DEF old
<1>6. CASE ~(Counts(row, n) /\ t - Window <= row.at /\ row.at <= t)
    BY <1>1, <1>4, <1>6
<1> QED
    BY <1>5, <1>6
\* What is left of the window still has an event for every call, and a window
\* that is not full has room for one more.
LEMMA RoomInWindow ==
    ASSUME BooksInv, LimiterInv, NEW n \in Names \intersect Registered
    PROVE  /\ events[n] \in Seq(0 .. LastTime) /\ InWindow(n) \in Seq(0 .. LastTime)
           /\ \A u \in Int : u >= clock - Window =>
                /\ Cardinality(Recorded(n, u)) \in Nat
                /\ Cardinality(Late(events[n], u)) \in Nat
                /\ Cardinality(Late(InWindow(n), u)) \in Nat
                /\ Cardinality(Recorded(n, u)) + Pending(n, u) <= Cardinality(Late(InWindow(n), u))
           /\ ~WindowFull(n) => Cardinality(Recorded(n, clock - Window)) < RateLimit[n]
<1>1. /\ trace \in Seq(RowType) /\ clock \in Int /\ Window \in Int /\ clock - Window \in Int
      /\ RateLimit[n] \in Nat
    BY ToolsAssumption DEF BooksInv
<1>2. events[n] \in Seq(0 .. LastTime)
    BY DEF LimiterInv
<1>3. InWindow(n) \in Seq(0 .. LastTime)
    <2>1. clock - Window >= clock - Window
        BY <1>1
    <2> QED
        BY <1>1, <1>2, <2>1, SinceKeepsLate DEF InWindow
<1>4. ASSUME NEW u \in Int, u >= clock - Window
      PROVE  /\ Cardinality(Recorded(n, u)) \in Nat
             /\ Cardinality(Late(events[n], u)) \in Nat
             /\ Cardinality(Late(InWindow(n), u)) \in Nat
             /\ Cardinality(Recorded(n, u)) + Pending(n, u) <= Cardinality(Late(InWindow(n), u))
    <2>1. Cardinality(Recorded(n, u)) \in Nat
        BY <1>1, RecordedIsFinite
    <2>2. Cardinality(Late(events[n], u)) \in Nat /\ Cardinality(Late(InWindow(n), u)) \in Nat
        BY <1>2, <1>3, LateIsFinite
    <2>3. Cardinality(Late(events[n], u)) <= Cardinality(Late(InWindow(n), u))
        BY <1>1, <1>2, <1>4, SinceKeepsLate DEF InWindow
    <2>4. Cardinality(Recorded(n, u)) + Pending(n, u) <= Cardinality(Late(events[n], u))
        BY <1>4 DEF LimiterInv
    <2>5. Pending(n, u) \in Nat
        BY DEF Pending
    <2> QED
        BY <2>1, <2>2, <2>3, <2>4, <2>5
<1>5. ASSUME ~WindowFull(n) PROVE Cardinality(Recorded(n, clock - Window)) < RateLimit[n]
    <2>1. Len(InWindow(n)) \in Nat /\ Len(InWindow(n)) < RateLimit[n]
        BY <1>1, <1>3, <1>5 DEF WindowFull
    <2>2. Cardinality(Late(InWindow(n), clock - Window)) <= Len(InWindow(n))
        BY <1>1, <1>3, LateIsFinite
    <2>3. clock - Window >= clock - Window
        BY <1>1
    <2>4. /\ Cardinality(Recorded(n, clock - Window)) \in Nat
          /\ Cardinality(Late(InWindow(n), clock - Window)) \in Nat
          /\ Cardinality(Recorded(n, clock - Window)) + Pending(n, clock - Window)
                <= Cardinality(Late(InWindow(n), clock - Window))
        BY <1>1, <1>4, <2>3
    <2>5. Pending(n, clock - Window) \in Nat
        BY DEF Pending
    <2> QED
        BY <1>1, <2>1, <2>2, <2>4, <2>5
<1> QED
    BY <1>2, <1>3, <1>4, <1>5

\* The call gets its row: it is recorded instead of pending.
LEMMA RowIsLimited ==
    ASSUME BooksInv, LimiterInv, PersistRow
    PROVE  LimiterInv'
<1>1. /\ trace \in Seq(RowType) /\ call # None /\ call \in CallType /\ call' = None
      /\ UNCHANGED <<events, clock>>
    BY DEF PersistRow, Ended, BooksInv
<1>2. PICK row \in RowType :
        /\ trace' = Append(trace, row)
        /\ row.name = call.name /\ row.at = call.at /\ row.error = call.error
    BY PutOnRecord
<1>3. WindowHolds'
    BY <1>1, <1>2, WindowKept DEF LimiterInv, Counts
<1>4. ASSUME NEW n \in Names \intersect Registered, NEW u \in Int, u >= clock - Window
      PROVE  Cardinality(Recorded(n, u)') + Pending(n, u)' <= Cardinality(Late(events[n], u))
    <2>1. Cardinality(Recorded(n, u)) + Pending(n, u) <= Cardinality(Late(events[n], u))
        BY <1>4 DEF LimiterInv
    <2>2. Pending(n, u)' = 0 /\ Cardinality(Recorded(n, u)) \in Nat
        BY <1>1, RecordedIsFinite DEF Pending
    <2>3. Cardinality(Recorded(n, u)')
            = IF Counts(row, n) /\ row.at >= u
              THEN Cardinality(Recorded(n, u)) + 1 ELSE Cardinality(Recorded(n, u))
        BY <1>1, <1>2, RecordedGrows
    <2>4. Pending(n, u) = IF Counts(row, n) /\ row.at >= u THEN 1 ELSE 0
        BY <1>1, <1>2 DEF Pending, Counts
    <2>5. Cardinality(Recorded(n, u)') = Cardinality(Recorded(n, u)) + Pending(n, u)
        BY <2>2, <2>3, <2>4
    <2>6. Pending(n, u) \in Nat /\ Cardinality(Late(events[n], u)) \in Nat
        BY <1>1, <1>4, RoomInWindow DEF Pending
    <2>7. Cardinality(Recorded(n, u)') + Pending(n, u)' = Cardinality(Recorded(n, u)) + Pending(n, u)
        BY <2>2, <2>5, <2>6
    <2> QED
        BY <2>1, <2>7
<1> QED
    BY <1>1, <1>3, <1>4 DEF LimiterInv, Late

\* A call that took a slot as it began.
LEMMA SlotIsTaken ==
    ASSUME BooksInv, LimiterInv, call = None, NEW n \in Names \intersect Registered,
           ~WindowFull(n), events' = [events EXCEPT ![n] = Append(InWindow(n), clock)],
           UNCHANGED <<clock, trace>>, call'.name = n, call'.at = clock
    PROVE  LimiterInv'
<1>1. /\ trace \in Seq(RowType) /\ clock \in 0 .. LastTime /\ Window \in Int
      /\ clock \in Int /\ clock - Window \in Int
    BY ToolsAssumption DEF BooksInv
<1>2. events \in [Names -> Seq(0 .. LastTime)] /\ WindowHolds
    BY DEF LimiterInv
<1>3. InWindow(n) \in Seq(0 .. LastTime)
      /\ Cardinality(Recorded(n, clock - Window)) < RateLimit[n]
    BY RoomInWindow
<1>4. \A u \in Int :
        /\ Append(InWindow(n), clock) \in Seq(0 .. LastTime)
        /\ Cardinality(Late(Append(InWindow(n), clock), u))
            = IF clock >= u THEN Cardinality(Late(InWindow(n), u)) + 1
              ELSE Cardinality(Late(InWindow(n), u))
    BY <1>1, <1>3, LateGrows
<1>5. events' \in [Names -> Seq(0 .. LastTime)]
    BY <1>1, <1>2, <1>4
<1>6. /\ events'[n] = Append(InWindow(n), clock)
      /\ \A m \in Names \ {n} : events'[m] = events[m]
    BY <1>2
<1>7. ASSUME NEW m \in Names \intersect Registered, NEW u \in Int, u >= clock - Window
      PROVE  /\ Cardinality(Recorded(m, u)) \in Nat /\ Cardinality(Late(events[m], u)) \in Nat
             /\ Cardinality(Recorded(m, u)) + Pending(m, u) <= Cardinality(Late(events[m], u))
             /\ Pending(m, u) = 0
    BY <1>7, RoomInWindow DEF LimiterInv, Pending
<1>8. ASSUME NEW u \in Int, u >= clock - Window
      PROVE  /\ Cardinality(Late(events'[n], u)) \in Nat
             /\ Cardinality(Recorded(n, u)) + (IF clock >= u THEN 1 ELSE 0)
                    <= Cardinality(Late(events'[n], u))
    <2>1. /\ Cardinality(Recorded(n, u)) \in Nat /\ Cardinality(Late(InWindow(n), u)) \in Nat
          /\ Cardinality(Recorded(n, u)) + Pending(n, u) <= Cardinality(Late(InWindow(n), u))
        BY <1>8, RoomInWindow
    <2>2. Pending(n, u) = 0
        BY DEF Pending
    <2>3. Cardinality(Late(events'[n], u))
            = IF clock >= u THEN Cardinality(Late(InWindow(n), u)) + 1
              ELSE Cardinality(Late(InWindow(n), u))
        BY <1>4, <1>6
    <2> QED
        BY <1>1, <2>1, <2>2, <2>3
<1>9. \A m, u : Recorded(m, u)' = Recorded(m, u)
    BY RecordedStays
<1>10. WindowHolds'
    BY <1>2 DEF WindowHolds, Admitted
<1>11. \A m \in Names, u \in Int :
        Pending(m, u)' = 0 \/ (Pending(m, u)' = 1 /\ m = n /\ clock >= u)
    BY DEF Pending, Counts
<1>12. ASSUME NEW m \in Names \intersect Registered, NEW u \in Int, u >= clock - Window
       PROVE  Cardinality(Recorded(m, u)) + Pending(m, u)' <= Cardinality(Late(events'[m], u))
    <2>1. CASE m = n
        <3>1. Cardinality(Recorded(n, u)) \in Nat /\ clock \in Int
            BY <1>1, <1>7, <1>12
        <3>2. Pending(n, u)' = 0 \/ (Pending(n, u)' = 1 /\ clock >= u)
            BY <1>11
        <3> QED
            BY <1>8, <1>12, <2>1, <3>1, <3>2
    <2>2. CASE m # n
        BY <1>6, <1>7, <1>11, <1>12, <2>2
    <2> QED
        BY <2>1, <2>2
<1> QED
    BY <1>3, <1>5, <1>9, <1>10, <1>12 DEF LimiterInv, Late

\* A call that took none: the budget or the limit refused it, or nobody knows it.
LEMMA NoSlotIsTaken ==
    ASSUME BooksInv, LimiterInv, call = None, UNCHANGED <<clock, trace>>, NEW n \in Names,
           \/ UNCHANGED events
           \/ n \in Registered /\ events' = [events EXCEPT ![n] = InWindow(n)],
           call'.name = n,
           n \notin Registered \/ call'.error \in {"budget_exhausted", "rate_limited"}
    PROVE  LimiterInv'
<1>1. clock \in Int /\ Window \in Int /\ clock - Window \in Int
    BY ToolsAssumption DEF BooksInv
<1>2. events \in [Names -> Seq(0 .. LastTime)]
    BY DEF LimiterInv
<1>3. WindowHolds' /\ \A m, u : Recorded(m, u)' = Recorded(m, u)
    BY RecordedStays DEF LimiterInv, WindowHolds, Admitted
<1>4. events' \in [Names -> Seq(0 .. LastTime)]
    BY <1>2, RoomInWindow
<1>5. ASSUME NEW m \in Names \intersect Registered, NEW u \in Int, u >= clock - Window
      PROVE  Cardinality(Recorded(m, u)) + Pending(m, u)' <= Cardinality(Late(events'[m], u))
    <2>1. Pending(m, u) = 0 /\ Pending(m, u)' = 0
        BY DEF Pending, Counts
    <2>2. events'[m] \in {events[m], InWindow(m)}
        BY <1>2
    <2>3. /\ Cardinality(Recorded(m, u)) + Pending(m, u) <= Cardinality(Late(InWindow(m), u))
          /\ Cardinality(Recorded(m, u)) + Pending(m, u) <= Cardinality(Late(events[m], u))
        BY <1>5, RoomInWindow DEF LimiterInv
    <2> QED
        BY <2>1, <2>2, <2>3
<1>6. ~(call'.name \in Registered /\ Counts(call, call.name)')
    BY DEF Counts
<1> QED
    BY <1>3, <1>4, <1>5, <1>6 DEF LimiterInv, Late

\* Nothing is recorded: time passes, the call goes on or is lost.
LEMMA NothingRecorded ==
    ASSUME BooksInv, LimiterInv, UNCHANGED <<trace, events>>, clock' = clock \/ clock' = clock + 1,
           \/ call' = None
           \/ /\ call # None /\ call'.name = call.name /\ call'.at = call.at
              /\ Counts(call, call.name)' => Counts(call, call.name)
    PROVE  LimiterInv'
<1>1. clock \in Int /\ Window \in Int
    BY ToolsAssumption DEF BooksInv
<1>2. \A n, u : Recorded(n, u)' = Recorded(n, u)
    BY RecordedStays
<1>3. WindowHolds'
    BY DEF LimiterInv, WindowHolds, Admitted
<1>4. ASSUME NEW n \in Names \intersect Registered, NEW u \in Int, u >= clock' - Window
      PROVE  Cardinality(Recorded(n, u)) + Pending(n, u)' <= Cardinality(Late(events[n], u))
    <2>1. u >= clock - Window
        BY <1>1, <1>4
    <2>2. /\ Cardinality(Recorded(n, u)) \in Nat /\ Cardinality(Late(events[n], u)) \in Nat
          /\ Cardinality(Recorded(n, u)) + Pending(n, u) <= Cardinality(Late(events[n], u))
        BY <2>1, RoomInWindow DEF LimiterInv
    <2>3. Pending(n, u) \in Nat /\ Pending(n, u)' \in Nat /\ Pending(n, u)' <= Pending(n, u)
        BY DEF Pending, Counts
    <2> QED
        BY <2>2, <2>3
<1>5. call' # None /\ call'.name \in Registered /\ Counts(call, call.name)' =>
        Cardinality(Recorded(call'.name, call'.at - Window)) < RateLimit[call'.name]
    BY DEF LimiterInv
<1> QED
    BY <1>2, <1>3, <1>4, <1>5 DEF LimiterInv, Late

\* A call takes a slot as it begins unless the budget or the limit refuses it.
LEMMA AdmissionIsLimited ==
    ASSUME BooksInv, LimiterInv, NEW n \in Names, NEW a,
           InvokeUnknown(n, a) \/ InvokeRefused(n, a) \/ Invoke(n, a)
    PROVE  LimiterInv'
<1>1. call = None /\ UNCHANGED <<clock, trace>>
    BY DEF InvokeUnknown, InvokeRefused, Invoke, Begin
<1>2. CASE InvokeUnknown(n, a)
    <2>1. call'.name = n /\ n \notin Registered /\ UNCHANGED events
        BY <1>2 DEF InvokeUnknown, Begin
    <2> QED
        BY <1>1, <2>1, NoSlotIsTaken
<1>3. CASE InvokeRefused(n, a) \/ Invoke(n, a)
    <2> DEFINE why == Refusal(n, a)
    <2>1. /\ n \in Registered /\ Admit(n, why)
          /\ call'.name = n /\ call'.at = clock /\ call'.error = why
        BY <1>3 DEF InvokeRefused, Invoke, Begin
    <2>2. CASE why \in {"budget_exhausted", "rate_limited"}
        <3>1. events' = [events EXCEPT ![n] = InWindow(n)] \/ UNCHANGED events
            BY <2>1, <2>2 DEF Admit, LimiterInv
        <3> QED
            BY <1>1, <2>1, <2>2, <3>1, NoSlotIsTaken
    <2>3. CASE why \notin {"budget_exhausted", "rate_limited"}
        <3>1. events' = [events EXCEPT ![n] = Append(InWindow(n), clock)]
            BY <2>1, <2>3 DEF Admit
        <3>2. ~WindowFull(n)
            BY <2>3 DEF Refusal
        <3> QED
            BY <1>1, <2>1, <3>1, <3>2, SlotIsTaken
    <2> QED
        BY <2>2, <2>3
<1> QED
    BY <1>2, <1>3

\* A call that runs counts, and goes on counting when it is over.
LEMMA CallIsLimited ==
    ASSUME ToolsInv, LimiterInv, Succeed \/ Fail \/ TimesOut \/ SessionBreaks \/ PersistFails
    PROVE  LimiterInv'
<1>1. BooksInv /\ call # None /\ call \in CallType /\ UNCHANGED <<events, clock, trace>>
    BY DEF ToolsInv, BooksInv, Succeed, Fail, FailBefore, TimesOut, SessionBreaks, PersistFails,
           Running, Ended
<1>2. \/ call' = None
      \/ /\ Running /\ call'.name = call.name /\ call'.at = call.at
    BY <1>1 DEF Succeed, Fail, FailBefore, TimesOut, SessionBreaks, PersistFails, End, CallType
<1>3. Running => Counts(call, call.name)
    BY <1>1, NoneAssumption DEF Running, BooksInv, Counts
<1> QED
    BY <1>1, <1>2, <1>3, NothingRecorded

LEMMA LimitsHold == ToolsInv /\ LimiterInv /\ [Next]_vars => LimiterInv'
<1> SUFFICES ASSUME ToolsInv, LimiterInv, [Next]_vars PROVE LimiterInv'
    OBVIOUS
<1>1. BooksInv
    BY DEF ToolsInv
<1>2. ASSUME NEW n \in Names, NEW a \in Arguments[n],
             InvokeUnknown(n, a) \/ InvokeRefused(n, a) \/ Invoke(n, a)
      PROVE  LimiterInv'
    BY <1>1, <1>2, AdmissionIsLimited
<1>3. CASE Commit \/ RollBack \/ Tick \/ UNCHANGED vars
    <2>1. UNCHANGED <<trace, events, call>> /\ (clock' = clock \/ clock' = clock + 1)
        BY <1>3 DEF Commit, RollBack, Tick, vars, toolVars
    <2>2. Counts(call, call.name)' => Counts(call, call.name)
        BY <2>1 DEF Counts
    <2> QED
        BY <1>1, <2>1, <2>2, NothingRecorded
<1> QED
    BY <1>1, <1>2, <1>3, CallIsLimited, RowIsLimited DEF Next

LEMMA InitIsLimited == Init => LimiterInv
<1> SUFFICES ASSUME Init PROVE LimiterInv
    OBVIOUS
<1>1. trace = <<>> /\ call = None /\ events = [n \in Names |-> <<>>]
    BY DEF Init
<1>2. \A n : Admitted(n) = {}
    BY <1>1 DEF Admitted
<1>3. \A n, u : Recorded(n, u) = {} /\ Pending(n, u) = 0
    BY <1>1, <1>2 DEF Recorded, Pending
<1>4. \A n \in Names : \A u : Late(events[n], u) = {}
    BY <1>1 DEF Late
<1>5. WindowHolds
    <2>1. \A n, t : {i \in Admitted(n) : t - Window <= trace[i].at /\ trace[i].at <= t} = {}
        BY <1>2
    <2>2. \A n \in Names : RateLimit[n] \in Nat
        BY ToolsAssumption
    <2>3. \A n, t : Cardinality({i \in Admitted(n) :
                            t - Window <= trace[i].at /\ trace[i].at <= t}) = 0
        BY <2>1, FS_EmptySet
    <2> QED
        BY <2>2, <2>3 DEF WindowHolds
<1>6. \A n \in Names, u \in Int :
        Cardinality(Recorded(n, u)) = 0 /\ Cardinality(Late(events[n], u)) = 0
    BY <1>3, <1>4, FS_EmptySet
<1>7. \A n \in Names, u \in Int :
        Cardinality(Recorded(n, u)) + Pending(n, u) <= Cardinality(Late(events[n], u))
    BY <1>3, <1>6
<1>8. events \in [Names -> Seq(0 .. LastTime)]
    BY <1>1
<1> QED
    BY <1>1, <1>5, <1>7, <1>8 DEF LimiterInv

\* No stretch of time as long as the window, wherever it begins, has more calls
\* of a tool on record than the limit lets in: the calls of the past that still
\* matter all have their event, and a full window lets nobody in.
THEOREM WindowTheorem == Spec => []WindowHolds
<1>1. Init => ToolsInv /\ LimiterInv
    BY InitHolds, InitIsLimited
<1>2. ToolsInv /\ LimiterInv /\ [Next]_vars => (ToolsInv /\ LimiterInv)'
    BY Invariance, LimitsHold
<1>3. LimiterInv => WindowHolds
    BY DEF LimiterInv
<1> QED
    BY <1>1, <1>2, <1>3, PTL DEF Spec
-----------------------------------------------------------------------------
(* Types. *)

\* A run leaves every status alone, or gives one opportunity one that exists.
Leaves(r) ==
    \/ r.status = status
    \/ \E o \in Opps, s \in Statuses : r.status = [status EXCEPT ![o] = s]

LEMMA TransitionsAreStatuses ==
    ASSUME NEW s \in Statuses, NEW t, CanTransition(s, t)
    PROVE  t \in Statuses
<1>1. t \in Pipeline(s) \union Exits
    BY DEF CanTransition, AllowedTransitions
<1>2. Pipeline(s) \subseteq Statuses
    BY DEF Pipeline, Statuses, Exits
<1> QED
    BY <1>1, <1>2 DEF Statuses

LEMMA AnswersLeaveStatus ==
    /\ Leaves(Answer)
    /\ \A e : Leaves(Refuse(e))
    /\ \A a, what : Leaves(Wrote(a, what))
    /\ \A a, what, s : \A o \in Opps : s \in Statuses =>
        Leaves([Wrote(a, what) EXCEPT !.status = [status EXCEPT ![o] = s]])
    BY DEF Leaves, Answer, Refuse, Wrote

LEMMA LookedUpLeavesStatus ==
    ASSUME NEW a, NEW results, \A r \in results : Leaves(r), NEW r \in IfPresent(a, results)
    PROVE  Leaves(r)
    BY AnswersLeaveStatus DEF IfPresent

LEMMA ResultsLeaveStatus ==
    ASSUME status \in [Opps -> Statuses \union {Absent}],
           NEW n \in Registered, NEW a, NEW r \in Results(n, a)
    PROVE  Leaves(r)
<1> USE AnswersLeaveStatus, LookedUpLeavesStatus
<1>1. \A x \in SearchOpportunities(a) \union SearchUserProfile(a) \union SearchUserDocuments(a)
              \union GetPreviousOpportunities(a) : Leaves(x)
    BY DEF SearchOpportunities, SearchUserProfile, SearchUserDocuments, GetPreviousOpportunities
<1>2. \A x \in GetCompanyInformation(a) \union CheckEligibility(a) \union GenerateOutreach(a)
              \union CreateFollowUp(a) \union PrepareApplication(a) : Leaves(x)
    BY DEF GetCompanyInformation, CheckEligibility, GenerateOutreach, CreateFollowUp,
           PrepareApplication
<1>3. \A x \in SearchWeb(a) \union ResearchCompany(a) : Leaves(x)
    BY DEF SearchWeb, ResearchCompany
<1>4. \A x \in ExtractDeadline(a) : Leaves(x)
    BY DEF ExtractDeadline
<1>5. \A x \in CalculateOpportunityScore(a) : Leaves(x)
    <2> SUFFICES ASSUME NEW x \in CalculateOpportunityScore(a) PROVE Leaves(x)
        OBVIOUS
    <2>1. CASE ~Present(a.opp) \/ a.goal \notin OwnGoals \/ a.goal \in BadGoals
        BY <2>1 DEF CalculateOpportunityScore
    <2>2. CASE ~(~Present(a.opp) \/ a.goal \notin OwnGoals \/ a.goal \in BadGoals)
        <3>1. a.opp \in Opps /\ status[a.opp] \in Statuses
            BY <2>2 DEF Present
        <3>2. PICK s \in {t \in {"SCORED", "RECOMMENDED"} : CanTransition(status[a.opp], t)}
                         \union {status[a.opp]} :
                x = [Wrote(a, "score") EXCEPT !.status = [status EXCEPT ![a.opp] = s]]
            BY <2>2 DEF CalculateOpportunityScore
        <3>3. s \in Statuses
            BY <3>1, <3>2 DEF Statuses
        <3> QED
            BY <3>1, <3>2, <3>3
    <2> QED
        BY <2>1, <2>2
<1>6. \A x \in SaveOpportunity(a) : Leaves(x)
    <2> SUFFICES ASSUME NEW x \in SaveOpportunity(a) PROVE Leaves(x)
        OBVIOUS
    <2>1. CASE x \in {Refuse("app_error"), Wrote(a, "merge")}
        BY <2>1
    <2>2. CASE x \notin {Refuse("app_error"), Wrote(a, "merge")}
        <3>1. PICK s \in {"DISCOVERED", "DUPLICATE"} :
                x = [Wrote(a, "opportunity") EXCEPT !.status = [status EXCEPT ![a.opp] = s]]
            BY <2>2 DEF SaveOpportunity
        <3>2. CASE a.opp \in Opps
            BY <3>1, <3>2 DEF Statuses, Exits
        <3>3. CASE a.opp \notin Opps
            <4>1. [status EXCEPT ![a.opp] = s] = status
                BY <3>3
            <4>2. x.status = status
                BY <3>1, <4>1 DEF Wrote, Answer
            <4> QED
                BY <4>2 DEF Leaves
        <3> QED
            BY <3>2, <3>3
    <2> QED
        BY <2>1, <2>2
<1>7. \A x \in UpdateOpportunityStatus(a) : Leaves(x)
    <2> SUFFICES ASSUME NEW x \in UpdateOpportunityStatus(a) PROVE Leaves(x)
        OBVIOUS
    <2>1. CASE ~(Present(a.opp) /\ CanTransition(status[a.opp], a.to))
        <3>1. x \in {Answer, Refuse("app_error"), Refuse("tool_not_found")}
            BY <2>1 DEF UpdateOpportunityStatus, IfPresent
        <3> QED
            BY <3>1
    <2>2. CASE Present(a.opp) /\ CanTransition(status[a.opp], a.to)
        <3>1. a.opp \in Opps /\ status[a.opp] \in Statuses
            BY <2>2 DEF Present
        <3>2. a.to \in Statuses
            BY <2>2, <3>1, TransitionsAreStatuses
        <3>3. \/ x = Answer
              \/ x = [Wrote(a, "status") EXCEPT !.status = [status EXCEPT ![a.opp] = a.to]]
            BY <2>2 DEF UpdateOpportunityStatus, IfPresent
        <3> QED
            BY <3>1, <3>2, <3>3
    <2> QED
        BY <2>1, <2>2
<1> QED
    BY <1>1, <1>2, <1>3, <1>4, <1>5, <1>6, <1>7 DEF Results, Registered, Scope
\* The rest of the types: the database holds nothing of the session until it
\* is committed, and nothing moves after that.
SessionInv ==
    /\ status \in [Opps -> Statuses \union {Absent}]
    /\ session \in {"open", "broken", "committed", "rolledback"}
    /\ \A w \in writes : w.call \in 1 .. made /\ w.name \in Registered
    /\ made <= MaxInvocations
    /\ call # None => made >= 1 /\ call.attempt \in 1 .. MaxRetries[call.name] + 1
    /\ \/ stored = [trace |-> <<>>, writes |-> {}]
       \/ session = "committed" /\ stored = [trace |-> trace, writes |-> writes]

\* What an attempt that is over leaves of it.
LEMMA AttemptEnds ==
    ASSUME ToolsInv, SessionInv, Succeed \/ Fail
    PROVE  SessionInv'
<1>1. /\ call # None /\ session = "open" /\ UNCHANGED <<session, made, stored>>
    BY DEF Succeed, Fail, FailBefore, Running
<1>2. /\ made \in Nat /\ made >= 1 /\ call \in CallType /\ call.name \in Registered
      /\ call.attempt \in 1 .. MaxRetries[call.name] + 1 /\ MaxRetries[call.name] \in 0 .. 5
    BY <1>1, ToolsAssumption
    DEF Succeed, Fail, FailBefore, Running, ToolsInv, BooksInv, SessionInv, CallType
<1>3. PICK r \in Results(call.name, call.args) :
        /\ status' = r.status /\ Write(call.name, r.wrote)
        /\ \/ \E st, error : End(st, error)
           \/ call.attempt < MaxRetries[call.name] + 1 /\ call' = [call EXCEPT !.attempt = @ + 1]
    BY DEF Succeed, Fail, FailBefore
<1>4. status' \in [Opps -> Statuses \union {Absent}]
    <2>1. status \in [Opps -> Statuses \union {Absent}]
        BY DEF SessionInv
    <2>2. Leaves(r)
        BY <1>2, <2>1, ResultsLeaveStatus
    <2> QED
        BY <1>3, <2>1, <2>2 DEF Leaves
<1>5. \A w \in writes' : w.call \in 1 .. made /\ w.name \in Registered
    <2>1. ASSUME NEW w \in writes' \ writes PROVE w.call = made /\ w.name = call.name
        BY <1>3, <2>1 DEF Write
    <2> QED
        BY <1>2, <2>1 DEF SessionInv
<1>6. call'.attempt \in 1 .. MaxRetries[call'.name] + 1
    <2>1. call'.name = call.name
        BY <1>2, <1>3 DEF End, CallType
    <2>2. CASE call' = [call EXCEPT !.attempt = @ + 1] /\ call.attempt < MaxRetries[call.name] + 1
        <3>1. call'.attempt = call.attempt + 1
            BY <1>2, <2>2 DEF CallType
        <3> QED
            BY <1>2, <2>1, <2>2, <3>1
    <2>3. CASE \E st, error : End(st, error)
        <3>1. call'.attempt = call.attempt
            BY <1>2, <2>3 DEF End, CallType
        <3> QED
            BY <1>2, <2>1, <3>1
    <2> QED
        BY <1>3, <2>2, <2>3
<1>7. stored = [trace |-> <<>>, writes |-> {}]
    BY <1>1 DEF SessionInv
<1> QED
    BY <1>1, <1>2, <1>4, <1>5, <1>6, <1>7 DEF SessionInv

LEMMA SessionHolds == ToolsInv /\ SessionInv /\ [Next]_vars => SessionInv'
<1> SUFFICES ASSUME ToolsInv, SessionInv, [Next]_vars PROVE SessionInv'
    OBVIOUS
<1>1. made \in Nat /\ MaxInvocations \in Nat /\ \A n \in Names : MaxRetries[n] \in 0 .. 5
    BY ToolsAssumption DEF ToolsInv, BooksInv
<1>2. ASSUME NEW n \in Names, NEW a \in Arguments[n],
             InvokeUnknown(n, a) \/ InvokeRefused(n, a) \/ Invoke(n, a)
      PROVE  SessionInv'
    <2>1. /\ session = "open" /\ made < MaxInvocations /\ made' = made + 1
          /\ call'.name = n /\ call'.attempt = 1
          /\ UNCHANGED <<status, session, writes, stored>>
        BY <1>2 DEF InvokeUnknown, InvokeRefused, Invoke, Begin
    <2>2. made' <= MaxInvocations /\ made' >= 1 /\ 1 \in 1 .. MaxRetries[n] + 1
        BY <1>1, <2>1
    <2>3. \A w \in writes : w.call \in 1 .. made' /\ w.name \in Registered
        BY <1>1, <2>1 DEF SessionInv
    <2>4. stored = [trace |-> <<>>, writes |-> {}]
        BY <2>1 DEF SessionInv
    <2> QED
        BY <2>1, <2>2, <2>3, <2>4 DEF SessionInv
<1>3. CASE TimesOut
    <2>1. call \in CallType /\ stored = [trace |-> <<>>, writes |-> {}]
        BY <1>3 DEF TimesOut, Running, SessionInv, ToolsInv, BooksInv
    <2>2. call'.name = call.name /\ call'.attempt = call.attempt
        BY <1>3, <2>1 DEF TimesOut, End, CallType
    <2> QED
        BY <1>3, <2>1, <2>2 DEF TimesOut, Running, SessionInv
<1>4. CASE PersistRow
    <2>1. stored = [trace |-> <<>>, writes |-> {}]
        BY <1>4 DEF PersistRow, Ended, SessionInv
    <2> QED
        BY <1>4, <2>1 DEF PersistRow, Ended, SessionInv
<1>5. CASE SessionBreaks \/ PersistFails \/ Commit \/ RollBack \/ Tick \/ UNCHANGED vars
    BY <1>5 DEF SessionBreaks, PersistFails, Running, Ended, Commit, RollBack, Tick, vars, toolVars,
                SessionInv
<1> QED
    BY <1>2, <1>3, <1>4, <1>5, AttemptEnds DEF Next

\* Every row, write, event and status has its type, and the database holds all
\* of the session or nothing of it.
THEOREM ToolsTyping == Spec => []TypeOK
<1>1. Init => ToolsInv /\ LimiterInv /\ SessionInv
    <2>1. Init => SessionInv
        BY ToolsAssumption DEF Init, SessionInv, Statuses, Exits
    <2> QED
        BY <2>1, InitHolds, InitIsLimited
<1>2. ToolsInv /\ LimiterInv /\ SessionInv /\ [Next]_vars => (ToolsInv /\ LimiterInv /\ SessionInv)'
    BY Invariance, LimitsHold, SessionHolds
<1>3. ToolsInv /\ LimiterInv /\ SessionInv => TypeOK
    <2> SUFFICES ASSUME ToolsInv, LimiterInv, SessionInv PROVE TypeOK
        OBVIOUS
    <2>1. made \in 0 .. MaxInvocations
        BY ToolsAssumption DEF ToolsInv, BooksInv, SessionInv
    <2>2. stored.trace \in {<<>>, trace} /\ stored.writes \in {{}, writes}
        BY DEF SessionInv
    <2> QED
        BY <2>1, <2>2 DEF ToolsInv, BooksInv, LimiterInv, SessionInv, TypeOK
<1> QED
    BY <1>1, <1>2, <1>3, PTL DEF Spec
=============================================================================
