------------------------------- MODULE Tools -------------------------------
(***************************************************************************)
(* The tools an investigation calls, one after the other, through          *)
(* ToolExecutor.invoke: admission (budget, rate limit, scope, arguments),  *)
(* the run of the tool under its timeout and its retries, the charge and   *)
(* the row of tool_calls.  Tools and trace write through the one session   *)
(* of the run, which a wait that is cut off, or a flush that fails, leaves *)
(* unusable until somebody rolls it back, and nobody does.                 *)
(***************************************************************************)
EXTENDS OpportunityStatus, Integers, Sequences, FiniteSetsExt, Functions

CONSTANTS
    Goals,          \* the goals stored
    OwnGoals,       \* those of the user the investigation runs for
    BadGoals,       \* those whose override the scoring engine refuses
    Dated,          \* the opportunities with a stored deadline
    Described,      \* those with a summary or a description
    Names,          \* the tools and other names callers use
    Arguments,      \* the arguments a name is called with: [Names -> set]
    Granted,        \* the scopes asked for the run; {} if none are
    MaxTotal,       \* max_tool_calls_total
    MaxCalls,       \* max_calls_per_run of each name
    MaxRetries,     \* max_retries of each name
    RateLimit,      \* calls a window admits of each name
    Window,         \* its length
    LastTime,       \* bound: how long the run is watched
    MaxInvocations, \* bound: how many calls it makes
    None            \* no call, no error, no argument

ASSUME ToolsAssumption ==
    /\ OwnGoals \subseteq Goals /\ BadGoals \subseteq Goals
    /\ Dated \subseteq Opps /\ Described \subseteq Opps
    /\ MaxTotal \in Nat \ {0} /\ Window \in Nat /\ LastTime \in Nat /\ MaxInvocations \in Nat
    /\ \A n \in Names :
        MaxCalls[n] \in Nat \ {0} /\ MaxRetries[n] \in 0 .. 5 /\ RateLimit[n] \in Nat \ {0}
    /\ None \notin Opps /\ None \notin Goals

-----------------------------------------------------------------------------
(* The registry. *)

\* NATIVE_TOOLS with the scope each declares.
Scope ==
    [search_opportunities |-> "opportunity:read", search_web |-> "web:fetch",
     research_company |-> "web:fetch", get_company_information |-> "opportunity:read",
     extract_deadline |-> "opportunity:read", check_eligibility |-> "profile:read",
     search_user_profile |-> "profile:read", search_user_documents |-> "document:read",
     calculate_opportunity_score |-> "opportunity:write",
     get_previous_opportunities |-> "opportunity:read",
     create_follow_up |-> "application:write", prepare_application |-> "application:write",
     generate_outreach |-> "external:communicate", save_opportunity |-> "opportunity:write",
     update_opportunity_status |-> "opportunity:write"]

Registered == DOMAIN Scope

\* All of them but sending to the outside world.
DefaultScopes == Range(Scope) \ {"external:communicate"}

\* build_tool_context (an empty grant is no grant: it means the default one)
GrantedScopes == IF Granted = {} THEN DefaultScopes ELSE Granted

-----------------------------------------------------------------------------
VARIABLES
    session,    \* "open", "broken" (to be rolled back), "committed", "rolledback"
    writes,     \* what the tools wrote in the session
    trace,      \* the rows of tool_calls, in the order of the calls
    made,       \* how many calls were made
    used,       \* ToolBudget: calls_used
    perTool,    \* and per_tool
    events,     \* ToolRateLimiter._events
    call,       \* the call under way, "RUNNING" until its outcome waits for its row
    clock,
    stored      \* what the database holds of writes and trace

toolVars == <<session, writes, trace, made, used, perTool, events, call, clock, stored>>
vars == <<status, toolVars>>

CallStatuses == {"SUCCEEDED", "FAILED", "DENIED", "TIMEOUT"}
ErrorCodes ==
    {"invalid_arguments", "permission_denied", "budget_exhausted", "rate_limited", "timeout",
     "not_found", "validation_error", "internal_error", None}
RowType ==
    [call : Nat, name : Names, at : 0 .. LastTime, status : CallStatuses, error : ErrorCodes]

CallType ==
    [name : Names, args : UNION {Arguments[n] : n \in Names}, at : 0 .. LastTime,
     attempt : Nat, status : CallStatuses \union {"RUNNING"}, error : ErrorCodes]

\* None is told from an error code and from a call.
ASSUME NoneAssumption ==
    /\ None \notin {"budget_exhausted", "rate_limited", "permission_denied", "invalid_arguments"}
    /\ None \notin CallType

TypeOK ==
    /\ status \in [Opps -> Statuses \union {Absent}]
    /\ session \in {"open", "broken", "committed", "rolledback"}
    /\ trace \in Seq(RowType)
    /\ \A w \in writes : w.call \in 1 .. made /\ w.name \in Registered
    /\ made \in 0 .. MaxInvocations
    /\ used \in Nat /\ perTool \in [Names -> Nat]
    /\ events \in [Names -> Seq(0 .. LastTime)]
    /\ call # None => call \in CallType /\ call.attempt \in 1 .. MaxRetries[call.name] + 1
    /\ clock \in 0 .. LastTime
    /\ stored.trace \in {<<>>, trace} /\ stored.writes \in {{}, writes}

Init ==
    /\ status \in [Opps -> {"DISCOVERED", "SCORED", "EXPIRED", "ARCHIVED", Absent}]
    /\ session = "open" /\ writes = {} /\ trace = <<>> /\ made = 0
    /\ used = 0 /\ perTool = [n \in Names |-> 0] /\ events = [n \in Names |-> <<>>]
    /\ call = None /\ clock = 0
    /\ stored = [trace |-> <<>>, writes |-> {}]

-----------------------------------------------------------------------------
(* What each tool does: the ways its run can end, each with the opportunity's
   status and the writes it leaves in the session.  "exception" is any error
   the tool layer does not know; "app_error" any it does. *)

Present(o) == o \in Opps /\ status[o] # Absent

Answer == [end |-> "ok", wrote |-> {}, status |-> status]
Refuse(e) == [Answer EXCEPT !.end = e]
Wrote(a, what) == [Answer EXCEPT !.wrote = {[opp |-> a.opp, what |-> what]}]

\* Look the opportunity up, or report that it is not there.
IfPresent(a, results) == IF Present(a.opp) THEN results ELSE {Refuse("tool_not_found")}

\* ctx.http.fetch: refused by the egress rules, failed, or answered
FetchEnds == {"ok", "app_error", "exception"}

SearchOpportunities(a) == {Answer}
SearchWeb(a) == IF a.fetch THEN {Refuse(e) : e \in FetchEnds} ELSE {Answer}

\* Only the refusal of a fetch is caught.
ResearchCompany(a) ==
    IF a.fetch THEN {IF e = "exception" THEN Refuse(e) ELSE Answer : e \in FetchEnds} ELSE {Answer}

GetCompanyInformation(a) == IfPresent(a, {Answer})

ExtractDeadline(a) ==
    IF a.opp = None
    THEN {IF a.text THEN Answer ELSE Refuse("app_error")}
    ELSE IfPresent(a, {IF a.opp \in Dated \union Described THEN Answer ELSE Refuse("app_error")})

CheckEligibility(a) == IfPresent(a, {Answer})
SearchUserProfile(a) == {Answer}
SearchUserDocuments(a) == {Answer}

\* An upserted score, and the status its recommendation asks for if it may.
CalculateOpportunityScore(a) ==
    IF ~Present(a.opp) \/ a.goal \notin OwnGoals
    THEN {Refuse("tool_not_found")}
    ELSE IF a.goal \in BadGoals
    THEN {Refuse("exception")}
    ELSE {[Wrote(a, "score") EXCEPT !.status = [status EXCEPT ![a.opp] = s]] :
            s \in {t \in {"SCORED", "RECOMMENDED"} : CanTransition(status[a.opp], t)}
                  \union {status[a.opp]}}

GetPreviousOpportunities(a) == {Answer}
CreateFollowUp(a) == IfPresent(a, {Wrote(a, "follow-up")})
PrepareApplication(a) == IfPresent(a, {Wrote(a, "checklist")})
GenerateOutreach(a) == IfPresent(a, {Answer})

\* Ingestion refuses the posting, merges it or stores a new one.
SaveOpportunity(a) ==
    {Refuse("app_error")} \union
    (IF Present(a.opp)
     THEN {Wrote(a, "merge")}
     ELSE {[Wrote(a, "opportunity") EXCEPT !.status = [status EXCEPT ![a.opp] = s]] :
            s \in {"DISCOVERED", "DUPLICATE"}})

\* A status tool that writes before it asks whether it may.
UpdateStatusFirst(a) ==
    IfPresent(a,
        {IF status[a.opp] = a.to THEN Answer
         ELSE [Wrote(a, "status") EXCEPT
                !.status = [status EXCEPT ![a.opp] = a.to],
                !.end = IF CanTransition(status[a.opp], a.to) THEN "ok" ELSE "app_error"]})

UpdateOpportunityStatus(a) ==
    IfPresent(a,
        {IF status[a.opp] = a.to THEN Answer
         ELSE IF CanTransition(status[a.opp], a.to)
         THEN [Wrote(a, "status") EXCEPT !.status = [status EXCEPT ![a.opp] = a.to]]
         ELSE Refuse("app_error")})

Results(n, a) ==
    CASE n = "search_opportunities" -> SearchOpportunities(a)
      [] n = "search_web" -> SearchWeb(a)
      [] n = "research_company" -> ResearchCompany(a)
      [] n = "get_company_information" -> GetCompanyInformation(a)
      [] n = "extract_deadline" -> ExtractDeadline(a)
      [] n = "check_eligibility" -> CheckEligibility(a)
      [] n = "search_user_profile" -> SearchUserProfile(a)
      [] n = "search_user_documents" -> SearchUserDocuments(a)
      [] n = "calculate_opportunity_score" -> CalculateOpportunityScore(a)
      [] n = "get_previous_opportunities" -> GetPreviousOpportunities(a)
      [] n = "create_follow_up" -> CreateFollowUp(a)
      [] n = "prepare_application" -> PrepareApplication(a)
      [] n = "generate_outreach" -> GenerateOutreach(a)
      [] n = "save_opportunity" -> SaveOpportunity(a)
      [] n = "update_opportunity_status" -> UpdateOpportunityStatus(a)

\* Where a run can be waiting when its time is up: retrieval embeds its query
\* over HTTP before it asks the database.
Waits(n, a) ==
    (IF \/ n \in {"search_web", "research_company"} /\ a.fetch
        \/ n \in {"search_user_profile", "search_user_documents"}
     THEN {"network"} ELSE {})
    \union (IF n = "search_web" \/ (n = "extract_deadline" /\ a.opp = None)
            THEN {} ELSE {"database"})

-----------------------------------------------------------------------------
(* The books: the rate limiter, the budget and the trace. *)

\* The first event that is not older than start, and all that follow: the
\* others are popped from the left, one by one.
Since(es, start) ==
    LET left == {i \in DOMAIN es : es[i] >= start}
    IN  IF left = {} THEN <<>> ELSE SubSeq(es, Min(left), Len(es))

\* A limiter that lets an event leave the window one tick early.
InWindowEarly(n) == Since(events[n], clock - Window + 1)

\* ToolRateLimiter.check: what is left of the window, then a slot or a refusal
InWindow(n) == Since(events[n], clock - Window)
WindowFull(n) == Len(InWindow(n)) >= RateLimit[n]

\* Checks that leave out the total of the run.
RefusalPerTool(n, a) ==
    IF perTool[n] >= MaxCalls[n] THEN "budget_exhausted"
    ELSE IF WindowFull(n) THEN "rate_limited"
    ELSE IF Scope[n] \notin GrantedScopes THEN "permission_denied"
    ELSE IF ~a.valid THEN "invalid_arguments"
    ELSE None

\* The checks of invoke, in its order; a refused scope or argument has taken
\* a slot of the rate limit already.
Refusal(n, a) ==
    IF used >= MaxTotal \/ perTool[n] >= MaxCalls[n] THEN "budget_exhausted"
    ELSE IF WindowFull(n) THEN "rate_limited"
    ELSE IF Scope[n] \notin GrantedScopes THEN "permission_denied"
    ELSE IF ~a.valid THEN "invalid_arguments"
    ELSE None

Admit(n, refusal) ==
    events' = [events EXCEPT ![n] =
        IF refusal = "budget_exhausted" THEN @
        ELSE IF refusal = "rate_limited" THEN InWindow(n)
        ELSE Append(InWindow(n), clock)]

\* ToolBudget.record: only an answer is charged
Record(n) == used' = used + 1 /\ perTool' = [perTool EXCEPT ![n] = @ + 1]

-----------------------------------------------------------------------------
(* The steps of an investigation. *)

\* A call begins, under way or with the outcome of a refusal.
Begin(n, a, st, error) ==
    /\ session = "open" /\ call = None /\ made < MaxInvocations
    /\ made' = made + 1
    /\ call' = [name |-> n, args |-> a, at |-> clock, attempt |-> 1, status |-> st, error |-> error]
    /\ UNCHANGED <<status, session, writes, trace, used, perTool, clock, stored>>

\* A call by a name nobody registered.
InvokeUnknown(n, a) ==
    /\ n \notin Registered
    /\ Begin(n, a, "FAILED", "not_found")
    /\ UNCHANGED events

InvokeRefused(n, a) ==
    /\ n \in Registered
    /\ Refusal(n, a) # None
    /\ Admit(n, Refusal(n, a))
    /\ Begin(n, a, IF Refusal(n, a) = "invalid_arguments" THEN "FAILED" ELSE "DENIED",
             Refusal(n, a))

Invoke(n, a) ==
    /\ n \in Registered
    /\ Refusal(n, a) = None
    /\ Admit(n, None)
    /\ Begin(n, a, "RUNNING", None)

\* The tool runs, and the session serves it.
Running == call # None /\ call.status = "RUNNING" /\ session = "open"

End(st, error) == call' = [call EXCEPT !.status = st, !.error = error]

\* It is over, and its row is next.
Ended == call # None /\ call.status # "RUNNING" /\ session = "open"

\* The tool's own writes, flushed before it answers.
Write(n, wrote) ==
    writes' = writes \union
        {[call |-> made, name |-> n, opp |-> w.opp, what |-> w.what] : w \in wrote}

\* An answer is charged before anybody tries to put it on record.
Succeed ==
    /\ Running
    /\ \E r \in Results(call.name, call.args) :
        /\ r.end = "ok"
        /\ status' = r.status
        /\ Write(call.name, r.wrote)
    /\ Record(call.name)
    /\ End("SUCCEEDED", None)
    /\ UNCHANGED <<session, trace, made, events, clock, stored>>

\* A failed attempt: an error the tool layer knows may be retried.
ErrorCode(e) ==
    CASE e = "tool_not_found" -> "not_found"
      [] e = "app_error" -> "validation_error"
      [] e = "exception" -> "internal_error"

FailBefore(attempts) ==
    /\ Running
    /\ \E r \in Results(call.name, call.args) :
        /\ r.end # "ok"
        /\ status' = r.status
        /\ Write(call.name, r.wrote)
        /\ IF r.end = "app_error" /\ call.attempt < attempts
           THEN call' = [call EXCEPT !.attempt = @ + 1]
           ELSE End("FAILED", ErrorCode(r.end))
    /\ UNCHANGED <<session, trace, made, used, perTool, events, clock, stored>>

\* One attempt too many.
FailOnceMore == FailBefore(MaxRetries[call.name] + 2)

\* max_retries attempts after the first
Fail == FailBefore(MaxRetries[call.name] + 1)

\* wait_for cuts the tool off while it waits for the network.
TimesOut ==
    /\ Running
    /\ "network" \in Waits(call.name, call.args)
    /\ End("TIMEOUT", "timeout")
    /\ UNCHANGED <<status, session, writes, trace, made, used, perTool, events, clock, stored>>

\* It cuts it off while it waits for the database, or the database refuses
\* the flush of a row another session has inserted: the session is unusable,
\* the row of the trace cannot be flushed either, and invoke raises.
SessionBreaks ==
    /\ Running
    /\ "database" \in Waits(call.name, call.args)
    /\ session' = "broken"
    /\ call' = None
    /\ UNCHANGED <<status, writes, trace, made, used, perTool, events, clock, stored>>

\* _persist adds the row and flushes it (created_at and latency_ms tell when
\* the call was made);
PersistRow ==
    /\ Ended
    /\ trace' = Append(trace, [call |-> made, name |-> call.name, at |-> call.at,
                               status |-> call.status, error |-> call.error])
    /\ call' = None
    /\ UNCHANGED <<status, session, writes, made, used, perTool, events, clock, stored>>

\* when the database refuses, the session is unusable and invoke raises.
PersistFails ==
    /\ Ended
    /\ session' = "broken"
    /\ call' = None
    /\ UNCHANGED <<status, writes, trace, made, used, perTool, events, clock, stored>>

\* run_investigation_background commits what the session holds, whether the
\* graph returned or raised;
Commit ==
    /\ session = "open" /\ call = None
    /\ session' = "committed"
    /\ stored' = [trace |-> trace, writes |-> writes]
    /\ UNCHANGED <<status, writes, trace, made, used, perTool, events, call, clock>>

\* with a session that cannot be used mark_failed raises, and all is lost.
RollBack ==
    /\ session = "broken"
    /\ session' = "rolledback"
    /\ UNCHANGED <<status, writes, trace, made, used, perTool, events, call, clock, stored>>

Tick ==
    /\ session = "open" /\ clock < LastTime
    /\ clock' = clock + 1
    /\ UNCHANGED <<status, session, writes, trace, made, used, perTool, events, call, stored>>

Next ==
    \/ \E n \in Names : \E a \in Arguments[n] :
        \/ InvokeUnknown(n, a)
        \/ InvokeRefused(n, a)
        \/ Invoke(n, a)
    \/ Succeed
    \/ Fail
    \/ TimesOut
    \/ SessionBreaks
    \/ PersistRow
    \/ PersistFails
    \/ Commit
    \/ RollBack
    \/ Tick

Spec == Init /\ [][Next]_vars

-----------------------------------------------------------------------------
(* Properties. *)

Answers(S) == {i \in DOMAIN trace : trace[i].status = "SUCCEEDED" /\ trace[i].name \in S}

\* The answer that waits for its row.
Unrecorded(S) ==
    IF call # None /\ call.status = "SUCCEEDED" /\ call.name \in S THEN 1 ELSE 0

\* While a session can be used, and in what is committed, a charge stands for
\* the answers on record and the one that waits; a session that breaks between
\* the charge and the flush is one charge ahead of its trace, and no more.
Stands(charge, S) ==
    IF session \in {"open", "committed"}
    THEN charge = Cardinality(Answers(S)) + Unrecorded(S)
    ELSE charge - Cardinality(Answers(S)) \in {0, 1}

\* What the run and each tool are charged stands for answers of the trace,
\* exactly so in a run that is committed, and it never exceeds what they were
\* given: a refused, a failed or a retried call costs nothing.
ChargesMatchTrace ==
    /\ used <= MaxTotal /\ Stands(used, Names)
    /\ \A n \in Names : perTool[n] <= MaxCalls[n] /\ Stands(perTool[n], {n})

\* Whatever the mix of refusals, failures and retries, what the database ends
\* up holding of the tools' writes is accounted for by a succeeded call in the
\* same database, one write a call: no write without its row, and none twice.
TraceExplainsWrites ==
    \A w \in stored.writes :
        /\ \E i \in DOMAIN stored.trace :
            stored.trace[i].call = w.call /\ stored.trace[i].status = "SUCCEEDED"
        /\ \A v \in stored.writes : v.call = w.call => v = w

\* No window of the rate limit, both ends included, admits more calls of a
\* tool than the limit, those that failed or were refused later counted too:
\* a failed call costs no budget, so nothing else holds it back.
Admitted(n) ==
    {i \in DOMAIN trace :
        trace[i].name = n /\ trace[i].error \notin {"budget_exhausted", "rate_limited"}}

WindowHolds ==
    \A n \in Names \intersect Registered : \A t \in 0 .. LastTime :
        Cardinality({i \in Admitted(n) : t - Window <= trace[i].at /\ trace[i].at <= t})
            <= RateLimit[n]

\* "Every tool invocation, including denied and timed-out ones" has its row
\* (models/agent_run.py); a call that breaks the session has none, charged or not.
EveryCallIsTraced ==
    call = None => \A k \in 1 .. made : \E i \in DOMAIN trace : trace[i].call = k
=============================================================================
