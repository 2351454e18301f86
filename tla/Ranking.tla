------------------------------ MODULE Ranking ------------------------------
(***************************************************************************)
(* Scoring stored opportunities and listing them: ScoringService, the      *)
(* opportunity list and its cursor, goal updates and revalidation.         *)
(*                                                                         *)
(* A scoring request is one transaction, READ COMMITTED: it reads the      *)
(* goal, then the opportunities, then for each of them selects its score   *)
(* row and writes it.  A written row stays locked until the transaction    *)
(* ends, and an UPDATE carries the columns that differ from the row the    *)
(* session selected, no others.                                            *)
(***************************************************************************)
EXTENDS Factors, OpportunityStatus, FiniteSetsExt

CONSTANTS Goals, Sessions,
          Facts,           \* the facts of each opportunity
          Person,          \* the user's profile, or Unknown
          GoalSettings,    \* what a goal may hold: [profile, override]
          Created,         \* the opportunities in the order they were created
          Selections,      \* the opportunity_ids a request may name
          Filters,         \* [goal, min_score, deadline_before, include_expired]
          Times,           \* the ticks the clock may show
          ScoreLimit, RevalidateLimit, PageLimit,
          MaxEdits, MaxRequests,
          NoRow, Idle

ASSUME RankingAssumption ==
    /\ Opps \subseteq Nat /\ IsFiniteSet(Opps)
    /\ Times \subseteq Nat /\ Times # {}
    /\ Created \in Seq(Opps)
    /\ \A i, j \in DOMAIN Created : Created[i] = Created[j] => i = j
    /\ Opps = {Created[i] : i \in DOMAIN Created}
    /\ \A settings \in GoalSettings :
        /\ settings.profile \in Profiles
        /\ \A d \in DOMAIN settings.override : settings.override[d] \in Int
    /\ {ScoreLimit, RevalidateLimit, PageLimit} \subseteq Nat \ {0}
    /\ MaxEdits \in Nat /\ MaxRequests \in Nat

\* What is known of a posting and of a person: any of it may be Unknown.
ASSUME FactsAssumption ==
    /\ \A o \in Opps :
        /\ Facts[o].category \in Categories
        /\ {Facts[o].deadline, Facts[o].posted, Facts[o].discovered, Facts[o].verified,
            Facts[o].pay_min, Facts[o].pay_max} \subseteq Int \union {Unknown}
        /\ IsFiniteSet(Facts[o].required) /\ IsFiniteSet(Facts[o].preferred)
    /\ Person # Unknown =>
        {Person.want_min, Person.want_max} \subseteq Int \union {Unknown}

VARIABLES now,        \* the clock, in ticks
          goals,      \* what each goal holds
          expires,    \* expires_at and
          fresh,      \* freshness_score of each opportunity
          rows,       \* the committed opportunity_scores rows, by key
          scoring,    \* what each session's request holds
          contested,  \* keys updated over a row another session had rewritten
          edits, requests

vars == <<now, goals, status, expires, fresh, rows, scoring, contested,
          edits, requests>>

\* The unique key of a row: opportunity, goal and weights_version.
Key(o, g, version) == <<o, g, version>>

Columns == {"profile", "overall", "confidence", "recommendation", "computed", "factors",
            "explanation"}

TypeOK ==
    /\ now \in Times
    /\ goals \in [Goals -> GoalSettings]
    /\ status \in [Opps -> Statuses]
    /\ expires \in [Opps -> Int \union {Unknown}]
    /\ fresh \in [Opps -> 0 .. FreshnessScale]
    /\ \A k \in DOMAIN rows :
        /\ k[1] \in Opps /\ k[2] \in Goals
        /\ rows[k].overall \in 0 .. 100 * ScoreScale
        /\ rows[k].confidence \in 0 .. DimensionScale
        /\ rows[k].recommendation \in Recommendations
    /\ \A s \in Sessions : scoring[s] # Idle => scoring[s].goal \in Goals
    /\ contested \subseteq DOMAIN rows
    /\ edits \in 0 .. MaxEdits /\ requests \in 0 .. MaxRequests

Discovered(o) == Facts[o].discovered
Verified(o) == Facts[o].verified

Earliest == CHOOSE t \in Times : \A u \in Times : t <= u

AssessNow(o, explicit) == Assess(Facts[o], Discovered(o), Verified(o), explicit, now)

\* The corpus as ingestion left it.
Init ==
    /\ now = Earliest
    /\ goals \in [Goals -> GoalSettings]
    /\ expires = [o \in Opps |-> DeriveExpiresAt(Facts[o], Discovered(o), Unknown)]
    /\ fresh = [o \in Opps |-> AssessNow(o, Unknown).score]
    /\ status = [o \in Opps |-> IF AssessNow(o, Unknown).expired THEN "EXPIRED"
                                ELSE "DISCOVERED"]
    /\ rows = <<>>
    /\ scoring = [s \in Sessions |-> Idle]
    /\ contested = {}
    /\ edits = 0 /\ requests = 0

-----------------------------------------------------------------------------
(* Scoring a goal.                                                         *)

\* score_goal_by_id: the goal is read and is not read again.
StartScoring(s, g, ids) ==
    /\ scoring[s] = Idle
    /\ requests < MaxRequests
    /\ requests' = requests + 1
    /\ scoring' = [scoring EXCEPT ![s] =
                     [pc |-> "load", goal |-> g, settings |-> goals[g], left |-> {},
                      ids |-> ids, found |-> NoRow, result |-> NoRow,
                      status |-> <<>>, moved |-> {}, writes |-> <<>>]]
    /\ UNCHANGED <<now, goals, status, expires, fresh, rows, contested, edits>>

\* Its place in the order of creation.
CreatedAt(o) == CHOOSE i \in DOMAIN Created : Created[i] = o

Oldest(opps) == CHOOSE o \in opps : \A p \in opps : CreatedAt(o) <= CreatedAt(p)

\* The opportunities a request scores: not inactive, the oldest of them.
Candidates(ids) ==
    LET chosen == {o \in Opps : o \in ids /\ status[o] \notin Inactive}
        earlier(o) == {p \in chosen : CreatedAt(p) < CreatedAt(o)}
    IN  {o \in chosen : Cardinality(earlier(o)) < ScoreLimit}

LoadOpportunities(s) ==
    LET mine == scoring[s]
        found == Candidates(mine.ids)
    IN  /\ mine # Idle /\ mine.pc = "load"
        /\ scoring' = [scoring EXCEPT ![s] =
              IF found = {} THEN Idle
              ELSE [mine EXCEPT !.pc = "select", !.left = found,
                                !.status = [o \in found |-> status[o]]]]
        /\ UNCHANGED <<now, goals, status, expires, fresh, rows, contested,
                       edits, requests>>

\* Moments are counted per opportunity: later than any computed for it so far.
NextMoment(o) ==
    LET requestsInFlight == {scoring[s] : s \in {x \in Sessions : scoring[x] # Idle}}
        stored == {rows[k].computed : k \in {x \in DOMAIN rows : x[1] = o}}
        coming == {r.result.computed : r \in {x \in requestsInFlight :
                                                 x.result # NoRow /\ Oldest(x.left) = o}}
        written == UNION {{r.writes[k].computed : k \in {x \in DOMAIN r.writes : x[1] = o}} :
                             r \in requestsInFlight}
    IN  1 + Max({0} \union stored \union coming \union written)

\* The columns _upsert sets on the row.
RowOf(o, settings, weights, moment) ==
    LET derived == Derive(Facts[o], Person, now)
        result == Score(derived.values, weights, derived.eligible, derived.days)
    IN  [profile |-> settings.profile,
         overall |-> result.overall,
         confidence |-> result.confidence,
         recommendation |-> result.recommendation,
         computed |-> moment,
         factors |-> result.factors,
         explanation |-> result.explanation]

\* Weights that cannot be used fail the request before it has written anything;
\* otherwise the score is computed and the row it belongs to is selected.
SelectScore(s) ==
    LET mine == scoring[s]
        o == Oldest(mine.left)
        weights == WeightsFor(mine.settings.profile, mine.settings.override)
        key == Key(o, mine.goal, weights.version)
    IN  /\ mine # Idle /\ mine.pc = "select"
        /\ scoring' = [scoring EXCEPT ![s] =
              IF weights = ScoringError THEN Idle
              ELSE [mine EXCEPT !.pc = "write",
                      !.found = IF key \in DOMAIN rows THEN rows[key] ELSE NoRow,
                      !.result = RowOf(o, mine.settings, weights, NextMoment(o))]]
        /\ UNCHANGED <<now, goals, status, expires, fresh, rows, contested,
                       edits, requests>>

\* Mutant: a re-score leaves the explanation it finds.
OverwriteFigures(stored, found, result) ==
    [c \in Columns |-> IF c # "explanation" /\ result[c] # found[c] THEN result[c]
                       ELSE stored[c]]

\* An UPDATE: the columns that differ from the row the session selected.
Overwrite(stored, found, result) ==
    [c \in Columns |-> IF result[c] # found[c] THEN result[c] ELSE stored[c]]

\* _target_status
TargetStatus(recommendation) ==
    IF recommendation \in Enthusiastic THEN "RECOMMENDED" ELSE "SCORED"

\* set_status on the session's own copy, unless it is inactive; only a copy
\* that moved is written back.
Moved(current, target) ==
    IF current \in Inactive \/ ~CanTransition(current, target) THEN current ELSE target

With(f, k, v) == [x \in DOMAIN f \union {k} |-> IF x = k THEN v ELSE f[x]]

Locked(s, key) ==
    \E t \in Sessions \ {s} : scoring[t] # Idle /\ key \in DOMAIN scoring[t].writes

\* The flush of _upsert, then the status: it waits for the row's lock, and
\* an INSERT that finds its key taken fails the whole request.
WriteScore(s) ==
    LET mine == scoring[s]
        o == Oldest(mine.left)
        key == Key(o, mine.goal, mine.result.factors.version)
        row == IF mine.found = NoRow THEN mine.result
               ELSE Overwrite(rows[key], mine.found, mine.result)
        target == Moved(mine.status[o], TargetStatus(mine.result.recommendation))
    IN  /\ mine # Idle /\ mine.pc = "write"
        /\ ~Locked(s, key)
        /\ IF mine.found = NoRow /\ key \in DOMAIN rows
           THEN /\ scoring' = [scoring EXCEPT ![s] = Idle]
                /\ UNCHANGED contested
           ELSE /\ scoring' = [scoring EXCEPT ![s] =
                     [mine EXCEPT !.pc = IF mine.left = {o} THEN "commit" ELSE "select",
                        !.left = @ \ {o}, !.found = NoRow, !.result = NoRow,
                        !.writes = With(mine.writes, key, row),
                        !.status[o] = target,
                        !.moved = IF target # mine.status[o] THEN @ \union {o} ELSE @]]
                /\ contested' = IF mine.found # NoRow /\ rows[key] # mine.found
                                THEN contested \union {key} ELSE contested
        /\ UNCHANGED <<now, goals, status, expires, fresh, rows, edits, requests>>

CommitScoring(s) ==
    LET mine == scoring[s]
    IN  /\ mine # Idle /\ mine.pc = "commit"
        /\ rows' = [k \in DOMAIN rows \union DOMAIN mine.writes |->
                      IF k \in DOMAIN mine.writes THEN mine.writes[k] ELSE rows[k]]
        /\ status' = [o \in Opps |-> IF o \in mine.moved THEN mine.status[o] ELSE status[o]]
        /\ scoring' = [scoring EXCEPT ![s] = Idle]
        /\ UNCHANGED <<now, goals, expires, fresh, contested, edits, requests>>

\* PATCH /goals/{id}: objective_profile and weights_override.
UpdateGoal(g, settings) ==
    /\ edits < MaxEdits
    /\ goals[g] # settings
    /\ goals' = [goals EXCEPT ![g] = settings]
    /\ edits' = edits + 1
    /\ UNCHANGED <<now, status, expires, fresh, rows, scoring, contested,
                   requests>>

-----------------------------------------------------------------------------
(* Refreshing: the hourly task's rows, or the one a client asks for.       *)

\* The rows verified longest ago; last_verified_at is not updated.
OldestVerified ==
    {o \in Opps : Cardinality({p \in Opps : \/ Verified(p) < Verified(o)
                                            \/ Verified(p) = Verified(o) /\ p < o})
                    < RevalidateLimit}

\* refresh of each row chosen, and the commit.  The other writers of a status
\* may come between its read and its commit: that is OpportunityLifecycle's
\* concern, and one step here.
Refresh(chosen) ==
    LET assessed(o) == AssessNow(o, expires[o])
    IN  /\ fresh' = [o \in Opps |-> IF o \in chosen THEN assessed(o).score ELSE fresh[o]]
        /\ expires' = [o \in Opps |-> IF o \in chosen THEN assessed(o).expires
                                      ELSE expires[o]]
        /\ status' = [o \in Opps |->
              IF o \in chosen /\ assessed(o).expired /\ status[o] \notin Inactive
              THEN "EXPIRED" ELSE status[o]]
        /\ UNCHANGED <<now, goals, rows, scoring, contested, edits, requests>>

RevalidateTask == Refresh(OldestVerified)

RefreshOne(o) == Refresh({o})

ClockTicks ==
    /\ \E t \in Times : /\ t > now
                        /\ \A u \in Times : u > now => t <= u
                        /\ now' = t
    /\ UNCHANGED <<goals, status, expires, fresh, rows, scoring, contested,
                   edits, requests>>

-----------------------------------------------------------------------------
(* Listing: queries, which change nothing.                                 *)

NoScore == -1
FarFuture == 1000000

\* The newest score row of an opportunity: for the goal, or for any.
LatestScore(o, goal) ==
    LET mine == {k \in DOMAIN rows : k[1] = o /\ (goal = Unknown \/ k[2] = goal)}
    IN  IF mine = {} THEN NoRow
        ELSE rows[CHOOSE k \in mine : \A j \in mine : rows[j].computed <= rows[k].computed]

Matches(o, filter) ==
    LET score == LatestScore(o, filter.goal)
    IN  /\ filter.include_expired \/ status[o] \notin Inactive
        /\ filter.min_score = Unknown \/ (score # NoRow /\ score.overall >= filter.min_score)
        /\ filter.deadline_before = Unknown
           \/ (Facts[o].deadline # Unknown /\ Facts[o].deadline <= filter.deadline_before)

Descending(sort) == sort # "deadline"

SortValue(o, sort, filter) ==
    CASE sort = "score" -> LET score == LatestScore(o, filter.goal)
                           IN  IF score = NoRow THEN NoScore ELSE score.overall
      [] sort = "deadline" -> OrElse(Facts[o].deadline, FarFuture)
      [] sort = "recent" -> CreatedAt(o)

\* a comes before b: by value, then by id.
Precedes(a, b, sort) ==
    IF Descending(sort)
    THEN a.value > b.value \/ (a.value = b.value /\ a.id > b.id)
    ELSE a.value < b.value \/ (a.value = b.value /\ a.id < b.id)

Place(o, sort, filter) == [value |-> SortValue(o, sort, filter), id |-> o]

\* Mutant: rows with the cursor's own value are taken to have been listed.
AfterCursorValue(o, cursor, sort, filter) ==
    \/ cursor = Unknown
    \/ Descending(sort) /\ SortValue(o, sort, filter) < cursor.value
    \/ ~Descending(sort) /\ SortValue(o, sort, filter) > cursor.value

AfterCursor(o, cursor, sort, filter) ==
    cursor = Unknown \/ Precedes(cursor, Place(o, sort, filter), sort)

\* list_opportunities from a cursor: the rows left, the first page of them and
\* the cursor it ends with, Unknown when there is no next page.
IsLeft(o, cursor, sort, filter) == Matches(o, filter) /\ AfterCursor(o, cursor, sort, filter)

RowsLeft(cursor, sort, filter) == {o \in Opps : IsLeft(o, cursor, sort, filter)}

Before(o, opps, sort, filter) ==
    {p \in opps : Precedes(Place(p, sort, filter), Place(o, sort, filter), sort)}

\* The first n of some rows, in the order of the list.
FirstOf(n, opps, sort, filter) ==
    {o \in opps : Cardinality(Before(o, opps, sort, filter)) < n}

LastOf(opps, sort, filter) ==
    CHOOSE o \in opps : opps \ {o} \subseteq Before(o, opps, sort, filter)

Page(cursor, sort, filter) == FirstOf(PageLimit, RowsLeft(cursor, sort, filter), sort, filter)

NextCursor(cursor, sort, filter) ==
    LET fetched == FirstOf(PageLimit + 1, RowsLeft(cursor, sort, filter), sort, filter)
    IN  IF Cardinality(fetched) > PageLimit
        THEN Place(LastOf(Page(cursor, sort, filter), sort, filter), sort, filter)
        ELSE Unknown

-----------------------------------------------------------------------------

ScoreStep(s) == LoadOpportunities(s) \/ SelectScore(s) \/ WriteScore(s) \/ CommitScoring(s)

Next ==
    \/ \E s \in Sessions, g \in Goals, ids \in Selections : StartScoring(s, g, ids)
    \/ \E s \in Sessions : ScoreStep(s)
    \/ \E g \in Goals, settings \in GoalSettings : UpdateGoal(g, settings)
    \/ RevalidateTask
    \/ \E o \in Opps : RefreshOne(o)
    \/ ClockTicks

Spec == Init /\ [][Next]_vars

-----------------------------------------------------------------------------
(* Properties.                                                             *)

\* The default weights never recommend: what can be derived from a posting
\* is too small a share of any profile's weight for its score to be trusted,
\* so the verdict is at best WAIT, whatever the requests and the clock do.
\* (ScoringService.score_opportunity, CONFIDENCE_FLOOR)
DefaultWeightsNeverRecommend ==
    \A k \in DOMAIN rows :
        k[3][2] = "v1" => rows[k].recommendation \notin Enthusiastic

\* The weights a goal may score with.
Weightings ==
    {WeightsFor(settings.profile, settings.override) : settings \in GoalSettings}
        \ {ScoringError}

\* One and the same weights, of the version the factors name, give a row's
\* factors, score, confidence, verdict and explanation from the dimensions kept.
Explained(row) ==
    LET f == row.factors
        missing == {d \in Dimensions : f.dimensions[d] = Unknown}
    IN  /\ \E weights \in Weightings :
            /\ f = AsFactors(f.dimensions, weights)
            /\ row.overall = Overall(f.dimensions, weights)
        /\ row.confidence = f.confidence
        /\ row.recommendation \in {Recommend(row.overall, f.confidence, Unknown), "INELIGIBLE"}
        /\ row.explanation.missing = missing
        /\ row.explanation.next_step = NextStep(row.recommendation, missing)

\* A row no other session rewrote between a session's SELECT and its UPDATE can
\* be recomputed from the dimensions and the weights version in its factors.
\* (scoring_service._upsert)
UncontestedRowsAreExplained ==
    \A k \in DOMAIN rows \ contested : Explained(rows[k])

\* Every row can be (services/scoring.py: "any past recommendation can be
\* recomputed").
RowsAreExplained == \A k \in DOMAIN rows : Explained(rows[k])

\* A step leaves rows that keep their places either on the first page read before
\* it or after the cursor it ended with.
ListedOnce ==
    <<rows, status>>' # <<rows, status>> =>
      \A sort \in {"score", "deadline", "recent"}, filter \in Filters :
        \A cursor \in {NextCursor(Unknown, sort, filter)},
           first \in {Page(Unknown, sort, filter)} :
          \A o \in {p \in Opps : Matches(p, filter)} :
            \A place \in {Place(o, sort, filter)} :
              /\ cursor # Unknown
              /\ Matches(o, filter)'
              /\ Place(o, sort, filter)' = place
              => (o \in first) # IsLeft(o, cursor, sort, filter)'

\* Rows whose place in the list a step does not change are listed once by a
\* client that reads the first page before the step and the rest after it:
\* the cursor neither skips nor repeats them.  (list_opportunities)
KeysetSurvivesChange == [][ListedOnce]_vars
=============================================================================
