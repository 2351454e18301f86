---------------------------- MODULE RankingProofs ----------------------------
(***************************************************************************)
(* Theorems about Ranking, for any opportunities, goals, sessions, limits  *)
(* and moments.                                                            *)
(***************************************************************************)
EXTENDS Ranking, FiniteSetTheorems, WellFoundedInduction, TLAPS

-----------------------------------------------------------------------------
(* Sums over finite sets.                                                  *)

\* A non-empty family of finite sets has one that no other is part of.
LEMMA Smallest ==
    ASSUME NEW S, NEW family, family \subseteq FiniteSubsetsOf(S), family # {}
    PROVE  \E m \in family : \A k \in family : k \subseteq m => k = m
<1>1. IsWellFoundedOn(StrictSubsetOrdering(S), FiniteSubsetsOf(S))
    BY FS_StrictSubsetOrderingWellFounded
<1>2. PICK m \in family : \A k \in family : ~(<<k, m>> \in StrictSubsetOrdering(S))
    BY <1>1, WFMin
<1> QED
    BY <1>2 DEF StrictSubsetOrdering, FiniteSubsetsOf

\* The subsets of a finite set among which there is a least.
LEMMA SmallestSubset ==
    ASSUME NEW S, IsFiniteSet(S), NEW family, family \subseteq SUBSET S, family # {}
    PROVE  \E m \in family : \A k \in family : k \subseteq m => k = m
<1>1. family \subseteq FiniteSubsetsOf(S)
    BY FS_Subset DEF FiniteSubsetsOf
<1> QED
    BY <1>1, Smallest

\* SumFunctionOnSet takes the elements one by one, as CHOOSE has them.
Pick(s) == CHOOSE x \in s : TRUE

IsIter(f, S, it) ==
    it = [s \in SUBSET S |-> IF s = {} THEN 0 ELSE f[Pick(s)] + it[s \ {Pick(s)}]]

Iter(f, S) == CHOOSE it : IsIter(f, S, it)

LEMMA SumIs ==
    ASSUME NEW f, NEW S
    PROVE  SumFunctionOnSet(f, S) = Iter(f, S)[S]
    BY DEF SumFunctionOnSet, FoldFunctionOnSet, MapThenFoldSet, Iter, IsIter, Pick

LEMMA SumEmpty ==
    ASSUME NEW f PROVE SumFunctionOnSet(f, {}) = 0
    BY DEF SumFunctionOnSet, FoldFunctionOnSet, MapThenFoldSet

LEMMA IterStep ==
    ASSUME NEW f, NEW S, NEW it, IsIter(f, S, it), NEW s \in SUBSET S, s # {}
    PROVE  /\ Pick(s) \in s /\ s \ {Pick(s)} \in SUBSET S
           /\ it[s] = f[Pick(s)] + it[s \ {Pick(s)}]
<1>1. Pick(s) \in s
    BY DEF Pick
<1>2. it[s] = f[Pick(s)] + it[s \ {Pick(s)}]
    BY DEF IsIter
<1> QED
    BY <1>1, <1>2

LEMMA IterEmpty ==
    ASSUME NEW f, NEW S, NEW it, IsIter(f, S, it)
    PROVE  it[{}] = 0
    BY DEF IsIter

LEMMA IterUnique ==
    ASSUME NEW f, NEW S, NEW T, NEW i, NEW j, IsFiniteSet(S), IsIter(f, S, i), IsIter(f, T, j),
           NEW w, w \subseteq S, w \subseteq T
    PROVE  i[w] = j[w]
<1> DEFINE bad == {u \in SUBSET S : u \subseteq T /\ i[u] # j[u]}
<1> SUFFICES ASSUME bad # {} PROVE FALSE
    OBVIOUS
<1>1. bad \subseteq SUBSET S
    OBVIOUS
<1>2. \A u \in bad : u \in SUBSET S /\ u \in SUBSET T /\ i[u] # j[u]
    OBVIOUS
<1>3. \A u \in SUBSET S : u \in SUBSET T /\ u \notin bad => i[u] = j[u]
    OBVIOUS
<1> HIDE DEF bad
<1>4. PICK m \in bad : \A k \in bad : k \subseteq m => k = m
    BY <1>1, SmallestSubset
<1>5. m # {}
    <2>1. i[{}] = 0 /\ j[{}] = 0
        BY IterEmpty
    <2> QED
        BY <1>2, <2>1
<1>6. /\ Pick(m) \in m /\ m \ {Pick(m)} \in SUBSET S /\ m \ {Pick(m)} \in SUBSET T
      /\ i[m] = f[Pick(m)] + i[m \ {Pick(m)}]
      /\ j[m] = f[Pick(m)] + j[m \ {Pick(m)}]
    BY <1>2, <1>5, IterStep
<1>7. m \ {Pick(m)} \notin bad
    BY <1>4, <1>6
<1> QED
    BY <1>2, <1>3, <1>6, <1>7

LEMMA IterExists ==
    ASSUME NEW f, NEW S, IsFiniteSet(S)
    PROVE  IsIter(f, S, Iter(f, S))
<1> DEFINE bad == {u \in SUBSET S : ~IsIter(f, u, Iter(f, u))}
<1> SUFFICES ASSUME bad # {} PROVE FALSE
    OBVIOUS
<1>1. bad \subseteq SUBSET S
    OBVIOUS
<1>2. \A u \in SUBSET S : u \notin bad => IsIter(f, u, Iter(f, u))
    OBVIOUS
<1>3. \A u \in bad : u \in SUBSET S /\ ~IsIter(f, u, Iter(f, u))
    OBVIOUS
<1> HIDE DEF bad
<1>4. PICK m \in bad : \A k \in bad : k \subseteq m => k = m
    BY <1>1, SmallestSubset
<1>5. \A u \in SUBSET m : u # m => IsIter(f, u, Iter(f, u))
    BY <1>1, <1>2, <1>4
<1> DEFINE Value(s) == IF s = {} THEN 0 ELSE f[Pick(s)] + Iter(f, s \ {Pick(s)})[s \ {Pick(s)}]
           it == [s \in SUBSET m |-> Value(s)]
<1>6. ASSUME NEW s \in SUBSET m, s # m
      PROVE  Iter(f, s)[s] = Value(s)
    <2>1. IsIter(f, s, Iter(f, s))
        BY <1>5, <1>6
    <2>2. CASE s = {}
        BY <2>1, <2>2, IterEmpty
    <2>3. CASE s # {}
        <3> DEFINE rest == s \ {Pick(s)}
        <3>1. s \in SUBSET s
            OBVIOUS
        <3>2. Pick(s) \in s /\ Iter(f, s)[s] = f[Pick(s)] + Iter(f, s)[rest]
            BY <2>1, <2>3, <3>1, IterStep
        <3>3. rest \in SUBSET m /\ rest # m /\ rest \subseteq s
            BY <1>6, <3>2
        <3>4. IsIter(f, rest, Iter(f, rest)) /\ IsFiniteSet(s)
            BY <1>1, <1>5, <3>3, FS_Subset
        <3>5. Iter(f, s)[rest] = Iter(f, rest)[rest]
            BY <2>1, <3>3, <3>4, IterUnique
        <3> QED
            BY <2>3, <3>2, <3>5
    <2> QED
        BY <2>2, <2>3
<1>7. ASSUME NEW s \in SUBSET m, s # {}
      PROVE  Value(s) = f[Pick(s)] + it[s \ {Pick(s)}]
    <2>1. Pick(s) \in s
        BY <1>7 DEF Pick
    <2>2. s \ {Pick(s)} \in SUBSET m /\ s \ {Pick(s)} # m
        BY <2>1
    <2> QED
        BY <1>6, <1>7, <2>2
<1>8. \A s \in SUBSET m : Value(s) = IF s = {} THEN 0 ELSE f[Pick(s)] + it[s \ {Pick(s)}]
    BY <1>7
<1>9. IsIter(f, m, it)
    BY <1>8 DEF IsIter
<1>10. IsIter(f, m, Iter(f, m))
    BY <1>9 DEF Iter
<1> QED
    BY <1>3, <1>10

LEMMA SumPick ==
    ASSUME NEW f, NEW S, IsFiniteSet(S), S # {}
    PROVE  /\ Pick(S) \in S
           /\ SumFunctionOnSet(f, S) = f[Pick(S)] + SumFunctionOnSet(f, S \ {Pick(S)})
<1> DEFINE rest == S \ {Pick(S)}
<1>1. S \in SUBSET S /\ IsFiniteSet(rest)
    BY FS_Subset
<1>2. IsIter(f, S, Iter(f, S)) /\ IsIter(f, rest, Iter(f, rest))
    BY <1>1, IterExists
<1>3. Pick(S) \in S /\ Iter(f, S)[S] = f[Pick(S)] + Iter(f, S)[rest]
    BY <1>1, <1>2, IterStep
<1>4. Iter(f, S)[rest] = Iter(f, rest)[rest]
    BY <1>2, IterUnique
<1> QED
    BY <1>3, <1>4, SumIs

LEMMA SumAgree ==
    ASSUME NEW f, NEW g, NEW S, \A x \in S : f[x] = g[x]
    PROVE  SumFunctionOnSet(f, S) = SumFunctionOnSet(g, S)
<1>1. ASSUME NEW it PROVE IsIter(f, S, it) <=> IsIter(g, S, it)
    <2>1. \A s \in SUBSET S : s # {} => Pick(s) \in S
        BY DEF Pick
    <2>2. \A s \in SUBSET S : (IF s = {} THEN 0 ELSE f[Pick(s)] + it[s \ {Pick(s)}])
                                = (IF s = {} THEN 0 ELSE g[Pick(s)] + it[s \ {Pick(s)}])
        BY <2>1
    <2> QED
        BY <2>2 DEF IsIter
<1>2. Iter(f, S) = Iter(g, S)
    BY <1>1 DEF Iter
<1> QED
    BY <1>2, SumIs

LEMMA SumInt ==
    ASSUME NEW f, NEW S, IsFiniteSet(S), \A x \in S : f[x] \in Int
    PROVE  SumFunctionOnSet(f, S) \in Int
<1> DEFINE bad == {u \in SUBSET S : SumFunctionOnSet(f, u) \notin Int}
<1> SUFFICES ASSUME bad # {} PROVE FALSE
    OBVIOUS
<1>1. /\ bad \subseteq SUBSET S
      /\ \A u \in SUBSET S : u \in bad <=> SumFunctionOnSet(f, u) \notin Int
    OBVIOUS
<1> HIDE DEF bad
<1>2. PICK m \in bad : \A k \in bad : k \subseteq m => k = m
    BY <1>1, SmallestSubset
<1>3. m # {} /\ IsFiniteSet(m)
    <2>1. {} \in SUBSET S /\ 0 \in Int
        OBVIOUS
    <2> QED
        BY <1>1, <2>1, SumEmpty, FS_Subset
<1>4. /\ Pick(m) \in m
      /\ SumFunctionOnSet(f, m) = f[Pick(m)] + SumFunctionOnSet(f, m \ {Pick(m)})
    BY <1>3, SumPick
<1>5. m \ {Pick(m)} \in SUBSET S /\ m \ {Pick(m)} \notin bad
    BY <1>1, <1>2, <1>4
<1>6. SumFunctionOnSet(f, m \ {Pick(m)}) \in Int /\ f[Pick(m)] \in Int
    BY <1>1, <1>4, <1>5
<1> QED
    BY <1>1, <1>4, <1>6

\* Any element can be taken first.
LEMMA SumTake ==
    ASSUME NEW f, NEW S, IsFiniteSet(S), \A x \in S : f[x] \in Int, NEW e \in S
    PROVE  SumFunctionOnSet(f, S) = f[e] + SumFunctionOnSet(f, S \ {e})
<1> DEFINE Sum(u) == SumFunctionOnSet(f, u)
           bad == {u \in SUBSET S : \E x \in u : Sum(u) # f[x] + Sum(u \ {x})}
<1> SUFFICES ASSUME bad # {} PROVE FALSE
    OBVIOUS
<1>1. /\ bad \subseteq SUBSET S
      /\ \A u \in SUBSET S : u \notin bad => \A x \in u : Sum(u) = f[x] + Sum(u \ {x})
      /\ \A u \in bad : \E x \in u : Sum(u) # f[x] + Sum(u \ {x})
    OBVIOUS
<1> HIDE DEF bad
<1>2. PICK m \in bad : \A k \in bad : k \subseteq m => k = m
    BY <1>1, SmallestSubset
<1>3. PICK x \in m : Sum(m) # f[x] + Sum(m \ {x})
    BY <1>1, <1>2
<1> DEFINE p == Pick(m)
<1>4. IsFiniteSet(m) /\ m \in SUBSET S
    BY <1>1, FS_Subset
<1>5. p \in m /\ Sum(m) = f[p] + Sum(m \ {p})
    BY <1>3, <1>4, SumPick
<1> HIDE DEF p
<1>6. p # x /\ x \in m \ {p} /\ p \in m \ {x}
    BY <1>3, <1>5
<1>7. /\ m \ {p} \in SUBSET S /\ m \ {p} \notin bad
      /\ m \ {x} \in SUBSET S /\ m \ {x} \notin bad
    BY <1>1, <1>2, <1>3, <1>5
<1> DEFINE both == (m \ {p}) \ {x}
<1>8. both = (m \ {x}) \ {p} /\ both \in SUBSET S /\ IsFiniteSet(both)
    BY <1>4, FS_Subset
<1>9. Sum(m \ {p}) = f[x] + Sum(both)
    BY <1>1, <1>6, <1>7
<1>10. Sum(m \ {x}) = f[p] + Sum(both)
    BY <1>1, <1>6, <1>7, <1>8
<1>11. Sum(both) \in Int
    BY <1>8, SumInt
<1>12. f[p] \in Int /\ f[x] \in Int
    BY <1>4, <1>5
<1> HIDE DEF both, Sum
<1> QED
    BY <1>3, <1>5, <1>9, <1>10, <1>11, <1>12

\* A sum of naturals is no less than a part of it.
LEMMA SumOfPart ==
    ASSUME NEW f, NEW S, IsFiniteSet(S), \A x \in S : f[x] \in Nat, NEW T, T \subseteq S
    PROVE  /\ SumFunctionOnSet(f, S) \in Nat /\ SumFunctionOnSet(f, T) \in Nat
           /\ SumFunctionOnSet(f, T) <= SumFunctionOnSet(f, S)
<1> DEFINE Sum(u) == SumFunctionOnSet(f, u)
           Fine(u) == \A v \in SUBSET u : Sum(v) \in Nat /\ Sum(u) \in Nat /\ Sum(v) <= Sum(u)
           bad == {u \in SUBSET S : ~Fine(u)}
<1> SUFFICES ASSUME bad # {} PROVE FALSE
    <2>1. S \in SUBSET S /\ S \notin bad
        OBVIOUS
    <2> QED
        BY <2>1
<1>1. /\ bad \subseteq SUBSET S
      /\ \A u \in SUBSET S : u \notin bad => Fine(u)
      /\ \A u \in bad : ~Fine(u)
    OBVIOUS
<1> HIDE DEF bad, Fine
<1>2. PICK m \in bad : \A k \in bad : k \subseteq m => k = m
    BY <1>1, SmallestSubset
<1>3. IsFiniteSet(m) /\ m \in SUBSET S
    BY <1>1, FS_Subset
<1>4. ASSUME NEW x \in m
      PROVE  /\ Sum(m) = f[x] + Sum(m \ {x}) /\ Fine(m \ {x}) /\ f[x] \in Nat
    <2>1. m \ {x} \in SUBSET S /\ m \ {x} \notin bad
        BY <1>2, <1>3
    <2>2. \A y \in m : f[y] \in Int
        BY <1>3
    <2> QED
        BY <1>1, <1>3, <2>1, <2>2, SumTake
<1>5. Sum(m) \in Nat
    <2>1. CASE m = {}
        BY <2>1, SumEmpty
    <2>2. CASE m # {}
        <3>1. PICK x \in m : TRUE
            BY <2>2
        <3>2. m \ {x} \in SUBSET (m \ {x})
            OBVIOUS
        <3>3. Sum(m \ {x}) \in Nat
            BY <1>4, <3>2 DEF Fine
        <3> HIDE DEF Sum
        <3> QED
            BY <1>4, <3>3
    <2> QED
        BY <2>1, <2>2
<1>6. ASSUME NEW v \in SUBSET m
      PROVE  Sum(v) \in Nat /\ Sum(v) <= Sum(m)
    <2>1. CASE v = m
        BY <1>5, <2>1
    <2>2. CASE v # m
        <3>1. PICK x \in m : x \notin v
            BY <2>2
        <3>2. v \in SUBSET (m \ {x}) 
            BY <3>1
        <3>3. Sum(v) \in Nat /\ Sum(m \ {x}) \in Nat /\ Sum(v) <= Sum(m \ {x})
            BY <1>4, <3>2 DEF Fine
        <3>4. Sum(m) = f[x] + Sum(m \ {x}) /\ f[x] \in Nat
            BY <1>4
        <3> HIDE DEF Sum
        <3> QED
            BY <3>3, <3>4
    <2> QED
        BY <2>1, <2>2
<1> QED
    BY <1>1, <1>5, <1>6 DEF Fine

-----------------------------------------------------------------------------
(* A result is explained by its own factors.                               *)

\* Explained looks at five columns.
LEMMA SameColumns ==
    ASSUME NEW r, NEW q, Explained(r), q.overall = r.overall, q.confidence = r.confidence,
           q.recommendation = r.recommendation, q.factors = r.factors,
           q.explanation = r.explanation
    PROVE  Explained(q)
    BY DEF Explained

LEMMA ScoreIsExplained ==
    ASSUME NEW factors, NEW weights \in Weightings, NEW eligible, NEW days
    PROVE  Explained(Score(factors, weights, eligible, days))
<1> DEFINE values == [d \in Dimensions |-> ClampUnit(factors[d])]
           r == Score(factors, weights, eligible, days)
           missing == {d \in Dimensions : values[d] = Unknown}
<1>1. /\ r.overall = Overall(values, weights)
      /\ r.confidence = Confidence(values, weights)
      /\ r.recommendation = Recommend(r.overall, r.confidence, eligible)
      /\ r.factors = AsFactors(values, weights)
      /\ r.explanation = Explain(values, Contributions(values, weights), r.recommendation,
                                 days, eligible)
    BY DEF Score
<1>2. /\ r.explanation.missing = missing
      /\ r.explanation.next_step = NextStep(r.recommendation, missing)
    BY <1>1 DEF Explain
<1>3. r.factors.dimensions = values /\ r.factors.confidence = Confidence(values, weights)
    BY <1>1 DEF AsFactors
<1>4. r.recommendation \in {Recommend(r.overall, r.factors.confidence, Unknown), "INELIGIBLE"}
    BY <1>1, <1>3, ScaleAssumption DEF Recommend
<1> HIDE DEF r, values
<1>5. Explained(r)
    BY <1>1, <1>2, <1>3, <1>4 DEF Explained
<1> QED
    BY <1>5 DEF r

LEMMA RowIsExplained ==
    ASSUME NEW o, NEW settings, NEW weights \in Weightings, NEW moment
    PROVE  Explained(RowOf(o, settings, weights, moment))
<1> DEFINE derived == Derive(Facts[o], Person, now)
           result == Score(derived.values, weights, derived.eligible, derived.days)
           row == RowOf(o, settings, weights, moment)
<1>1. Explained(result)
    BY ScoreIsExplained
<1>2. /\ row.overall = result.overall /\ row.confidence = result.confidence
      /\ row.recommendation = result.recommendation /\ row.factors = result.factors
      /\ row.explanation = result.explanation
    BY DEF RowOf
<1> HIDE DEF result, row
<1>3. Explained(row)
    BY <1>1, <1>2, SameColumns
<1> QED
    BY <1>3 DEF row

\* Where nobody has touched the row since it was selected, the UPDATE leaves
\* the result in it.
LEMMA OverwriteOfSelected ==
    ASSUME NEW stored, NEW result, Explained(result)
    PROVE  Explained(Overwrite(stored, stored, result))
<1> DEFINE row == Overwrite(stored, stored, result)
<1>1. \A c \in Columns : row[c] = result[c]
    BY DEF Overwrite
<1>2. /\ row.overall = result.overall /\ row.confidence = result.confidence
      /\ row.recommendation = result.recommendation /\ row.factors = result.factors
      /\ row.explanation = result.explanation
    BY <1>1 DEF Columns
<1> HIDE DEF row
<1>3. Explained(row)
    BY <1>2, SameColumns
<1> QED
    BY <1>3 DEF row

-----------------------------------------------------------------------------
(* The least of some naturals, and the oldest of some opportunities.       *)

LEMMA LeastOf ==
    ASSUME NEW S, S \subseteq Nat, S # {}
    PROVE  \E m \in S : \A k \in S : m <= k
<1> DEFINE family == {0 .. k : k \in S}
<1>1. family \subseteq FiniteSubsetsOf(Nat) /\ family # {}
    <2>1. \A k \in S : IsFiniteSet(0 .. k) /\ (0 .. k) \subseteq Nat
        BY FS_Interval
    <2> QED
        BY <2>1 DEF FiniteSubsetsOf
<1>2. /\ \A k \in S : (0 .. k) \in family
      /\ \A t \in family : \E m \in S : t = 0 .. m
    OBVIOUS
<1> HIDE DEF family
<1>3. PICK t \in family : \A u \in family : u \subseteq t => u = t
    BY <1>1, Smallest
<1>4. PICK m \in S : t = 0 .. m
    BY <1>2
<1>5. ASSUME NEW k \in S PROVE m <= k
    <2>1. CASE k < m
        <3>1. (0 .. k) \subseteq 0 .. m
            BY <2>1
        <3>2. 0 .. k = 0 .. m
            BY <1>2, <1>3, <1>4, <3>1
        <3> QED
            BY <2>1, <3>2
    <2> QED
        BY <2>1
<1> QED
    BY <1>5

LEMMA OldestIsOne ==
    ASSUME NEW opps, opps \subseteq Opps, opps # {}
    PROVE  Oldest(opps) \in opps
<1> DEFINE places == {CreatedAt(o) : o \in opps}
<1>1. \A o \in Opps : CreatedAt(o) \in DOMAIN Created
    BY RankingAssumption DEF CreatedAt
<1>2. places \subseteq Nat /\ places # {}
    <2>1. DOMAIN Created \subseteq Nat
        BY RankingAssumption
    <2> QED
        BY <1>1, <2>1
<1>3. PICK i \in places : \A j \in places : i <= j
    BY <1>2, LeastOf
<1>4. PICK o \in opps : \A p \in opps : CreatedAt(o) <= CreatedAt(p)
    BY <1>3
<1> QED
    BY <1>4 DEF Oldest

-----------------------------------------------------------------------------
(* The invariant: where rows and requests come from.                       *)

Fields == {"pc", "goal", "settings", "left", "ids", "found", "result", "status",
           "moved", "writes"}

Figures == {"overall", "confidence", "recommendation"}

GoalWeights(settings) == WeightsFor(settings.profile, settings.override)

Scored(o, settings, t) ==
    LET derived == Derive(Facts[o], Person, t)
    IN  Score(derived.values, GoalWeights(settings), derived.eligible, derived.days)

\* Each figure of a row was computed for its opportunity with weights of its
\* version, the figures of a contested row perhaps not at the same time.
Computed(k, row) ==
    \A c \in Figures : \E settings \in GoalSettings, t \in Times :
        /\ GoalWeights(settings) # ScoringError
        /\ GoalWeights(settings).version = k[3]
        /\ row[c] = Scored(k[1], settings, t)[c]

\* What is known of a row written: disputed are the contested keys.
RowInv(k, row, disputed) ==
    /\ k[1] \in Opps /\ k[2] \in Goals
    /\ Computed(k, row)
    /\ k \in disputed \/ Explained(row)

KeyOf(m) == Key(Oldest(m.left), m.goal, m.result.factors.version)

\* What is known of a request: stored are the keys of the committed rows.
RequestInv(m, stored, disputed) ==
    /\ DOMAIN m = Fields
    /\ m.goal \in Goals /\ m.settings \in GoalSettings
    /\ m.left \subseteq Opps /\ m.left \subseteq DOMAIN m.status
    /\ m.moved \subseteq DOMAIN m.status /\ (m.pc = "load" => m.moved = {})
    /\ \A o \in DOMAIN m.status : m.status[o] \in Statuses
    /\ m.pc \in {"select", "write"} => m.left # {}
    /\ m.pc = "write" =>
        /\ Explained(m.result) /\ Computed(KeyOf(m), m.result)
        /\ m.found # NoRow => KeyOf(m) \in stored
    /\ \A k \in DOMAIN m.writes : RowInv(k, m.writes[k], disputed)

RankInv ==
    /\ now \in Times /\ goals \in [Goals -> GoalSettings] /\ status \in [Opps -> Statuses]
    /\ DOMAIN scoring = Sessions
    /\ contested \subseteq DOMAIN rows
    /\ \A k \in DOMAIN rows : RowInv(k, rows[k], contested)
    /\ \A s \in Sessions : scoring[s] # Idle => RequestInv(scoring[s], DOMAIN rows, contested)

\* More rows and more disputes leave a request what it was.
LEMMA RequestsKeep ==
    ASSUME NEW m, NEW stored, NEW disputed, RequestInv(m, stored, disputed),
           NEW stored2, stored \subseteq stored2, NEW disputed2, disputed \subseteq disputed2
    PROVE  RequestInv(m, stored2, disputed2)
<1>1. \A k, row : RowInv(k, row, disputed) => RowInv(k, row, disputed2)
    BY DEF RowInv
<1> QED
    BY <1>1 DEF RequestInv

\* One session's request goes on, with the others and the rows as they were.
LEMMA RequestGoesOn ==
    ASSUME RankInv, NEW s \in Sessions, NEW m, m # Idle => RequestInv(m, DOMAIN rows, contested'),
           scoring' = [scoring EXCEPT ![s] = m], contested \subseteq contested',
           contested' \subseteq DOMAIN rows, UNCHANGED <<now, goals, status, rows>>
    PROVE  RankInv'
<1>1. /\ DOMAIN scoring' = Sessions /\ scoring'[s] = m
      /\ \A u \in Sessions \ {s} : scoring'[u] = scoring[u]
    BY DEF RankInv
<1>2. \A k \in DOMAIN rows : RowInv(k, rows[k], contested')
    BY DEF RankInv, RowInv
<1>3. \A u \in Sessions : scoring'[u] # Idle => RequestInv(scoring'[u], DOMAIN rows, contested')
    <2> TAKE u \in Sessions
    <2> HAVE scoring'[u] # Idle
    <2>1. CASE u = s
        BY <1>1, <2>1
    <2>2. CASE u # s
        BY <1>1, <2>2, RequestsKeep DEF RankInv
    <2> QED
        BY <2>1, <2>2
<1> QED
    BY <1>1, <1>2, <1>3 DEF RankInv

LEMMA Starts ==
    ASSUME RankInv, NEW s \in Sessions, NEW g \in Goals, NEW ids, StartScoring(s, g, ids)
    PROVE  RankInv'
<1> DEFINE m == [pc |-> "load", goal |-> g, settings |-> goals[g], left |-> {},
                 ids |-> ids, found |-> NoRow, result |-> NoRow,
                 status |-> <<>>, moved |-> {}, writes |-> <<>>]
<1>1. /\ scoring' = [scoring EXCEPT ![s] = m]
      /\ UNCHANGED <<now, goals, status, rows, contested>>
    BY DEF StartScoring
<1>2. goals[g] \in GoalSettings /\ contested \subseteq DOMAIN rows
    BY DEF RankInv
<1>3. /\ DOMAIN m = Fields /\ m.goal = g /\ m.settings = goals[g] /\ m.left = {}
      /\ m.status = <<>> /\ m.moved = {} /\ m.writes = <<>> /\ m.pc = "load"
    BY DEF Fields
<1> HIDE DEF m
<1>4. RequestInv(m, DOMAIN rows, contested')
    BY <1>2, <1>3 DEF RequestInv
<1> QED
    BY <1>1, <1>2, <1>4, RequestGoesOn

LEMMA Loads ==
    ASSUME RankInv, NEW s \in Sessions, LoadOpportunities(s)
    PROVE  RankInv'
<1> DEFINE mine == scoring[s]
           found == Candidates(mine.ids)
           m == [mine EXCEPT !.pc = "select", !.left = found,
                             !.status = [o \in found |-> status[o]]]
           next == IF found = {} THEN Idle ELSE m
<1>1. /\ mine # Idle /\ scoring' = [scoring EXCEPT ![s] = next]
      /\ mine.pc = "load" /\ UNCHANGED <<now, goals, status, rows, contested>>
    BY DEF LoadOpportunities
<1>2. RequestInv(mine, DOMAIN rows, contested) /\ contested \subseteq DOMAIN rows
    BY <1>1 DEF RankInv
<1>3. found \subseteq Opps /\ \A o \in Opps : status[o] \in Statuses
    BY DEF Candidates, RankInv
<1>4. /\ DOMAIN m = Fields /\ m.goal = mine.goal /\ m.settings = mine.settings
      /\ m.left = found /\ m.status = [o \in found |-> status[o]] /\ m.moved = mine.moved
      /\ m.writes = mine.writes /\ m.pc = "select"
    BY <1>2 DEF RequestInv, Fields
<1> HIDE DEF mine, found, m
<1>5. found # {} => RequestInv(m, DOMAIN rows, contested')
    BY <1>1, <1>2, <1>3, <1>4 DEF RequestInv
<1>6. next # Idle => RequestInv(next, DOMAIN rows, contested')
    BY <1>5
<1> HIDE DEF next
<1> QED
    BY <1>1, <1>2, <1>6, RequestGoesOn

\* A scoring's own result: computed with the goal's weights as they were read.
LEMMA ResultOf ==
    ASSUME RankInv, NEW o \in Opps, NEW settings \in GoalSettings, NEW g, NEW moment,
           GoalWeights(settings) # ScoringError
    PROVE  LET row == RowOf(o, settings, GoalWeights(settings), moment)
           IN  /\ row.factors.version = GoalWeights(settings).version
               /\ Explained(row)
               /\ Computed(Key(o, g, row.factors.version), row)
<1> DEFINE weights == GoalWeights(settings)
           row == RowOf(o, settings, weights, moment)
           result == Scored(o, settings, now)
<1>1. /\ row.overall = result.overall /\ row.confidence = result.confidence
      /\ row.recommendation = result.recommendation /\ row.factors = result.factors
    BY DEF RowOf, Scored
<1>2. result.factors.version = weights.version
    BY DEF Scored, Score, AsFactors
<1>3. Explained(row)
    <2>1. weights \in Weightings
        BY DEF GoalWeights, Weightings
    <2> HIDE DEF row, weights
    <2> QED
        BY <2>1, RowIsExplained DEF row
<1>4. now \in Times
    BY DEF RankInv
<1>5. \A c \in Figures : row[c] = result[c]
    BY <1>1 DEF Figures
<1>6. Key(o, g, weights.version)[1] = o /\ Key(o, g, weights.version)[3] = weights.version
    BY DEF Key
<1> HIDE DEF row, weights
<1>7. Computed(Key(o, g, weights.version), row)
    BY <1>4, <1>5, <1>6 DEF Computed, weights
<1>8. row.factors.version = weights.version
    BY <1>1, <1>2
<1> QED
    BY <1>3, <1>7, <1>8 DEF row, weights

LEMMA Selects ==
    ASSUME RankInv, NEW s \in Sessions, SelectScore(s)
    PROVE  RankInv'
<1> DEFINE mine == scoring[s]
           o == Oldest(mine.left)
           weights == GoalWeights(mine.settings)
           key == Key(o, mine.goal, weights.version)
           result == RowOf(o, mine.settings, weights, NextMoment(o))
           found == IF key \in DOMAIN rows THEN rows[key] ELSE NoRow
           m == [mine EXCEPT !.pc = "write", !.found = found, !.result = result]
           next == IF weights = ScoringError THEN Idle ELSE m
<1>1. /\ mine # Idle /\ scoring' = [scoring EXCEPT ![s] = next]
      /\ mine.pc = "select" /\ UNCHANGED <<now, goals, status, rows, contested>>
    BY DEF SelectScore, GoalWeights
<1>2. RequestInv(mine, DOMAIN rows, contested) /\ contested \subseteq DOMAIN rows
    BY <1>1 DEF RankInv
<1>3. o \in Opps /\ mine.settings \in GoalSettings /\ mine.left # {}
    BY <1>1, <1>2, OldestIsOne DEF RequestInv
<1>4. /\ DOMAIN m = Fields /\ m.goal = mine.goal /\ m.settings = mine.settings
      /\ m.left = mine.left /\ m.status = mine.status /\ m.moved = mine.moved
      /\ m.writes = mine.writes /\ m.pc = "write" /\ m.found = found /\ m.result = result
    BY <1>2 DEF RequestInv, Fields
<1>5. ASSUME weights # ScoringError
      PROVE  /\ result.factors.version = weights.version /\ Explained(result)
             /\ Computed(Key(o, mine.goal, result.factors.version), result)
    BY <1>3, <1>5, ResultOf
<1>6. found # NoRow => key \in DOMAIN rows
    OBVIOUS
<1> HIDE DEF mine, o, weights, result, found, m
<1>7. ASSUME weights # ScoringError PROVE RequestInv(m, DOMAIN rows, contested')
    <2>1. KeyOf(m) = key /\ key = Key(o, mine.goal, result.factors.version)
        BY <1>4, <1>5, <1>7 DEF KeyOf, o
    <2> HIDE DEF key
    <2> QED
        BY <1>1, <1>2, <1>3, <1>4, <1>5, <1>6, <1>7, <2>1 DEF RequestInv
<1>8. next # Idle => RequestInv(m, DOMAIN rows, contested') /\ next = m
    BY <1>7
<1> HIDE DEF next
<1> QED
    BY <1>1, <1>2, <1>8, RequestGoesOn

LEMMA OverwriteIsComputed ==
    ASSUME NEW k, NEW stored, NEW found, NEW result, Computed(k, stored), Computed(k, result)
    PROVE  Computed(k, Overwrite(stored, found, result))
<1> DEFINE row == Overwrite(stored, found, result)
<1>1. \A c \in Figures : row[c] = result[c] \/ row[c] = stored[c]
    BY DEF Overwrite, Figures, Columns
<1> HIDE DEF row
<1>2. Computed(k, row)
    BY <1>1 DEF Computed
<1> QED
    BY <1>2 DEF row

LEMMA Writes ==
    ASSUME RankInv, NEW s \in Sessions, WriteScore(s)
    PROVE  RankInv'
<1> DEFINE mine == scoring[s]
           o == Oldest(mine.left)
           key == KeyOf(mine)
           row == IF mine.found = NoRow THEN mine.result
                  ELSE Overwrite(rows[key], mine.found, mine.result)
           target == Moved(mine.status[o], TargetStatus(mine.result.recommendation))
           taken == mine.found = NoRow /\ key \in DOMAIN rows
           m == [mine EXCEPT !.pc = IF mine.left = {o} THEN "commit" ELSE "select",
                        !.left = @ \ {o}, !.found = NoRow, !.result = NoRow,
                        !.writes = With(mine.writes, key, row),
                        !.status[o] = target,
                        !.moved = IF target # mine.status[o] THEN @ \union {o} ELSE @]
           next == IF taken THEN Idle ELSE m
<1>1. /\ mine # Idle /\ mine.pc = "write" /\ scoring' = [scoring EXCEPT ![s] = next]
      /\ contested' = IF ~taken /\ mine.found # NoRow /\ rows[key] # mine.found
                      THEN contested \union {key} ELSE contested
      /\ UNCHANGED <<now, goals, status, rows>>
    BY DEF WriteScore, KeyOf
<1>2. RequestInv(mine, DOMAIN rows, contested) /\ contested \subseteq DOMAIN rows
    BY <1>1 DEF RankInv
<1>3. o \in mine.left /\ o \in Opps /\ o \in DOMAIN mine.status
    BY <1>1, <1>2, OldestIsOne DEF RequestInv
<1>4. target \in Statuses
    <2>1. mine.status[o] \in Statuses
        BY <1>2, <1>3 DEF RequestInv
    <2> QED
        BY <2>1 DEF Moved, TargetStatus, Statuses
<1>5. /\ DOMAIN m = Fields /\ m.goal = mine.goal /\ m.settings = mine.settings
      /\ m.left = mine.left \ {o} /\ m.writes = With(mine.writes, key, row)
      /\ m.pc = IF mine.left = {o} THEN "commit" ELSE "select"
      /\ m.status = [mine.status EXCEPT ![o] = target]
      /\ m.moved \subseteq mine.moved \union {o}
    <2> HIDE DEF mine, o, key, row, target
    <2> QED
        BY <1>2 DEF RequestInv, Fields
<1>6. /\ Explained(mine.result) /\ Computed(key, mine.result)
      /\ mine.found # NoRow => key \in DOMAIN rows
    BY <1>1, <1>2 DEF RequestInv
<1>7. key[1] = o /\ key[2] = mine.goal /\ mine.goal \in Goals
    BY <1>2 DEF KeyOf, Key, RequestInv
<1>8. ASSUME ~taken PROVE RowInv(key, row, contested')
    <2>1. CASE mine.found = NoRow
        BY <1>3, <1>6, <1>7, <2>1 DEF RowInv
    <2>2. CASE mine.found # NoRow
        <3>1. Computed(key, rows[key])
            BY <1>6, <2>2 DEF RankInv, RowInv
        <3>2. Computed(key, row)
            BY <1>6, <2>2, <3>1, OverwriteIsComputed
        <3>3. CASE rows[key] = mine.found
            <4>1. Explained(row)
                BY <1>6, <2>2, <3>3, OverwriteOfSelected
            <4> HIDE DEF row, key
            <4> QED
                BY <1>3, <1>7, <3>2, <4>1 DEF RowInv
        <3>4. CASE rows[key] # mine.found
            <4> HIDE DEF row, key
            <4> QED
                BY <1>1, <1>3, <1>7, <1>8, <2>2, <3>2, <3>4 DEF RowInv
        <3> QED
            BY <3>3, <3>4
    <2> QED
        BY <2>1, <2>2
<1>9. contested \subseteq contested' /\ contested' \subseteq DOMAIN rows
    BY <1>1, <1>2, <1>6
<1> HIDE DEF mine, o, key, row, target, m
<1>10. ASSUME ~taken PROVE RequestInv(m, DOMAIN rows, contested')
    <2>1. \A k \in DOMAIN m.writes : RowInv(k, m.writes[k], contested')
        <3>1. \A k \in DOMAIN mine.writes : RowInv(k, mine.writes[k], contested')
            BY <1>2, <1>9 DEF RequestInv, RowInv
        <3> QED
            BY <1>5, <1>8, <1>10, <3>1 DEF With
    <2>2. /\ DOMAIN m.status = DOMAIN mine.status
          /\ \A p \in DOMAIN m.status : m.status[p] \in Statuses
        BY <1>2, <1>4, <1>5 DEF RequestInv
    <2>3. /\ m.pc \in {"select", "commit"} /\ (m.pc = "select" => m.left # {})
          /\ m.left \subseteq mine.left /\ m.moved \subseteq DOMAIN m.status
        BY <1>2, <1>3, <1>5, <2>2 DEF RequestInv
    <2> QED
        BY <1>2, <1>5, <2>1, <2>2, <2>3 DEF RequestInv
<1>11. next # Idle => RequestInv(next, DOMAIN rows, contested')
    BY <1>10
<1> HIDE DEF next, taken
<1> QED
    BY <1>1, <1>9, <1>11, RequestGoesOn

LEMMA Commits ==
    ASSUME RankInv, NEW s \in Sessions, CommitScoring(s)
    PROVE  RankInv'
<1> DEFINE mine == scoring[s]
<1>1. /\ mine # Idle /\ scoring' = [scoring EXCEPT ![s] = Idle]
      /\ rows' = [k \in DOMAIN rows \union DOMAIN mine.writes |->
                      IF k \in DOMAIN mine.writes THEN mine.writes[k] ELSE rows[k]]
      /\ status' = [o \in Opps |-> IF o \in mine.moved THEN mine.status[o] ELSE status[o]]
      /\ UNCHANGED <<now, goals, contested>>
    BY DEF CommitScoring
<1>2. RequestInv(mine, DOMAIN rows, contested) /\ contested \subseteq DOMAIN rows
    BY <1>1 DEF RankInv
<1> HIDE DEF mine
<1>3. DOMAIN rows \subseteq DOMAIN rows'
    BY <1>1
<1>4. \A k \in DOMAIN rows' : RowInv(k, rows'[k], contested')
    BY <1>1, <1>2 DEF RequestInv, RankInv
<1>5. status' \in [Opps -> Statuses]
    BY <1>1, <1>2 DEF RequestInv, RankInv
<1>6. DOMAIN scoring' = Sessions /\ \A u \in Sessions : scoring'[u] # Idle => scoring'[u] = scoring[u]
    BY <1>1 DEF RankInv
<1>7. \A u \in Sessions : scoring'[u] # Idle => RequestInv(scoring'[u], DOMAIN rows', contested')
    BY <1>1, <1>3, <1>6, RequestsKeep DEF RankInv
<1> QED
    BY <1>1, <1>2, <1>3, <1>4, <1>5, <1>6, <1>7 DEF RankInv

LEMMA RankInvStep == RankInv /\ [Next]_vars => RankInv'
<1> SUFFICES ASSUME RankInv, [Next]_vars PROVE RankInv'
    OBVIOUS
<1>1. ASSUME NEW s \in Sessions, NEW g \in Goals, NEW ids \in Selections, StartScoring(s, g, ids)
      PROVE  RankInv'
    BY <1>1, Starts
<1>2. ASSUME NEW s \in Sessions, ScoreStep(s) PROVE RankInv'
    BY <1>2, Loads, Selects, Writes, Commits DEF ScoreStep
<1>3. ASSUME NEW g \in Goals, NEW settings \in GoalSettings, UpdateGoal(g, settings)
      PROVE  RankInv'
    BY <1>3 DEF UpdateGoal, RankInv
<1>4. ASSUME NEW chosen, Refresh(chosen) PROVE RankInv'
    <2>1. /\ status' \in [Opps -> Statuses]
          /\ UNCHANGED <<now, goals, rows, scoring, contested>>
        BY <1>4 DEF Refresh, RankInv, Statuses, Exits
    <2> QED
        BY <2>1 DEF RankInv
<1>5. CASE ClockTicks
    BY <1>5 DEF ClockTicks, RankInv
<1>6. CASE UNCHANGED vars
    BY <1>6 DEF vars, RankInv
<1> QED
    BY <1>1, <1>2, <1>3, <1>4, <1>5, <1>6 DEF Next, RevalidateTask, RefreshOne

LEMMA RankInvInit == Init => RankInv
<1> SUFFICES ASSUME Init PROVE RankInv
    OBVIOUS
<1>1. now \in Times
    BY RankingAssumption, LeastOf DEF Init, Earliest
<1>2. status \in [Opps -> Statuses]
    BY DEF Init, Statuses, Exits
<1>3. rows = <<>> /\ DOMAIN rows = {}
    BY DEF Init
<1> QED
    BY <1>1, <1>2, <1>3 DEF Init, RankInv

THEOREM RankInvAlways == Spec => []RankInv
    BY RankInvInit, RankInvStep, PTL DEF Spec

\* A row no other session rewrote between a session's SELECT and its UPDATE can
\* be recomputed from its own factors, however scorings, goal edits, refreshes
\* and the clock interleave (scoring_service.py _upsert).
THEOREM UncontestedTheorem == Spec => []UncontestedRowsAreExplained
<1>1. RankInv => UncontestedRowsAreExplained
    BY DEF RankInv, RowInv, UncontestedRowsAreExplained
<1> QED
    BY <1>1, RankInvAlways, PTL

-----------------------------------------------------------------------------
(* The default weights.                                                    *)

LEMMA BenefitNames ==
    BenefitDimensions = {"fit", "value", "probability", "strategic", "time",
                         "learning", "network", "long_term"}
    BY DEF BenefitDimensions, Benefits

LEMMA Positions ==
    /\ Position("fit") = 1 /\ Position("value") = 2 /\ Position("probability") = 3
    /\ Position("strategic") = 4 /\ Position("time") = 5 /\ Position("learning") = 6
    /\ Position("network") = 7 /\ Position("long_term") = 8
    BY DEF Position, Benefits

LEMMA SumOne ==
    ASSUME NEW f, NEW S, IsFiniteSet(S), NEW e, e \notin S, \A x \in S \union {e} : f[x] \in Int
    PROVE  /\ IsFiniteSet(S \union {e})
           /\ SumFunctionOnSet(f, S \union {e}) = f[e] + SumFunctionOnSet(f, S)
           /\ SumFunctionOnSet(f, S) \in Int
<1>1. IsFiniteSet(S \union {e}) /\ (S \union {e}) \ {e} = S
    BY FS_AddElement
<1> QED
    BY <1>1, SumTake, SumInt

LEMMA SumOfThree ==
    ASSUME NEW f, f["fit"] \in Int, f["value"] \in Int, f["time"] \in Int
    PROVE  /\ IsFiniteSet({"fit", "value", "time"})
           /\ SumFunctionOnSet(f, {"fit", "value", "time"}) = f["fit"] + f["value"] + f["time"]
<1> DEFINE Sum(S) == SumFunctionOnSet(f, S)
           A == {} \union {"time"}
           B == A \union {"value"}
           C == B \union {"fit"}
<1>1. IsFiniteSet({}) /\ Sum({}) = 0
    BY FS_EmptySet, SumEmpty
<1>2. IsFiniteSet(A) /\ Sum(A) = f["time"] + Sum({}) /\ Sum({}) \in Int
    BY <1>1, SumOne
<1>3. "value" \notin A /\ \A x \in A \union {"value"} : f[x] \in Int
    OBVIOUS
<1>4. IsFiniteSet(B) /\ Sum(B) = f["value"] + Sum(A) /\ Sum(A) \in Int
    <2> HIDE DEF A
    <2> QED
        BY <1>2, <1>3, SumOne
<1>5. "fit" \notin B /\ \A x \in B \union {"fit"} : f[x] \in Int
    OBVIOUS
<1>6. IsFiniteSet(C) /\ Sum(C) = f["fit"] + Sum(B) /\ Sum(B) \in Int
    <2> HIDE DEF B
    <2> QED
        BY <1>4, <1>5, SumOne
<1>7. C = {"fit", "value", "time"}
    OBVIOUS
<1> HIDE DEF A, B, C, Sum
<1>8. Sum(C) = f["fit"] + f["value"] + f["time"]
    BY <1>1, <1>2, <1>4, <1>6
<1> QED
    BY <1>6, <1>7, <1>8 DEF Sum

LEMMA SumOverBenefits ==
    ASSUME NEW f, \A d \in BenefitDimensions : f[d] \in Int
    PROVE  /\ IsFiniteSet(BenefitDimensions)
           /\ SumFunctionOnSet(f, BenefitDimensions)
                = f["fit"] + f["value"] + f["probability"] + f["strategic"] + f["time"]
                  + f["learning"] + f["network"] + f["long_term"]
<1> DEFINE Sum(S) == SumFunctionOnSet(f, S)
           A == {"fit", "value", "time"}
           B == A \union {"probability"}
           C == B \union {"strategic"}
           D == C \union {"learning"}
           E == D \union {"network"}
           F == E \union {"long_term"}
<1>1. \A d \in F : f[d] \in Int
    BY BenefitNames
<1>2. IsFiniteSet(A) /\ Sum(A) = f["fit"] + f["value"] + f["time"]
    BY <1>1, SumOfThree
<1>3. /\ "probability" \notin A /\ "strategic" \notin B /\ "learning" \notin C
      /\ "network" \notin D /\ "long_term" \notin E
      /\ B \subseteq F /\ C \subseteq F /\ D \subseteq F /\ E \subseteq F
    OBVIOUS
<1>4. F = BenefitDimensions
    BY BenefitNames
<1>5. IsFiniteSet(B) /\ Sum(B) = f["probability"] + Sum(A)
    <2> HIDE DEF A
    <2> QED
        BY <1>1, <1>2, <1>3, SumOne
<1>6. IsFiniteSet(C) /\ Sum(C) = f["strategic"] + Sum(B)
    <2> HIDE DEF B
    <2> QED
        BY <1>1, <1>3, <1>5, SumOne
<1>7. IsFiniteSet(D) /\ Sum(D) = f["learning"] + Sum(C)
    <2> HIDE DEF C
    <2> QED
        BY <1>1, <1>3, <1>6, SumOne
<1>8. IsFiniteSet(E) /\ Sum(E) = f["network"] + Sum(D)
    <2> HIDE DEF D
    <2> QED
        BY <1>1, <1>3, <1>7, SumOne
<1>9. IsFiniteSet(F) /\ Sum(F) = f["long_term"] + Sum(E)
    <2> HIDE DEF E
    <2> QED
        BY <1>1, <1>3, <1>8, SumOne
<1>10. /\ f["fit"] \in Int /\ f["value"] \in Int /\ f["time"] \in Int /\ f["probability"] \in Int
       /\ f["strategic"] \in Int /\ f["learning"] \in Int /\ f["network"] \in Int
       /\ f["long_term"] \in Int
    BY <1>1
<1> HIDE DEF A, B, C, D, E, F, Sum
<1>11. Sum(F) = f["fit"] + f["value"] + f["probability"] + f["strategic"] + f["time"]
                  + f["learning"] + f["network"] + f["long_term"]
    BY <1>2, <1>5, <1>6, <1>7, <1>8, <1>9, <1>10
<1> QED
    BY <1>4, <1>9, <1>11 DEF Sum

\* A rounding that has nothing to round.
LEMMA RoundExact ==
    ASSUME NEW x \in Nat, NEW d \in Nat \ {0}
    PROVE  RoundHalfUp(x * d, d) = x /\ RoundHalfEven(x * d, d) = x
<1>1. RoundHalfUp(x * d, d) = x
    BY DEF RoundHalfUp
<1>2. (x * d) % d = 0
    OBVIOUS
<1> QED
    BY <1>1, <1>2 DEF RoundHalfEven

\* The tables: every benefit vector sums to a hundred, and what a posting tells
\* of (fit, value, time) is less than 0.45 of all there is to know.
LEMMA Tables ==
    \A profile \in Profiles :
        LET row == ProfileTable[profile]
        IN  /\ \A i \in 1 .. 10 : row[i] \in Nat
            /\ row[1] + row[2] + row[3] + row[4] + row[5] + row[6] + row[7] + row[8] = 100
            /\ 200 * (row[1] + row[2] + row[5]) < 89 * (100 + row[9] + row[10])
    BY DEF Profiles, ProfileTable

Unit == WeightScale \div 100

LEMMA UnitFacts == Unit \in Nat \ {0} /\ WeightScale = 100 * Unit
    BY ScaleAssumption DEF Unit

\* Nothing is left to rounding in a default vector.
LEMMA DefaultsAreExact ==
    ASSUME NEW profile \in Profiles
    PROVE  /\ DefaultWeights(profile).version = <<profile, "v1">>
           /\ \A d \in BenefitDimensions :
                DefaultWeights(profile).benefit[d] = ProfileTable[profile][Position(d)] * Unit
           /\ DefaultWeights(profile).effort = ProfileTable[profile][9] * Unit
           /\ DefaultWeights(profile).risk = ProfileTable[profile][10] * Unit
<1> DEFINE row == ProfileTable[profile]
           raw == [d \in BenefitDimensions |-> (row[Position(d)] * WeightScale) \div 100]
           effort == (row[9] * WeightScale) \div 100
           risk == (row[10] * WeightScale) \div 100
           total == SumFunction(raw)
           quantised == [d \in BenefitDimensions |-> RoundHalfEven(raw[d] * WeightScale, total)]
           drift == WeightScale - SumFunction(quantised)
<1>1. /\ \A i \in 1 .. 10 : row[i] \in Nat
      /\ row[1] + row[2] + row[3] + row[4] + row[5] + row[6] + row[7] + row[8] = 100
    BY Tables
<1>2. \A i \in 1 .. 10 : (row[i] * WeightScale) \div 100 = row[i] * Unit /\ row[i] * Unit \in Nat
    <2> TAKE i \in 1 .. 10
    <2> DEFINE x == row[i]
    <2>1. x \in Nat
        BY <1>1
    <2> HIDE DEF x
    <2>2. x * WeightScale = 100 * (x * Unit) /\ x * Unit \in Nat
        BY <2>1, UnitFacts
    <2>3. (x * WeightScale) \div 100 = x * Unit
        BY <2>2
    <2> QED
        BY <2>2, <2>3 DEF x
<1>3. \A d \in BenefitDimensions : Position(d) \in 1 .. 10
    BY BenefitNames, Positions
<1>4. \A d \in BenefitDimensions : raw[d] = row[Position(d)] * Unit /\ raw[d] \in Nat
    BY <1>2, <1>3
<1>5. effort = row[9] * Unit /\ risk = row[10] * Unit /\ effort \in Nat /\ risk \in Nat
    BY <1>2
<1>6. total = WeightScale
    <2>1. total = raw["fit"] + raw["value"] + raw["probability"] + raw["strategic"] + raw["time"]
                  + raw["learning"] + raw["network"] + raw["long_term"]
        BY <1>4, SumOverBenefits DEF SumFunction
    <2> HIDE DEF raw
    <2>2. /\ raw["fit"] = row[1] * Unit /\ raw["value"] = row[2] * Unit
          /\ raw["probability"] = row[3] * Unit /\ raw["strategic"] = row[4] * Unit
          /\ raw["time"] = row[5] * Unit /\ raw["learning"] = row[6] * Unit
          /\ raw["network"] = row[7] * Unit /\ raw["long_term"] = row[8] * Unit
        BY <1>4, BenefitNames, Positions
    <2>4. /\ row[1] \in Nat /\ row[2] \in Nat /\ row[3] \in Nat /\ row[4] \in Nat
          /\ row[5] \in Nat /\ row[6] \in Nat /\ row[7] \in Nat /\ row[8] \in Nat
        BY <1>1
    <2> HIDE DEF row, total
    <2>3. total = (row[1] + row[2] + row[3] + row[4] + row[5] + row[6] + row[7] + row[8]) * Unit
        BY <2>1, <2>2, <2>4, UnitFacts
    <2> QED
        BY <1>1, <2>3, UnitFacts DEF row
<1>7. quantised = raw
    <2>1. \A d \in BenefitDimensions : RoundHalfEven(raw[d] * WeightScale, total) = raw[d]
        BY <1>4, <1>6, RoundExact, ScaleAssumption
    <2> QED
        BY <2>1
<1>8. drift = 0
    BY <1>6, <1>7, ScaleAssumption
<1>9. /\ \A d \in BenefitDimensions : IsWeight(raw[d])
      /\ IsWeight(effort) /\ IsWeight(risk) /\ ~(total <= 0)
    BY <1>4, <1>5, <1>6, ScaleAssumption DEF IsWeight
<1> DEFINE benefit == [quantised EXCEPT ![Benefits[Heaviest(quantised)]] = @ + drift]
<1>10. DefaultWeights(profile) = Build(<<profile, "v1">>, raw, effort, risk)
    BY DEF DefaultWeights
<1>11. Build(<<profile, "v1">>, raw, effort, risk)
        = [version |-> <<profile, "v1">>, benefit |-> benefit, effort |-> effort, risk |-> risk]
    BY <1>9 DEF Build
<1>12. \A d \in BenefitDimensions : benefit[d] = raw[d]
    <2> TAKE d \in BenefitDimensions
    <2> DEFINE heaviest == Benefits[Heaviest(quantised)]
    <2>1. raw[d] \in Nat /\ quantised[d] = raw[d] /\ d \in DOMAIN quantised
        BY <1>4, <1>7
    <2> HIDE DEF raw, quantised, drift, heaviest
    <2>2. [quantised EXCEPT ![heaviest] = @ + drift][d] = raw[d]
        <3>1. CASE d = heaviest
            BY <1>8, <2>1, <3>1
        <3>2. CASE d # heaviest
            BY <2>1, <3>2
        <3> QED
            BY <3>1, <3>2
    <2> QED
        BY <2>2 DEF heaviest
<1> HIDE DEF benefit, raw, effort, risk
<1> QED
    BY <1>4, <1>5, <1>10, <1>11, <1>12

\* Rounding adds no more than a half.
LEMMA RoundHalfUpBound ==
    ASSUME NEW n \in Nat, NEW d \in Nat \ {0}
    PROVE  RoundHalfUp(n, d) \in Nat /\ RoundHalfUp(n, d) * (2 * d) <= 2 * n + d
<1>1. 2 * n + d \in Nat /\ 2 * d \in Nat \ {0}
    OBVIOUS
<1>2. \A a \in Nat, b \in Nat \ {0} : a \div b \in Nat /\ (a \div b) * b <= a
    OBVIOUS
<1> QED
    BY <1>1, <1>2 DEF RoundHalfUp

\* What a posting tells, with the default weights, falls short of the floor.
LEMMA TooLittleIsKnown ==
    ASSUME NEW profile \in Profiles, NEW values,
           Known(values) \subseteq {"fit", "value", "time"},
           values["effort"] = Unknown, values["risk"] = Unknown
    PROVE  100 * Confidence(values, DefaultWeights(profile)) < ConfidenceFloor * DimensionScale
<1> DEFINE weights == DefaultWeights(profile)
           row == ProfileTable[profile]
           derived == row[1] + row[2] + row[5]
           all == 100 + row[9] + row[10]
           known == KnownWeight(values, weights)
           conf == Confidence(values, weights)
<1>1. /\ \A i \in 1 .. 10 : row[i] \in Nat
      /\ 200 * derived < 89 * all
    BY Tables
<1>2. /\ row[1] \in Nat /\ row[2] \in Nat /\ row[5] \in Nat /\ row[9] \in Nat /\ row[10] \in Nat
      /\ derived \in Nat /\ all \in Nat /\ all >= 100
    BY <1>1
<1>3. /\ weights.benefit["fit"] = row[1] * Unit /\ weights.benefit["value"] = row[2] * Unit
      /\ weights.benefit["time"] = row[5] * Unit
      /\ weights.effort = row[9] * Unit /\ weights.risk = row[10] * Unit
    BY DefaultsAreExact, BenefitNames, Positions
<1> HIDE DEF weights, row, conf
<1>4. known \in Nat /\ known <= derived * Unit
    <2> DEFINE three == {"fit", "value", "time"}
    <2>1. \A x \in three : weights.benefit[x] \in Nat
        BY <1>2, <1>3, UnitFacts
    <2>2. /\ IsFiniteSet(three)
          /\ SumFunctionOnSet(weights.benefit, three)
                = weights.benefit["fit"] + weights.benefit["value"] + weights.benefit["time"]
        BY <2>1, SumOfThree
    <2>3. SumFunctionOnSet(weights.benefit, three) = derived * Unit
        BY <1>2, <1>3, <2>2, UnitFacts
    <2>4. /\ SumFunctionOnSet(weights.benefit, Known(values)) \in Nat
          /\ SumFunctionOnSet(weights.benefit, Known(values))
                <= SumFunctionOnSet(weights.benefit, three)
        <3> HIDE DEF three
        <3> QED
            BY <2>1, <2>2, SumOfPart DEF three
    <2> QED
        BY <2>3, <2>4 DEF KnownWeight
<1>5. KnownTotal(values, weights) = known
    BY <1>4 DEF KnownTotal
<1>6. TotalWeight(weights) = all * Unit
    BY <1>2, <1>3, UnitFacts DEF TotalWeight
<1> HIDE DEF known, derived, all
<1> DEFINE n == DimensionScale * known
           d == all * Unit
<1>7. n \in Nat /\ d \in Nat \ {0} /\ DimensionScale \in Nat /\ DimensionScale >= 100
    BY <1>2, <1>4, UnitFacts, ScaleAssumption
<1>8. conf = RoundHalfUp(n, d)
    BY <1>5, <1>6 DEF Confidence, conf
<1>9. conf \in Nat /\ conf * (2 * d) <= 2 * n + d
    BY <1>7, <1>8, RoundHalfUpBound
<1>10. n <= DimensionScale * (derived * Unit)
    BY <1>4, <1>2, <1>7, UnitFacts
<1> DEFINE p == DimensionScale * Unit
<1>11. p \in Nat /\ p >= 100 * Unit /\ p > 0
    BY <1>7, UnitFacts
<1>12. n <= derived * p
    BY <1>2, <1>7, <1>10, UnitFacts
<1>13. 200 * (derived * p) < 89 * (all * p)
    <2>1. 200 * derived < 89 * all
        BY <1>1 DEF derived, all
    <2> HIDE DEF p
    <2>2. (200 * derived) * p < (89 * all) * p
        BY <1>2, <1>11, <2>1
    <2> QED
        BY <1>2, <1>11, <2>2
<1>14. 100 * d <= all * p
    <2> HIDE DEF p
    <2>1. all * (100 * Unit) <= all * p
        BY <1>2, <1>11, UnitFacts
    <2> QED
        BY <1>2, <2>1, UnitFacts
<1>15. all * p = DimensionScale * d
    BY <1>2, <1>7, UnitFacts
<1>16. (100 * conf) * (2 * d) < (45 * DimensionScale) * (2 * d)
    <2> DEFINE ap == all * p
               dp == derived * p
               cd == conf * (2 * d)
    <2>1. /\ ap \in Nat /\ dp \in Nat /\ cd \in Nat
          /\ ap = DimensionScale * d
        BY <1>2, <1>7, <1>9, <1>11, <1>15
    <2>2. /\ cd <= 2 * n + d /\ n <= dp /\ 200 * dp < 89 * ap /\ 100 * d <= ap
        BY <1>9, <1>12, <1>13, <1>14
    <2> HIDE DEF ap, dp, cd, n, d
    <2>3. 100 * cd < 90 * ap
        BY <1>7, <2>1, <2>2
    <2>4. (100 * conf) * (2 * d) = 100 * cd /\ (45 * DimensionScale) * (2 * d) = 90 * (DimensionScale * d)
        BY <1>7, <1>9 DEF cd
    <2> QED
        BY <2>1, <2>3, <2>4
<1>17. 100 * conf < 45 * DimensionScale
    <2> DEFINE x == 100 * conf
               y == 45 * DimensionScale
               b == 2 * d
    <2>1. x \in Int /\ y \in Int /\ b \in Int /\ b > 0
        BY <1>7, <1>9
    <2>2. x * b < y * b
        BY <1>16
    <2> HIDE DEF x, y, b
    <2>3. x < y
        BY <2>1, <2>2
    <2> QED
        BY <2>3 DEF x, y
<1> QED
    BY <1>17 DEF ConfidenceFloor, conf, weights

\* Derived factors are those three, and the clamp invents none.
LEMMA OnlyThreeAreDerived ==
    ASSUME NEW opp, NEW profile, NEW t
    PROVE  LET factors == Derive(opp, profile, t).values
               values == [d \in Dimensions |-> ClampUnit(factors[d])]
           IN  /\ Known(values) \subseteq {"fit", "value", "time"}
               /\ values["effort"] = Unknown /\ values["risk"] = Unknown
<1> DEFINE factors == Derive(opp, profile, t).values
           values == [d \in Dimensions |-> ClampUnit(factors[d])]
<1>1. BenefitDimensions \subseteq Dimensions /\ "effort" \in Dimensions /\ "risk" \in Dimensions
    BY DEF Dimensions, CostDimensions
<1>2. \A d \in Dimensions : d \notin {"fit", "value", "time"} => factors[d] = Unknown
    BY DEF Derive
<1> HIDE DEF factors
<1>3. \A d \in Dimensions : d \notin {"fit", "value", "time"} => values[d] = Unknown
    BY <1>2 DEF ClampUnit
<1> HIDE DEF values
<1>4. Known(values) \subseteq {"fit", "value", "time"}
    BY <1>1, <1>3 DEF Known
<1>5. values["effort"] = Unknown /\ values["risk"] = Unknown
    BY <1>1, <1>3
<1> QED
    BY <1>4, <1>5 DEF values, factors

LEMMA VersionOfDefaults ==
    ASSUME NEW settings \in GoalSettings, GoalWeights(settings) # ScoringError,
           GoalWeights(settings).version[2] = "v1"
    PROVE  settings.profile \in Profiles /\ GoalWeights(settings) = DefaultWeights(settings.profile)
<1>1. settings.profile \in Profiles
    BY RankingAssumption
<1>2. CASE settings.override = NoOverride
    BY <1>1, <1>2 DEF GoalWeights, WeightsFor
<1>3. CASE settings.override # NoOverride
    <2> DEFINE base == DefaultWeights(settings.profile)
               version == <<settings.profile, "v1+override">>
    <2>1. GoalWeights(settings) = WithOverride(base, settings.override, version)
        BY <1>3 DEF GoalWeights, WeightsFor
    <2>2. \A raw, effort, risk : Build(version, raw, effort, risk) # ScoringError =>
            Build(version, raw, effort, risk).version = version
        BY DEF Build
    <2>3. GoalWeights(settings).version = version
        BY <2>1, <2>2 DEF WithOverride
    <2> QED
        BY <2>3
<1> QED
    BY <1>1, <1>2, <1>3

LEMMA DefaultsAreCautious ==
    ASSUME NEW o, NEW settings \in GoalSettings, NEW t, GoalWeights(settings) # ScoringError,
           GoalWeights(settings).version[2] = "v1"
    PROVE  Scored(o, settings, t).recommendation \notin Enthusiastic
<1> DEFINE weights == DefaultWeights(settings.profile)
           derived == Derive(Facts[o], Person, t)
           values == [d \in Dimensions |-> ClampUnit(derived.values[d])]
           overall == Overall(values, weights)
           conf == Confidence(values, weights)
<1>1. settings.profile \in Profiles /\ GoalWeights(settings) = weights
    BY VersionOfDefaults
<1>2. /\ Known(values) \subseteq {"fit", "value", "time"}
      /\ values["effort"] = Unknown /\ values["risk"] = Unknown
    BY OnlyThreeAreDerived
<1>3. Scored(o, settings, t).recommendation = Recommend(overall, conf, derived.eligible)
    BY <1>1 DEF Scored, Score
<1>4. 100 * conf < ConfidenceFloor * DimensionScale
    <2> HIDE DEF values
    <2> QED
        BY <1>1, <1>2, TooLittleIsKnown
<1> HIDE DEF overall, conf, derived
<1>5. Recommend(overall, conf, derived.eligible) \notin Enthusiastic
    BY <1>4 DEF Recommend, Enthusiastic
<1> QED
    BY <1>3, <1>5

\* The default weights never recommend, whatever the postings, the person, the
\* requests and the clock: fit, value and time are too small a share of every
\* profile's weight (scoring.py CONFIDENCE_FLOOR, scoring_service.py
\* score_opportunity).
THEOREM DefaultWeightsTheorem == Spec => []DefaultWeightsNeverRecommend
<1>1. RankInv => DefaultWeightsNeverRecommend
    <2> SUFFICES ASSUME RankInv, NEW k \in DOMAIN rows, k[3][2] = "v1"
                 PROVE  rows[k].recommendation \notin Enthusiastic
        BY DEF DefaultWeightsNeverRecommend
    <2>1. Computed(k, rows[k])
        BY DEF RankInv, RowInv
    <2>2. PICK settings \in GoalSettings, t \in Times :
            /\ GoalWeights(settings) # ScoringError
            /\ GoalWeights(settings).version = k[3]
            /\ rows[k]["recommendation"] = Scored(k[1], settings, t)["recommendation"]
        BY <2>1 DEF Computed, Figures
    <2> QED
        BY <2>2, DefaultsAreCautious
<1> QED
    BY <1>1, RankInvAlways, PTL

-----------------------------------------------------------------------------
(* What a scoring returns.                                                 *)

MaybeInt == Int \union {Unknown}

\* Weights that Build accepts: they share out WeightScale, and no more.
GoodWeights(w) ==
    /\ \A d \in BenefitDimensions : w.benefit[d] \in Nat
    /\ SumFunctionOnSet(w.benefit, BenefitDimensions) = WeightScale
    /\ w.effort \in Nat /\ w.risk \in Nat

\* A rounding is off by at most a half.
LEMMA RoundHalfEvenBound ==
    ASSUME NEW n \in Nat, NEW d \in Nat \ {0}
    PROVE  RoundHalfEven(n, d) \in Nat /\ RoundHalfEven(n, d) * (2 * d) <= 2 * n + d
<1> DEFINE up == RoundHalfUp(n, d)
<1>1. up \in Nat /\ up * (2 * d) <= 2 * n + d
    BY RoundHalfUpBound
<1>2. RoundHalfEven(n, d) = up \/ (RoundHalfEven(n, d) = up - 1 /\ up % 2 = 1)
    BY DEF RoundHalfEven
<1> HIDE DEF up
<1>3. CASE RoundHalfEven(n, d) = up
    BY <1>1, <1>3
<1>4. CASE RoundHalfEven(n, d) = up - 1 /\ up % 2 = 1
    <2>1. up - 1 \in Nat
        BY <1>1, <1>4
    <2>2. (up - 1) * (2 * d) <= up * (2 * d)
        BY <1>1
    <2>3. (up - 1) * (2 * d) \in Int /\ up * (2 * d) \in Int
        BY <1>1
    <2> QED
        BY <1>1, <1>4, <2>1, <2>2, <2>3
<1> QED
    BY <1>2, <1>3, <1>4

\* There is a heaviest benefit.
LEMMA HeaviestIs ==
    ASSUME NEW q, \A d \in BenefitDimensions : q[d] \in Nat
    PROVE  /\ Benefits[Heaviest(q)] \in BenefitDimensions
           /\ \A d \in BenefitDimensions : q[d] <= q[Benefits[Heaviest(q)]]
<1> DEFINE places == DOMAIN Benefits
           all == SumFunctionOnSet(q, BenefitDimensions)
           gaps == {all - q[Benefits[i]] : i \in places}
<1>1. /\ places = 1 .. 8 /\ \A i \in places : Benefits[i] \in BenefitDimensions
      /\ \A d \in BenefitDimensions : \E i \in places : d = Benefits[i]
    BY DEF Benefits, BenefitDimensions
<1>2. \A i \in places : q[Benefits[i]] \in Nat
    BY <1>1
<1>3. all \in Nat /\ \A d \in BenefitDimensions : q[d] <= all
    <2>1. all = q["fit"] + q["value"] + q["probability"] + q["strategic"] + q["time"]
                  + q["learning"] + q["network"] + q["long_term"]
        BY SumOverBenefits
    <2> HIDE DEF all
    <2> QED
        BY <2>1, BenefitNames
<1> HIDE DEF places, all
<1>4. gaps \subseteq Nat /\ gaps # {}
    BY <1>1, <1>2, <1>3
<1>5. PICK g \in gaps : \A h \in gaps : g <= h
    BY <1>4, LeastOf
<1>6. PICK j \in places : g = all - q[Benefits[j]]
    BY <1>5
<1>7. \A i \in places : q[Benefits[i]] <= q[Benefits[j]]
    <2> TAKE i \in places
    <2>1. g <= all - q[Benefits[i]]
        BY <1>5
    <2> QED
        BY <1>2, <1>3, <1>6, <2>1
<1> DEFINE top == {i \in places : q[Benefits[i]] = q[Benefits[j]]}
<1>8. top \subseteq Nat /\ top # {}
    BY <1>1, <1>6
<1>9. PICK i \in top : \A k \in top : i <= k
    BY <1>8, LeastOf
<1>10. \A k \in places : \/ q[Benefits[i]] > q[Benefits[k]]
                         \/ q[Benefits[i]] = q[Benefits[k]] /\ i <= k
    <2> TAKE k \in places
    <2>1. CASE k \in top
        BY <1>9, <2>1
    <2>2. CASE k \notin top
        BY <1>2, <1>7, <1>9, <2>2
    <2> QED
        BY <2>1, <2>2
<1>11. /\ Heaviest(q) \in places
       /\ \A k \in places : \/ q[Benefits[Heaviest(q)]] > q[Benefits[k]]
                            \/ q[Benefits[Heaviest(q)]] = q[Benefits[k]] /\ Heaviest(q) <= k
    BY <1>9, <1>10 DEF Heaviest, places
<1> QED
    BY <1>1, <1>2, <1>11

\* What the heaviest takes up never turns its weight negative.
LEMMA BuildIsGood ==
    ASSUME NEW version, NEW raw, \A d \in BenefitDimensions : raw[d] \in Int,
           DOMAIN raw = BenefitDimensions,
           NEW effort \in Int, NEW risk \in Int,
           Build(version, raw, effort, risk) # ScoringError
    PROVE  GoodWeights(Build(version, raw, effort, risk))
<1> DEFINE total == SumFunction(raw)
           q == [d \in BenefitDimensions |-> RoundHalfEven(raw[d] * WeightScale, total)]
           drift == WeightScale - SumFunction(q)
           heaviest == Benefits[Heaviest(q)]
           w == [version |-> version, benefit |-> [q EXCEPT ![heaviest] = @ + drift],
                 effort |-> effort, risk |-> risk]
<1>1. /\ \A d \in BenefitDimensions : raw[d] \in Nat
      /\ effort \in Nat /\ risk \in Nat /\ ~(total <= 0)
      /\ Build(version, raw, effort, risk) = w
    BY DEF Build, IsWeight
<1>2. /\ total = raw["fit"] + raw["value"] + raw["probability"] + raw["strategic"] + raw["time"]
                  + raw["learning"] + raw["network"] + raw["long_term"]
      /\ IsFiniteSet(BenefitDimensions)
    BY SumOverBenefits DEF SumFunction
<1>3. total \in Nat \ {0} /\ WeightScale \in Nat /\ WeightScale >= 100
    <2>1. /\ raw["fit"] \in Nat /\ raw["value"] \in Nat /\ raw["probability"] \in Nat
          /\ raw["strategic"] \in Nat /\ raw["time"] \in Nat /\ raw["learning"] \in Nat
          /\ raw["network"] \in Nat /\ raw["long_term"] \in Nat
        BY <1>1, BenefitNames
    <2> HIDE DEF total
    <2>2. total \in Nat \ {0}
        BY <1>1, <1>2, <2>1
    <2>3. WeightScale \in Nat /\ WeightScale >= 100
        BY UnitFacts
    <2> QED
        BY <2>2, <2>3
<1>4. \A d \in BenefitDimensions :
        q[d] \in Nat /\ q[d] * (2 * total) <= 2 * (raw[d] * WeightScale) + total
    <2> TAKE d \in BenefitDimensions
    <2>1. q[d] = RoundHalfEven(raw[d] * WeightScale, total)
        OBVIOUS
    <2> HIDE DEF total, q
    <2> DEFINE n == raw[d] * WeightScale
    <2>2. n \in Nat
        BY <1>1, <1>3
    <2> HIDE DEF n
    <2>3. RoundHalfEven(n, total) \in Nat /\ RoundHalfEven(n, total) * (2 * total) <= 2 * n + total
        BY <1>3, <2>2, RoundHalfEvenBound
    <2> QED
        BY <2>1, <2>3 DEF n
<1> DEFINE sum == SumFunction(q)
<1>5. sum = q["fit"] + q["value"] + q["probability"] + q["strategic"] + q["time"]
            + q["learning"] + q["network"] + q["long_term"]
    BY <1>4, SumOverBenefits DEF SumFunction
<1>6. heaviest \in BenefitDimensions /\ \A d \in BenefitDimensions : q[d] <= q[heaviest]
    BY <1>4, HeaviestIs
<1>7. DOMAIN q = BenefitDimensions
    OBVIOUS
<1> HIDE DEF q, total, heaviest
<1>8. sum \in Nat /\ sum <= WeightScale + 4
    <2> HIDE DEF sum
    <2>1. /\ q["fit"] \in Nat /\ q["value"] \in Nat /\ q["probability"] \in Nat
          /\ q["strategic"] \in Nat /\ q["time"] \in Nat /\ q["learning"] \in Nat
          /\ q["network"] \in Nat /\ q["long_term"] \in Nat
        BY <1>4, BenefitNames
    <2>2. sum \in Nat
        BY <1>5, <2>1
    <2>3. sum * (2 * total) = q["fit"] * (2 * total) + q["value"] * (2 * total)
            + q["probability"] * (2 * total) + q["strategic"] * (2 * total)
            + q["time"] * (2 * total) + q["learning"] * (2 * total)
            + q["network"] * (2 * total) + q["long_term"] * (2 * total)
        BY <1>3, <1>5, <2>1
    <2>4. sum * (2 * total) <= 2 * (raw["fit"] * WeightScale) + total
            + 2 * (raw["value"] * WeightScale) + total
            + 2 * (raw["probability"] * WeightScale) + total
            + 2 * (raw["strategic"] * WeightScale) + total
            + 2 * (raw["time"] * WeightScale) + total
            + 2 * (raw["learning"] * WeightScale) + total
            + 2 * (raw["network"] * WeightScale) + total
            + 2 * (raw["long_term"] * WeightScale) + total
        <3> DEFINE L(d) == q[d] * (2 * total)
                   R(d) == raw[d] * WeightScale
        <3>1. \A d \in BenefitDimensions : L(d) \in Int /\ R(d) \in Int /\ L(d) <= 2 * R(d) + total
            BY <1>1, <1>3, <1>4
        <3>2. sum * (2 * total) = L("fit") + L("value") + L("probability") + L("strategic")
                + L("time") + L("learning") + L("network") + L("long_term")
            BY <2>3
        <3> HIDE DEF L, R
        <3>3. sum * (2 * total) <= 2 * R("fit") + total + 2 * R("value") + total
                + 2 * R("probability") + total + 2 * R("strategic") + total
                + 2 * R("time") + total + 2 * R("learning") + total
                + 2 * R("network") + total + 2 * R("long_term") + total
            BY <1>3, <3>1, <3>2, BenefitNames
        <3> QED
            BY <3>3 DEF R
    <2>5. /\ raw["fit"] \in Nat /\ raw["value"] \in Nat /\ raw["probability"] \in Nat
          /\ raw["strategic"] \in Nat /\ raw["time"] \in Nat /\ raw["learning"] \in Nat
          /\ raw["network"] \in Nat /\ raw["long_term"] \in Nat
        BY <1>1, BenefitNames
    <2>6. total * WeightScale = raw["fit"] * WeightScale + raw["value"] * WeightScale
            + raw["probability"] * WeightScale + raw["strategic"] * WeightScale
            + raw["time"] * WeightScale + raw["learning"] * WeightScale
            + raw["network"] * WeightScale + raw["long_term"] * WeightScale
        BY <1>2, <1>3, <2>5
    <2>7. sum * (2 * total) <= 2 * (total * WeightScale) + 8 * total
        <3> DEFINE R(d) == raw[d] * WeightScale
                   left == sum * (2 * total)
                   right == total * WeightScale
        <3>1. /\ R("fit") \in Int /\ R("value") \in Int /\ R("probability") \in Int
              /\ R("strategic") \in Int /\ R("time") \in Int /\ R("learning") \in Int
              /\ R("network") \in Int /\ R("long_term") \in Int
            BY <1>3, <2>5
        <3>2. left \in Int /\ right \in Int
            BY <1>3, <2>2
        <3>3. left <= 2 * R("fit") + total + 2 * R("value") + total
                + 2 * R("probability") + total + 2 * R("strategic") + total
                + 2 * R("time") + total + 2 * R("learning") + total
                + 2 * R("network") + total + 2 * R("long_term") + total
            BY <2>4
        <3>4. right = R("fit") + R("value") + R("probability") + R("strategic")
                + R("time") + R("learning") + R("network") + R("long_term")
            BY <2>6
        <3> HIDE DEF R, left, right
        <3>5. left <= 2 * right + 8 * total
            BY <1>3, <3>1, <3>2, <3>3, <3>4
        <3> QED
            BY <3>5 DEF left, right
    <2>8. sum * (2 * total) <= (WeightScale + 4) * (2 * total)
        BY <1>3, <2>2, <2>7
    <2> DEFINE y == WeightScale + 4
               b == 2 * total
    <2>9. y \in Int /\ b \in Int /\ b > 0 /\ sum * b <= y * b
        BY <1>3, <2>8
    <2> HIDE DEF y, b
    <2>10. sum <= y
        BY <2>2, <2>9
    <2> QED
        BY <2>2, <2>10 DEF y
<1>9. q[heaviest] \in Nat /\ q[heaviest] + drift \in Nat
    <2>1. q[heaviest] \in Nat /\ sum <= 8 * q[heaviest]
        <3> HIDE DEF sum
        <3> QED
            BY <1>4, <1>5, <1>6, BenefitNames
    <2>2. drift = WeightScale - sum
        OBVIOUS
    <2> HIDE DEF sum, drift
    <2> QED
        BY <1>3, <1>8, <2>1, <2>2
<1> DEFINE benefit == [q EXCEPT ![heaviest] = @ + drift]
           rest == BenefitDimensions \ {heaviest}
<1>10. /\ benefit[heaviest] = q[heaviest] + drift
       /\ \A d \in rest : benefit[d] = q[d]
    <2> HIDE DEF drift
    <2> QED
        BY <1>6, <1>7
<1>11. \A d \in BenefitDimensions : benefit[d] \in Nat
    BY <1>4, <1>9, <1>10
<1>12. SumFunctionOnSet(benefit, BenefitDimensions) = WeightScale
    <2>1. SumFunctionOnSet(benefit, BenefitDimensions)
            = benefit[heaviest] + SumFunctionOnSet(benefit, rest)
        <3> HIDE DEF benefit
        <3> QED
            BY <1>2, <1>6, <1>11, SumTake
    <2>2. SumFunctionOnSet(q, BenefitDimensions) = q[heaviest] + SumFunctionOnSet(q, rest)
        BY <1>2, <1>4, <1>6, SumTake
    <2>3. SumFunctionOnSet(benefit, rest) = SumFunctionOnSet(q, rest)
        <3> HIDE DEF benefit
        <3> QED
            BY <1>10, SumAgree
    <2>4. sum = SumFunctionOnSet(q, BenefitDimensions) /\ drift = WeightScale - sum
        BY <1>7 DEF SumFunction
    <2>5. SumFunctionOnSet(q, rest) \in Int
        BY <1>2, <1>4, FS_Subset, SumInt
    <2> HIDE DEF benefit, sum, drift
    <2> QED
        BY <1>3, <1>8, <1>9, <1>10, <2>1, <2>2, <2>3, <2>4, <2>5
<1> HIDE DEF benefit, drift
<1> QED
    BY <1>1, <1>11, <1>12 DEF GoodWeights, benefit
LEMMA DefaultsAreGood ==
    ASSUME NEW profile \in Profiles
    PROVE  GoodWeights(DefaultWeights(profile))
<1> DEFINE w == DefaultWeights(profile)
           row == ProfileTable[profile]
<1>1. /\ \A i \in 1 .. 10 : row[i] \in Nat
      /\ row[1] + row[2] + row[3] + row[4] + row[5] + row[6] + row[7] + row[8] = 100
    BY Tables
<1>2. /\ w.benefit["fit"] = row[1] * Unit /\ w.benefit["value"] = row[2] * Unit
      /\ w.benefit["probability"] = row[3] * Unit /\ w.benefit["strategic"] = row[4] * Unit
      /\ w.benefit["time"] = row[5] * Unit /\ w.benefit["learning"] = row[6] * Unit
      /\ w.benefit["network"] = row[7] * Unit /\ w.benefit["long_term"] = row[8] * Unit
      /\ w.effort = row[9] * Unit /\ w.risk = row[10] * Unit
    BY DefaultsAreExact, BenefitNames, Positions
<1> HIDE DEF w
<1>3. /\ row[1] \in Nat /\ row[2] \in Nat /\ row[3] \in Nat /\ row[4] \in Nat /\ row[5] \in Nat
      /\ row[6] \in Nat /\ row[7] \in Nat /\ row[8] \in Nat /\ row[9] \in Nat /\ row[10] \in Nat
    BY <1>1
<1> HIDE DEF row
<1>4. \A i \in 1 .. 10 : row[i] * Unit \in Nat
    BY <1>1, UnitFacts
<1>5. (\A d \in BenefitDimensions : w.benefit[d] \in Nat) /\ w.effort \in Nat /\ w.risk \in Nat
    BY <1>2, <1>4, BenefitNames
<1>6. SumFunctionOnSet(w.benefit, BenefitDimensions) = WeightScale
    <2>1. SumFunctionOnSet(w.benefit, BenefitDimensions)
            = row[1] * Unit + row[2] * Unit + row[3] * Unit + row[4] * Unit + row[5] * Unit
              + row[6] * Unit + row[7] * Unit + row[8] * Unit
        <3>1. SumFunctionOnSet(w.benefit, BenefitDimensions)
                = w.benefit["fit"] + w.benefit["value"] + w.benefit["probability"]
                  + w.benefit["strategic"] + w.benefit["time"] + w.benefit["learning"]
                  + w.benefit["network"] + w.benefit["long_term"]
            BY <1>5, SumOverBenefits
        <3> QED
            BY <1>2, <3>1
    <2>2. SumFunctionOnSet(w.benefit, BenefitDimensions)
            = (row[1] + row[2] + row[3] + row[4] + row[5] + row[6] + row[7] + row[8]) * Unit
        BY <1>3, <2>1, UnitFacts
    <2> QED
        BY <1>1, <2>2, UnitFacts
<1> QED
    BY <1>5, <1>6 DEF GoodWeights, w

\* So are the weights of every goal, unless they fail the request.
LEMMA GoalWeightsAreGood ==
    ASSUME NEW settings \in GoalSettings, GoalWeights(settings) # ScoringError
    PROVE  GoodWeights(GoalWeights(settings))
<1> DEFINE base == DefaultWeights(settings.profile)
           override == settings.override
<1>1. settings.profile \in Profiles /\ \A d \in DOMAIN override : override[d] \in Int
    BY RankingAssumption
<1>2. GoodWeights(base)
    BY <1>1, DefaultsAreGood
<1>3. CASE override = NoOverride
    BY <1>2, <1>3 DEF GoalWeights, WeightsFor
<1>4. CASE override # NoOverride
    <2> DEFINE version == <<settings.profile, "v1+override">>
               entry(d, default) == IF d \in DOMAIN override THEN override[d] ELSE default
               raw == [d \in BenefitDimensions |-> entry(d, base.benefit[d])]
               effort == entry("effort", base.effort)
               risk == entry("risk", base.risk)
    <2>1. GoalWeights(settings) = WithOverride(base, override, version)
        BY <1>4 DEF GoalWeights, WeightsFor
    <2> HIDE DEF base
    <2>2. GoalWeights(settings) = Build(version, raw, effort, risk)
        BY <2>1 DEF WithOverride
    <2>3. /\ \A d \in BenefitDimensions : raw[d] \in Int
          /\ DOMAIN raw = BenefitDimensions /\ effort \in Int /\ risk \in Int
        BY <1>1, <1>2 DEF GoodWeights
    <2> HIDE DEF raw, effort, risk, version
    <2> QED
        BY <2>2, <2>3, BuildIsGood
<1> QED
    BY <1>3, <1>4

LEMMA VerdictIsOne ==
    ASSUME NEW overall \in Int
    PROVE  Verdict(overall) \in Recommendations
<1> DEFINE a == 82 * ScoreScale
           b == 66 * ScoreScale
           c == 45 * ScoreScale
           d == 28 * ScoreScale
<1>1. \/ overall >= a
      \/ overall >= b /\ overall < a
      \/ overall >= c /\ overall < b
      \/ overall >= d /\ overall < c
      \/ overall < d
    BY ScaleAssumption
<1> QED
    BY <1>1, Zenon DEF Verdict, Recommendations

\* The figures of a score stay in range, whatever the factors.
LEMMA ScoreIsBounded ==
    ASSUME NEW factors, \A d \in Dimensions : factors[d] \in MaybeInt,
           NEW weights, GoodWeights(weights), NEW eligible, NEW days
    PROVE  /\ Score(factors, weights, eligible, days)["overall"] \in 0 .. 100 * ScoreScale
           /\ Score(factors, weights, eligible, days)["confidence"] \in 0 .. DimensionScale
           /\ Score(factors, weights, eligible, days)["recommendation"] \in Recommendations
<1> DEFINE values == [d \in Dimensions |-> ClampUnit(factors[d])]
           overall == Overall(values, weights)
           conf == Confidence(values, weights)
           known == KnownWeight(values, weights)
<1>1. /\ Score(factors, weights, eligible, days)["overall"] = overall
      /\ Score(factors, weights, eligible, days)["confidence"] = conf
      /\ Score(factors, weights, eligible, days)["recommendation"] = Recommend(overall, conf, eligible)
    BY DEF Score
<1>2. /\ DimensionScale \in Nat /\ DimensionScale > 0 /\ WeightScale \in Nat /\ WeightScale > 0
      /\ ScoreScale \in Nat /\ ScoreScale > 0 /\ Unknown \notin Int
    BY ScaleAssumption
<1>3. \A d \in Dimensions : values[d] = Unknown \/ values[d] \in 0 .. DimensionScale
    BY <1>2 DEF ClampUnit, AtMost, MaybeInt
<1>4. /\ \A d \in BenefitDimensions : weights.benefit[d] \in Nat
      /\ SumFunctionOnSet(weights.benefit, BenefitDimensions) = WeightScale
      /\ weights.effort \in Nat /\ weights.risk \in Nat
    BY DEF GoodWeights
<1>5. Known(values) \subseteq BenefitDimensions /\ IsFiniteSet(BenefitDimensions)
    BY <1>4, SumOverBenefits DEF Known
<1>6. known \in Nat /\ known <= WeightScale
    BY <1>4, <1>5, SumOfPart DEF KnownWeight
<1>7. BenefitDimensions \subseteq Dimensions /\ "effort" \in Dimensions /\ "risk" \in Dimensions
    BY DEF Dimensions, CostDimensions
<1> HIDE DEF values
<1>8. overall \in 0 .. 100 * ScoreScale
    <2>1. CASE known = 0
        <3>1. overall = 0
            BY <2>1 DEF Overall
        <3> QED
            BY <1>2, <3>1
    <2>2. CASE known # 0
        <3> DEFINE shares == Contributions(values, weights)
                   sum == SumFunction(shares)
                   n == 100 * ScoreScale * WeightScale * sum
                   cost == Cost(values, weights)
                   d == known * cost
        <3>1. \A x \in Known(values) : weights.benefit[x] * values[x] \in Nat
            <4> TAKE x \in Known(values)
            <4>1. values[x] \in 0 .. DimensionScale /\ weights.benefit[x] \in Nat
                BY <1>3, <1>4, <1>5, <1>7 DEF Known
            <4> QED
                BY <1>2, <4>1
        <3>2. /\ DOMAIN shares = Known(values) /\ IsFiniteSet(Known(values))
              /\ \A x \in Known(values) : shares[x] \in Nat
            BY <1>5, <2>2, <3>1, FS_Subset DEF Contributions
        <3> HIDE DEF shares
        <3>3. sum \in Nat
            BY <3>2, SumOfPart DEF SumFunction
        <3>4. cost \in Nat /\ cost > 0
            <4> DEFINE e == weights.effort * OrZero(values["effort"])
                       r == weights.risk * OrZero(values["risk"])
                       base == WeightScale * DimensionScale
            <4>1. OrZero(values["effort"]) \in Nat /\ OrZero(values["risk"]) \in Nat
                BY <1>2, <1>3, <1>7 DEF OrZero
            <4>2. e \in Nat /\ r \in Nat
                BY <1>4, <4>1
            <4>3. base \in Nat /\ base > 0
                BY <1>2
            <4>4. cost = base + e + r
                BY DEF Cost
            <4> HIDE DEF cost, base, e, r
            <4> QED
                BY <4>2, <4>3, <4>4
        <3>5. d \in Nat \ {0}
            <4> HIDE DEF cost, known
            <4> QED
                BY <1>6, <2>2, <3>4
        <3>6. n \in Nat
            <4> HIDE DEF sum
            <4> QED
                BY <1>2, <3>3
        <3>7. overall = AtMost(100 * ScoreScale, RoundHalfUp(n, d))
            BY <2>2 DEF Overall, shares
        <3> HIDE DEF n, d
        <3>8. RoundHalfUp(n, d) \in Nat
            BY <3>5, <3>6, RoundHalfUpBound
        <3> HIDE DEF overall
        <3> QED
            BY <1>2, <3>7, <3>8 DEF AtMost
    <2> QED
        BY <2>1, <2>2
<1>9. conf \in 0 .. DimensionScale
    <2> DEFINE part == KnownTotal(values, weights)
               all == TotalWeight(weights)
               n == DimensionScale * part
    <2>1. part \in Nat /\ part <= all /\ all \in Nat /\ all > 0
        <3> DEFINE e == IF values["effort"] = Unknown THEN 0 ELSE weights.effort
                   r == IF values["risk"] = Unknown THEN 0 ELSE weights.risk
        <3>1. e \in Nat /\ e <= weights.effort /\ r \in Nat /\ r <= weights.risk
            BY <1>4
        <3>2. part = known + e + r /\ all = WeightScale + weights.effort + weights.risk
            BY DEF KnownTotal, TotalWeight
        <3> HIDE DEF part, all, known, e, r
        <3> QED
            BY <1>2, <1>4, <1>6, <3>1, <3>2
    <2>2. conf = RoundHalfUp(n, all)
        BY DEF Confidence
    <2> HIDE DEF part, all, conf
    <2>3. n \in Nat /\ n <= DimensionScale * all /\ DimensionScale * all \in Nat
        BY <1>2, <2>1
    <2> HIDE DEF n
    <2>4. conf \in Nat /\ conf * (2 * all) <= 2 * n + all
        BY <2>1, <2>2, <2>3, RoundHalfUpBound
    <2>5. conf <= DimensionScale
        <3> SUFFICES ASSUME conf >= DimensionScale + 1 PROVE FALSE
            BY <1>2, <2>4
        <3>1. conf * (2 * all) >= (DimensionScale + 1) * (2 * all)
            BY <1>2, <2>1, <2>4
        <3>2. (DimensionScale + 1) * (2 * all) = 2 * (DimensionScale * all) + 2 * all
            BY <1>2, <2>1
        <3> DEFINE x == conf * (2 * all)
                   y == DimensionScale * all
        <3>3. x \in Int /\ y \in Int /\ x >= 2 * y + 2 * all /\ x <= 2 * n + all /\ n <= y
            BY <2>1, <2>3, <2>4, <3>1, <3>2
        <3> HIDE DEF x, y
        <3> QED
            BY <2>1, <2>3, <3>3
    <2> QED
        BY <1>2, <2>4, <2>5
<1> HIDE DEF overall, conf
<1>10. Recommend(overall, conf, eligible) \in Recommendations
    <2>1. Verdict(overall) \in Recommendations
        BY <1>8, VerdictIsOne
    <2> QED
        BY <2>1 DEF Recommend, Recommendations
<1> QED
    BY <1>1, <1>8, <1>9, <1>10
LEMMA DaysUntilIsInt ==
    ASSUME NEW moment \in Int, NEW t \in Int
    PROVE  DaysUntil(moment, t) \in Int /\ (t <= moment => DaysUntil(moment, t) >= 0)
<1>1. \A a \in Nat, b \in Nat \ {0} : a \div b \in Nat
    OBVIOUS
<1>2. Day \in Nat \ {0}
    BY TimeAssumption
<1>3. CASE moment >= t
    <2>1. (moment - t) \div Day \in Nat
        BY <1>1, <1>2, <1>3
    <2> QED
        BY <1>3, <2>1 DEF DaysUntil
<1>4. CASE ~(moment >= t)
    <2>1. (t - moment) \div Day \in Nat
        BY <1>1, <1>2, <1>4
    <2> QED
        BY <1>4, <2>1 DEF DaysUntil
<1> QED
    BY <1>3, <1>4

LEMMA TimeSensitivityIsInt ==
    ASSUME NEW days \in Int
    PROVE  TimeSensitivity(days) \in Int
<1>1. DimensionScale \in Nat
    BY ScaleAssumption
<1>2. CASE days <= UrgentDays \/ days >= RelaxedDays
    BY <1>1, <1>2 DEF TimeSensitivity
<1>3. CASE ~(days <= UrgentDays) /\ ~(days >= RelaxedDays)
    <2> DEFINE n == DimensionScale * (RelaxedDays - days)
               d == RelaxedDays - UrgentDays
    <2>1. n \in Nat /\ d \in Nat \ {0}
        BY <1>1, <1>3 DEF RelaxedDays, UrgentDays
    <2>2. TimeSensitivity(days) = RoundHalfEven(n, d)
        BY <1>3 DEF TimeSensitivity
    <2> HIDE DEF n, d
    <2> QED
        BY <2>1, <2>2, RoundHalfEvenBound
<1> QED
    BY <1>2, <1>3

LEMMA SkillFitIsTyped ==
    ASSUME NEW opp, IsFiniteSet(opp.required), IsFiniteSet(opp.preferred), NEW profile
    PROVE  SkillFit(opp, profile) \in MaybeInt
<1> DEFINE required == opp.required \intersect profile.skills
           preferred == opp.preferred \intersect profile.skills
           hit == 10 * Cardinality(required) + 4 * Cardinality(preferred)
           total == 10 * Cardinality(opp.required) + 4 * Cardinality(opp.preferred)
           n == 100 * DimensionScale * hit
           d == FitSaturation * total
<1>1. IsFiniteSet(required) /\ IsFiniteSet(preferred)
    BY FS_Subset
<1>2. hit \in Nat /\ total \in Nat
    <2>1. /\ Cardinality(required) \in Nat /\ Cardinality(preferred) \in Nat
          /\ Cardinality(opp.required) \in Nat /\ Cardinality(opp.preferred) \in Nat
        BY <1>1, FS_CardinalityType
    <2> QED
        BY <2>1
<1>3. DimensionScale \in Nat /\ Unknown \notin Int
    BY ScaleAssumption
<1>4. SkillFit(opp, profile) = IF profile.skills = {} \/ total = 0 THEN Unknown
                               ELSE AtMost(DimensionScale, RoundHalfEven(n, d))
    BY DEF SkillFit
<1> HIDE DEF hit, total
<1>5. CASE profile.skills = {} \/ total = 0
    BY <1>4, <1>5 DEF MaybeInt
<1>6. CASE ~(profile.skills = {} \/ total = 0)
    <2>1. n \in Nat /\ d \in Nat \ {0}
        BY <1>2, <1>3, <1>6 DEF FitSaturation
    <2> HIDE DEF n, d
    <2>2. RoundHalfEven(n, d) \in Nat
        BY <2>1, RoundHalfEvenBound
    <2>3. AtMost(DimensionScale, RoundHalfEven(n, d)) \in Int
        BY <1>3, <2>2 DEF AtMost
    <2> QED
        BY <1>4, <1>6, <2>3 DEF MaybeInt
<1> QED
    BY <1>5, <1>6

LEMMA CompensationIsTyped ==
    ASSUME NEW opp, opp.pay_min \in MaybeInt, opp.pay_max \in MaybeInt,
           NEW profile, profile.want_min \in MaybeInt, profile.want_max \in MaybeInt
    PROVE  CompensationValue(opp, profile) \in MaybeInt
<1> DEFINE offered == FirstNonZero(opp.pay_max, opp.pay_min)
           floor == FirstNonZero(profile.want_min, profile.want_max)
           ceiling == FirstNonZero(profile.want_max, profile.want_min)
           comparable ==
            /\ profile.want_min # Unknown \/ profile.want_max # Unknown
            /\ offered # Unknown
            /\ opp.currency = Unknown \/ profile.currency = Unknown
               \/ opp.currency = profile.currency
            /\ floor # Unknown /\ ceiling # Unknown
            /\ floor > 0
           result == CompensationValue(opp, profile)
           n == DimensionScale * (2 * offered - floor)
           d == 2 * ceiling - floor
<1>1. offered \in MaybeInt /\ floor \in MaybeInt /\ ceiling \in MaybeInt
    BY DEF FirstNonZero
<1>2. DimensionScale \in Nat /\ Unknown \notin Int
    BY ScaleAssumption
<1>3. comparable => offered \in Int /\ floor \in Int /\ ceiling \in Int
    BY <1>1 DEF MaybeInt
<1>4. result = CASE ~comparable -> Unknown
                 [] comparable /\ offered >= ceiling -> DimensionScale
                 [] comparable /\ offered < ceiling /\ 2 * offered <= floor -> 0
                 [] comparable /\ offered < ceiling /\ 2 * offered > floor -> RoundHalfEven(n, d)
    BY Zenon DEF CompensationValue
<1> HIDE DEF offered, floor, ceiling, comparable, result
<1>5. \/ ~comparable
      \/ comparable /\ offered >= ceiling
      \/ comparable /\ offered < ceiling /\ 2 * offered <= floor
      \/ comparable /\ offered < ceiling /\ 2 * offered > floor
    BY <1>3
<1>6. ASSUME comparable, offered < ceiling, 2 * offered > floor
      PROVE  RoundHalfEven(n, d) \in Nat
    <2>1. offered \in Int /\ floor \in Int /\ ceiling \in Int
        BY <1>3, <1>6
    <2> DEFINE gap == 2 * offered - floor
    <2>2. gap \in Nat /\ d \in Nat \ {0}
        BY <1>6, <2>1
    <2> HIDE DEF gap
    <2>3. DimensionScale * gap \in Nat
        BY <1>2, <2>2
    <2>4. n \in Nat
        BY <2>3 DEF gap
    <2> HIDE DEF n, d
    <2> QED
        BY <2>2, <2>4, RoundHalfEvenBound
<1> DEFINE rounded == RoundHalfEven(n, d)
           none == ~comparable
           high == comparable /\ offered >= ceiling
           low == comparable /\ offered < ceiling /\ 2 * offered <= floor
           between == comparable /\ offered < ceiling /\ 2 * offered > floor
<1>7. /\ Unknown \in MaybeInt /\ DimensionScale \in MaybeInt /\ 0 \in MaybeInt
      /\ between => rounded \in MaybeInt
    BY <1>2, <1>6 DEF MaybeInt
<1>8. none \/ high \/ low \/ between
    BY <1>5
<1>9. result = CASE none -> Unknown [] high -> DimensionScale [] low -> 0 [] between -> rounded
    BY <1>4, Zenon
<1> HIDE DEF none, high, low, between, rounded
<1>10. (CASE none -> Unknown [] high -> DimensionScale [] low -> 0 [] between -> rounded) \in MaybeInt
    BY <1>7, <1>8, Zenon
<1>11. result \in MaybeInt
    BY <1>9, <1>10, Zenon
<1> QED
    BY <1>11 DEF result

LEMMA DerivedIsTyped ==
    ASSUME NEW o \in Opps, NEW t \in Times
    PROVE  \A d \in Dimensions : Derive(Facts[o], Person, t).values[d] \in MaybeInt
<1> DEFINE opp == Facts[o]
           days == DaysToDeadline(opp, t)
           fit == IF Person = Unknown THEN Unknown ELSE SkillFit(opp, Person)
           value == IF Person = Unknown THEN Unknown ELSE CompensationValue(opp, Person)
           time == IF days = Unknown THEN Unknown ELSE TimeSensitivity(days)
<1>1. Unknown \notin Int /\ t \in Int
    BY ScaleAssumption, RankingAssumption
<1>2. days \in MaybeInt
    BY <1>1, FactsAssumption, DaysUntilIsInt DEF DaysToDeadline, MaybeInt
<1>3. time \in MaybeInt
    <2> HIDE DEF days
    <2> QED
        BY <1>2, TimeSensitivityIsInt DEF MaybeInt
<1>4. fit \in MaybeInt
    BY FactsAssumption, SkillFitIsTyped DEF MaybeInt
<1>5. value \in MaybeInt
    <2>1. opp.pay_min \in MaybeInt /\ opp.pay_max \in MaybeInt
        BY FactsAssumption DEF MaybeInt
    <2>2. Person # Unknown => Person.want_min \in MaybeInt /\ Person.want_max \in MaybeInt
        BY FactsAssumption DEF MaybeInt
    <2> HIDE DEF opp
    <2> QED
        BY <2>1, <2>2, CompensationIsTyped DEF MaybeInt
<1> SUFFICES ASSUME NEW d \in Dimensions
             PROVE  Derive(opp, Person, t).values[d] \in MaybeInt
    OBVIOUS
<1>6. Derive(opp, Person, t).values[d]
        = CASE d = "time" -> time
            [] d = "fit" -> fit
            [] d = "value" -> value
            [] d \notin {"time", "fit", "value"} -> Unknown
    BY Zenon DEF Derive
<1> HIDE DEF opp, days, fit, value, time
<1>7. Derive(opp, Person, t).values[d] \in {time, fit, value, Unknown}
    BY <1>6, Zenon
<1> QED
    BY <1>3, <1>4, <1>5, <1>7 DEF MaybeInt
-----------------------------------------------------------------------------
(* The halvings, by their approximations up to a bound.                    *)

IsHalving(g, N) ==
    g = [n \in 0 .. N |-> IF n = 0 THEN FreshnessScale ELSE g[n - 1] \div 2]

LEMMA HalvingStep ==
    ASSUME NEW N, NEW g, IsHalving(g, N), NEW n \in 0 .. N
    PROVE  g[n] = IF n = 0 THEN FreshnessScale ELSE g[n - 1] \div 2
    BY DEF IsHalving

\* Where a set of numbers is not empty, it has a least one: no counterexample,
\* no exception.
LEMMA HalvingsAgree ==
    ASSUME NEW N \in Nat, NEW M \in Nat, N <= M, NEW g, IsHalving(g, N), NEW h, IsHalving(h, M)
    PROVE  \A n \in 0 .. N : g[n] = h[n]
<1> DEFINE bad == {n \in 0 .. N : g[n] # h[n]}
<1> SUFFICES ASSUME bad # {} PROVE FALSE
    OBVIOUS
<1>0. bad \subseteq Nat
    OBVIOUS
<1>1. PICK n \in bad : \A k \in bad : n <= k
    <2> HIDE DEF bad
    <2> QED
        BY <1>0, LeastOf
<1>2. /\ g[n] = IF n = 0 THEN FreshnessScale ELSE g[n - 1] \div 2
      /\ h[n] = IF n = 0 THEN FreshnessScale ELSE h[n - 1] \div 2
    BY <1>1, HalvingStep
<1>3. n # 0 => g[n - 1] = h[n - 1]
    BY <1>1
<1> QED
    BY <1>1, <1>2, <1>3

LEMMA HalvingExists == \A N \in Nat : \E g : IsHalving(g, N)
<1> DEFINE bad == {N \in Nat : ~ \E g : IsHalving(g, N)}
<1> SUFFICES ASSUME bad # {} PROVE FALSE
    OBVIOUS
<1>0. bad \subseteq Nat
    OBVIOUS
<1>1. PICK N \in bad : \A k \in bad : N <= k
    <2> HIDE DEF bad
    <2> QED
        BY <1>0, LeastOf
<1>2. CASE N = 0
    <2> DEFINE g == [n \in 0 .. 0 |-> FreshnessScale]
    <2>1. IsHalving(g, 0)
        BY DEF IsHalving
    <2> HIDE DEF g
    <2> QED
        BY <1>1, <1>2, <2>1
<1>3. CASE N # 0
    <2>1. N - 1 \in Nat /\ N - 1 \notin bad
        BY <1>1, <1>3
    <2>2. PICK h : IsHalving(h, N - 1)
        BY <2>1
    <2> DEFINE g == [n \in 0 .. N |-> IF n = 0 THEN FreshnessScale ELSE h[n - 1] \div 2]
    <2>3. \A n \in 0 .. N - 1 : g[n] = h[n]
        <3> TAKE n \in 0 .. N - 1
        <3>1. h[n] = IF n = 0 THEN FreshnessScale ELSE h[n - 1] \div 2
            BY <2>2, HalvingStep
        <3>2. n \in 0 .. N
            BY <1>1
        <3> QED
            BY <3>1, <3>2
    <2>4. \A n \in 0 .. N : n # 0 => g[n - 1] = h[n - 1]
        BY <1>1, <2>3
    <2>5. IsHalving(g, N)
        BY <2>4 DEF IsHalving
    <2> HIDE DEF g
    <2> QED
        BY <1>1, <2>5
<1> QED
    BY <1>2, <1>3

LEMMA HalvedUnfolds ==
    ASSUME NEW n \in Nat
    PROVE  Halved[n] = IF n = 0 THEN FreshnessScale ELSE Halved[n - 1] \div 2
<1> DEFINE G(N) == CHOOSE g : IsHalving(g, N)
           F == [m \in Nat |-> G(m)[m]]
<1>1. \A N \in Nat : IsHalving(G(N), N)
    BY HalvingExists
<1> HIDE DEF G
<1>2. \A m \in Nat : F[m] = IF m = 0 THEN FreshnessScale ELSE F[m - 1] \div 2
    <2> TAKE m \in Nat
    <2>1. G(m)[m] = IF m = 0 THEN FreshnessScale ELSE G(m)[m - 1] \div 2
        BY <1>1, HalvingStep
    <2>2. ASSUME m # 0 PROVE G(m)[m - 1] = G(m - 1)[m - 1]
        <3>1. m - 1 \in Nat /\ m - 1 <= m
            BY <2>2
        <3>2. \A k \in 0 .. (m - 1) : G(m - 1)[k] = G(m)[k]
            BY <1>1, <3>1, HalvingsAgree
        <3> QED
            BY <3>1, <3>2
    <2> QED
        BY <2>1, <2>2
<1>3. F = [m \in Nat |-> IF m = 0 THEN FreshnessScale ELSE F[m - 1] \div 2]
    BY <1>2
<1> HIDE DEF F
<1> DEFINE H == CHOOSE f : f = [m \in Nat |-> IF m = 0 THEN FreshnessScale ELSE f[m - 1] \div 2]
<1>4. H = [m \in Nat |-> IF m = 0 THEN FreshnessScale ELSE H[m - 1] \div 2]
    BY <1>3
<1>5. Halved = H
    BY DEF Halved
<1> HIDE DEF H
<1> QED
    BY <1>4, <1>5

LEMMA HalvedIsBounded == \A n \in Nat : Halved[n] \in 0 .. FreshnessScale
<1> DEFINE bad == {n \in Nat : Halved[n] \notin 0 .. FreshnessScale}
<1> SUFFICES ASSUME bad # {} PROVE FALSE
    OBVIOUS
<1>0. bad \subseteq Nat
    OBVIOUS
<1>1. PICK n \in bad : \A k \in bad : n <= k
    <2> HIDE DEF bad
    <2> QED
        BY <1>0, LeastOf
<1>2. Halved[n] = IF n = 0 THEN FreshnessScale ELSE Halved[n - 1] \div 2
    BY <1>1, HalvedUnfolds
<1>3. n # 0 => Halved[n - 1] \in 0 .. FreshnessScale
    BY <1>1
<1>4. \A a \in 0 .. FreshnessScale : a \div 2 \in 0 .. FreshnessScale
    BY TimeAssumption
<1>5. FreshnessScale \in 0 .. FreshnessScale
    BY TimeAssumption
<1> QED
    BY <1>1, <1>2, <1>3, <1>4, <1>5
-----------------------------------------------------------------------------
(* What a refresh dates.                                                   *)

LEMMA TtlIsInt ==
    ASSUME NEW category \in Categories
    PROVE  TtlDays(category) \in Int
<1>1. 30 \in Int /\ 45 \in Int /\ 60 \in Int /\ 90 \in Int /\ 120 \in Int /\ 180 \in Int
    OBVIOUS
<1>2. \/ category = "freelance"
      \/ category \in {"consulting", "client"}
      \/ category = "job"
      \/ category \in {"startup", "competition", "speaking", "business", "other"}
      \/ category \in {"accelerator", "incubator", "conference", "research", "partnership"}
      \/ category \in {"grant", "fellowship", "scholarship", "open_source"}
    BY DEF Categories
<1> QED
    BY <1>1, <1>2, Zenon DEF TtlDays

LEMMA ExpiryIsTyped ==
    ASSUME NEW o \in Opps, NEW explicit \in MaybeInt
    PROVE  DeriveExpiresAt(Facts[o], Discovered(o), explicit) \in MaybeInt
<1> DEFINE opp == Facts[o]
           anchor == OrElse(opp.posted, Discovered(o))
           ttl == TtlDays(opp.category)
<1>1. /\ opp.deadline \in MaybeInt /\ opp.posted \in MaybeInt /\ Discovered(o) \in MaybeInt
      /\ opp.category \in Categories
    BY FactsAssumption DEF MaybeInt, Discovered
<1>2. Unknown \notin Int /\ Day \in Int
    BY ScaleAssumption, TimeAssumption
<1>3. anchor \in MaybeInt /\ ttl \in Int
    BY <1>1, TtlIsInt DEF OrElse
<1>4. ttl * Day \in Int
    <2> HIDE DEF ttl
    <2> QED
        BY <1>2, <1>3
<1>5. DeriveExpiresAt(opp, Discovered(o), explicit)
        \in {explicit, opp.deadline, Unknown} \union {x \in {anchor + ttl * Day} : anchor # Unknown}
    BY DEF DeriveExpiresAt
<1> HIDE DEF anchor, ttl
<1>6. anchor # Unknown => anchor + ttl * Day \in Int
    BY <1>3, <1>4 DEF MaybeInt
<1> QED
    BY <1>1, <1>5, <1>6 DEF MaybeInt

LEMMA DecayIsBounded ==
    ASSUME NEW age \in Nat
    PROVE  Decay(age) \in 0 .. FreshnessScale
<1> DEFINE half == HalfLifeDays * Day
<1>1. half \in Nat \ {0}
    BY TimeAssumption DEF HalfLifeDays
<1>2. \A a \in Nat, b \in Nat \ {0} : a \div b \in Nat
    OBVIOUS
<1> HIDE DEF half
<1>3. age \div half \in Nat
    BY <1>1, <1>2
<1> QED
    BY <1>3, HalvedIsBounded DEF Decay, half

\* The last week takes away at most a half.
LEMMA DampingIsBounded ==
    ASSUME NEW decay \in 0 .. FreshnessScale, NEW days \in 0 .. 7
    PROVE  RoundHalfEven(decay * (7 + days), 14) \in 0 .. FreshnessScale
<1> DEFINE n == decay * (7 + days)
           r == RoundHalfEven(n, 14)
<1>1. FreshnessScale \in Nat /\ decay \in Nat /\ decay <= FreshnessScale
    BY TimeAssumption
<1>2. n \in Nat /\ n <= 14 * decay
    <2>1. decay * (7 + days) <= decay * 14
        BY <1>1
    <2> QED
        BY <1>1, <2>1
<1> HIDE DEF n
<1>3. r \in Nat /\ r * (2 * 14) <= 2 * n + 14
    <2>1. 14 \in Nat \ {0}
        OBVIOUS
    <2> QED
        BY <1>2, <2>1, RoundHalfEvenBound
<1> HIDE DEF r
<1>4. r <= decay
    BY <1>1, <1>2, <1>3
<1> QED
    BY <1>1, <1>3, <1>4 DEF r, n

LEMMA AssessIsTyped ==
    ASSUME NEW o \in Opps, NEW explicit \in MaybeInt, now \in Times
    PROVE  /\ AssessNow(o, explicit).expires \in MaybeInt
           /\ AssessNow(o, explicit).score \in 0 .. FreshnessScale
<1> DEFINE opp == Facts[o]
           expiry == DeriveExpiresAt(opp, Discovered(o), explicit)
           anchor == OrElse(Verified(o), OrElse(Discovered(o), opp.posted))
           decay == IF anchor = Unknown THEN FreshnessScale \div 2
                    ELSE IF now < anchor THEN FreshnessScale ELSE Decay(now - anchor)
           remaining == IF expiry = Unknown THEN Unknown ELSE DaysUntil(expiry, now)
           expired == expiry # Unknown /\ now > expiry
           score == IF expired THEN 0
                    ELSE IF remaining # Unknown /\ remaining <= 7
                    THEN RoundHalfEven(decay * (7 + remaining), 14)
                    ELSE decay
<1>1. AssessNow(o, explicit).expires = expiry /\ AssessNow(o, explicit).score = score
    BY DEF AssessNow, Assess
<1>2. expiry \in MaybeInt
    BY ExpiryIsTyped
<1>3. now \in Int /\ Unknown \notin Int /\ FreshnessScale \in Nat
    BY RankingAssumption, ScaleAssumption, TimeAssumption
<1>4. anchor \in MaybeInt
    BY FactsAssumption DEF OrElse, Verified, Discovered, MaybeInt
<1> HIDE DEF expiry, anchor
<1>5. decay \in 0 .. FreshnessScale
    <2>1. FreshnessScale \div 2 \in 0 .. FreshnessScale
        BY <1>3
    <2>2. anchor # Unknown /\ ~(now < anchor) => now - anchor \in Nat
        BY <1>3, <1>4 DEF MaybeInt
    <2> QED
        BY <1>3, <2>1, <2>2, DecayIsBounded
<1>6. expiry # Unknown => DaysUntil(expiry, now) \in Int
                          /\ (now <= expiry => DaysUntil(expiry, now) >= 0)
    BY <1>2, <1>3, DaysUntilIsInt DEF MaybeInt
<1>7. ~expired /\ remaining # Unknown /\ remaining <= 7 => remaining \in 0 .. 7
    BY <1>2, <1>3, <1>6 DEF MaybeInt
<1> HIDE DEF decay, remaining, expired
<1>8. ~expired /\ remaining # Unknown /\ remaining <= 7
        => RoundHalfEven(decay * (7 + remaining), 14) \in 0 .. FreshnessScale
    BY <1>5, <1>7, DampingIsBounded
<1>9. score \in 0 .. FreshnessScale
    BY <1>3, <1>5, <1>8
<1> QED
    BY <1>1, <1>2, <1>9

-----------------------------------------------------------------------------
(* Types.                                                                  *)

DatesInv ==
    /\ now \in Times
    /\ expires \in [Opps -> MaybeInt]
    /\ fresh \in [Opps -> 0 .. FreshnessScale]
    /\ edits \in 0 .. MaxEdits /\ requests \in 0 .. MaxRequests

LEMMA DatesInvInit == Init => DatesInv
<1> SUFFICES ASSUME Init PROVE DatesInv
    OBVIOUS
<1>1. now \in Times
    BY RankInvInit DEF RankInv
<1>2. Unknown \in MaybeInt
    BY DEF MaybeInt
<1>3. \A o \in Opps : /\ DeriveExpiresAt(Facts[o], Discovered(o), Unknown) \in MaybeInt
                      /\ AssessNow(o, Unknown).score \in 0 .. FreshnessScale
    BY <1>1, <1>2, ExpiryIsTyped, AssessIsTyped
<1>4. MaxEdits \in Nat /\ MaxRequests \in Nat
    BY RankingAssumption
<1> QED
    BY <1>1, <1>3, <1>4 DEF Init, DatesInv

LEMMA DatesInvStep == DatesInv /\ [Next]_vars => DatesInv'
<1> SUFFICES ASSUME DatesInv, [Next]_vars PROVE DatesInv'
    OBVIOUS
<1>1. MaxEdits \in Nat /\ MaxRequests \in Nat
    BY RankingAssumption
<1>2. ASSUME NEW s \in Sessions, NEW g \in Goals, NEW ids \in Selections, StartScoring(s, g, ids)
      PROVE  DatesInv'
    BY <1>1, <1>2 DEF StartScoring, DatesInv
<1>3. ASSUME NEW s \in Sessions, ScoreStep(s) PROVE DatesInv'
    <2>1. UNCHANGED <<now, expires, fresh, edits, requests>>
        BY <1>3 DEF ScoreStep, LoadOpportunities, SelectScore, WriteScore, CommitScoring
    <2> QED
        BY <2>1 DEF DatesInv
<1>4. ASSUME NEW g \in Goals, NEW settings \in GoalSettings, UpdateGoal(g, settings)
      PROVE  DatesInv'
    BY <1>1, <1>4 DEF UpdateGoal, DatesInv
<1>5. ASSUME NEW chosen, Refresh(chosen) PROVE DatesInv'
    <2>1. \A o \in Opps : /\ AssessNow(o, expires[o]).expires \in MaybeInt
                          /\ AssessNow(o, expires[o]).score \in 0 .. FreshnessScale
        BY AssessIsTyped DEF DatesInv
    <2>2. /\ fresh' = [o \in Opps |-> IF o \in chosen THEN AssessNow(o, expires[o]).score
                                      ELSE fresh[o]]
          /\ expires' = [o \in Opps |-> IF o \in chosen THEN AssessNow(o, expires[o]).expires
                                        ELSE expires[o]]
          /\ UNCHANGED <<now, edits, requests>>
        BY <1>5 DEF Refresh
    <2> QED
        BY <2>1, <2>2 DEF DatesInv
<1>6. CASE ClockTicks
    BY <1>6 DEF ClockTicks, DatesInv
<1>7. CASE UNCHANGED vars
    BY <1>7 DEF vars, DatesInv
<1> QED
    BY <1>2, <1>3, <1>4, <1>5, <1>6, <1>7 DEF Next, RevalidateTask, RefreshOne

\* Whatever weights a user sends and however stale the facts, an overall score
\* stays within 0 .. 100, a confidence and a freshness within 0 .. 1, and every
\* row holds one of the recommendations (scoring.py score, freshness.py assess).
THEOREM RankingTyping == Spec => []TypeOK
<1>1. RankInv /\ DatesInv => TypeOK
    <2> SUFFICES ASSUME RankInv, DatesInv PROVE TypeOK
        OBVIOUS
    <2>1. ASSUME NEW k \in DOMAIN rows
          PROVE  /\ k[1] \in Opps /\ k[2] \in Goals
                 /\ rows[k].overall \in 0 .. 100 * ScoreScale
                 /\ rows[k].confidence \in 0 .. DimensionScale
                 /\ rows[k].recommendation \in Recommendations
        <3>1. k[1] \in Opps /\ k[2] \in Goals /\ Computed(k, rows[k])
            BY DEF RankInv, RowInv
        <3>2. \A settings \in GoalSettings, t \in Times :
                GoalWeights(settings) # ScoringError =>
                  /\ Scored(k[1], settings, t)["overall"] \in 0 .. 100 * ScoreScale
                  /\ Scored(k[1], settings, t)["confidence"] \in 0 .. DimensionScale
                  /\ Scored(k[1], settings, t)["recommendation"] \in Recommendations
            BY <3>1, DerivedIsTyped, GoalWeightsAreGood, ScoreIsBounded DEF Scored
        <3> QED
            BY <3>1, <3>2 DEF Computed, Figures
    <2>2. \A s \in Sessions : scoring[s] # Idle => scoring[s].goal \in Goals
        BY DEF RankInv, RequestInv
    <2> QED
        BY <2>1, <2>2 DEF RankInv, DatesInv, TypeOK, MaybeInt
<1>2. Spec => []DatesInv
    BY DatesInvInit, DatesInvStep, PTL DEF Spec
<1> QED
    BY <1>1, <1>2, RankInvAlways, PTL
-----------------------------------------------------------------------------
(* Moments: the newest row of an opportunity is one.                       *)

LEMMA GreatestOf ==
    ASSUME NEW S, S # {}, NEW n \in Nat, S \subseteq 0 .. n
    PROVE  \E m \in S : \A k \in S : m >= k
<1> DEFINE gaps == {n - x : x \in S}
<1>0. \A x \in S : n - x \in Nat
    OBVIOUS
<1>1. gaps \subseteq Nat /\ gaps # {}
    BY <1>0
<1> HIDE DEF gaps
<1>2. PICK g \in gaps : \A h \in gaps : g <= h
    BY <1>1, LeastOf
<1>3. PICK m \in S : g = n - m
    BY <1>2 DEF gaps
<1>4. \A k \in S : n - m <= n - k
    BY <1>2, <1>3 DEF gaps
<1> QED
    BY <1>4

\* No moment known to a row or a request is after n.
MomentsOf(m, n) ==
    /\ m.pc = "write" \/ m.result # NoRow => m.result.computed \in 0 .. n
    /\ \A k \in DOMAIN m.writes : m.writes[k].computed \in 0 .. n

MomentsUpTo(n) ==
    /\ \A k \in DOMAIN rows : rows[k].computed \in 0 .. n
    /\ \A s \in Sessions : scoring[s] # Idle => MomentsOf(scoring[s], n)

MomentInv == \E n \in Nat : MomentsUpTo(n)

LEMMA NextMomentIsLater ==
    ASSUME NEW n \in Nat, MomentsUpTo(n), NEW o
    PROVE  NextMoment(o) \in 0 .. n + 1
<1> DEFINE requestsInFlight == {scoring[s] : s \in {x \in Sessions : scoring[x] # Idle}}
           stored == {rows[k].computed : k \in {x \in DOMAIN rows : x[1] = o}}
           coming == {r.result.computed : r \in {x \in requestsInFlight :
                                                    x.result # NoRow /\ Oldest(x.left) = o}}
           written == UNION {{r.writes[k].computed : k \in {x \in DOMAIN r.writes : x[1] = o}} :
                                r \in requestsInFlight}
           all == {0} \union stored \union coming \union written
<1>1. \A r \in requestsInFlight : MomentsOf(r, n)
    BY DEF MomentsUpTo
<1> HIDE DEF requestsInFlight
<1>2. stored \subseteq 0 .. n /\ coming \subseteq 0 .. n /\ written \subseteq 0 .. n
    BY <1>1 DEF MomentsOf, MomentsUpTo
<1>3. NextMoment(o) = 1 + Max(all)
    BY DEF NextMoment, requestsInFlight
<1> HIDE DEF stored, coming, written
<1>4. all \subseteq 0 .. n /\ all # {}
    BY <1>2
<1> HIDE DEF all
<1>5. \E m \in all : \A k \in all : m >= k
    BY <1>4, GreatestOf
<1> DEFINE greatest == Max(all)
<1>6. greatest \in all
    BY <1>5 DEF Max
<1>7. NextMoment(o) = 1 + greatest /\ greatest \in 0 .. n
    BY <1>3, <1>4, <1>6
<1> HIDE DEF greatest
<1> QED
    BY <1>7

LEMMA MomentsOfOne ==
    ASSUME NEW s \in Sessions, DOMAIN scoring = Sessions, NEW n \in Nat, MomentsUpTo(n),
           NEW N \in Nat, n <= N, NEW m, m # Idle => MomentsOf(m, N),
           scoring' = [scoring EXCEPT ![s] = m], rows' = rows
    PROVE  MomentInv'
<1>1. scoring'[s] = m /\ \A u \in Sessions \ {s} : scoring'[u] = scoring[u]
    OBVIOUS
<1>2. \A u \in Sessions : scoring'[u] # Idle => MomentsOf(scoring'[u], N)
    <2> TAKE u \in Sessions
    <2> HAVE scoring'[u] # Idle
    <2>1. CASE u = s
        BY <1>1, <2>1
    <2>2. CASE u # s
        <3>1. MomentsOf(scoring[u], n) /\ scoring'[u] = scoring[u]
            BY <1>1, <2>2 DEF MomentsUpTo
        <3> QED
            BY <3>1 DEF MomentsOf
    <2> QED
        BY <2>1, <2>2
<1>3. \A k \in DOMAIN rows' : rows'[k].computed \in 0 .. N
    BY DEF MomentsUpTo
<1> QED
    BY <1>2, <1>3 DEF MomentInv, MomentsUpTo

LEMMA MomentInvStep == RankInv /\ MomentInv /\ [Next]_vars => MomentInv'
<1> SUFFICES ASSUME RankInv, MomentInv, [Next]_vars PROVE MomentInv'
    OBVIOUS
<1>1. PICK n \in Nat : MomentsUpTo(n)
    BY DEF MomentInv
<1>2. DOMAIN scoring = Sessions /\ n <= n
    BY DEF RankInv
<1>3. ASSUME NEW s \in Sessions, NEW g, NEW ids, StartScoring(s, g, ids) PROVE MomentInv'
    <2> DEFINE m == [pc |-> "load", goal |-> g, settings |-> goals[g], left |-> {},
                     ids |-> ids, found |-> NoRow, result |-> NoRow,
                     status |-> <<>>, moved |-> {}, writes |-> <<>>]
    <2>1. scoring' = [scoring EXCEPT ![s] = m] /\ rows' = rows
        BY <1>3 DEF StartScoring
    <2>2. MomentsOf(m, n)
        BY DEF MomentsOf
    <2> HIDE DEF m
    <2> QED
        BY <1>1, <1>2, <2>1, <2>2, MomentsOfOne
<1>4. ASSUME NEW s \in Sessions, LoadOpportunities(s) PROVE MomentInv'
    <2> DEFINE mine == scoring[s]
               found == Candidates(mine.ids)
               m == [mine EXCEPT !.pc = "select", !.left = found,
                                 !.status = [o \in found |-> status[o]]]
               next == IF found = {} THEN Idle ELSE m
    <2>1. /\ mine # Idle /\ scoring' = [scoring EXCEPT ![s] = next] /\ rows' = rows
        BY <1>4 DEF LoadOpportunities
    <2>2. DOMAIN mine = Fields /\ MomentsOf(mine, n)
        BY <1>1, <2>1 DEF RankInv, RequestInv, MomentsUpTo
    <2>3. m.pc = "select" /\ m.result = mine.result /\ m.writes = mine.writes
        BY <2>2 DEF Fields
    <2> HIDE DEF mine, found, m
    <2>4. MomentsOf(m, n)
        BY <2>2, <2>3 DEF MomentsOf
    <2>5. next # Idle => MomentsOf(next, n)
        BY <2>4
    <2> HIDE DEF next
    <2> QED
        BY <1>1, <1>2, <2>1, <2>5, MomentsOfOne
<1>5. ASSUME NEW s \in Sessions, SelectScore(s) PROVE MomentInv'
    <2> DEFINE mine == scoring[s]
               o == Oldest(mine.left)
               weights == WeightsFor(mine.settings.profile, mine.settings.override)
               key == Key(o, mine.goal, weights.version)
               moment == NextMoment(o)
               result == RowOf(o, mine.settings, weights, moment)
               found == IF key \in DOMAIN rows THEN rows[key] ELSE NoRow
               m == [mine EXCEPT !.pc = "write", !.found = found, !.result = result]
               next == IF weights = ScoringError THEN Idle ELSE m
    <2>1. mine # Idle /\ scoring' = [scoring EXCEPT ![s] = next] /\ rows' = rows
        BY <1>5 DEF SelectScore
    <2>2. DOMAIN mine = Fields /\ MomentsOf(mine, n)
        BY <1>1, <2>1 DEF RankInv, RequestInv, MomentsUpTo
    <2>3. moment \in 0 .. n + 1
        BY <1>1, NextMomentIsLater
    <2>4. result.computed = moment
        BY DEF RowOf
    <2>5. m.result = result /\ m.writes = mine.writes
        BY <2>2 DEF Fields
    <2> HIDE DEF mine, o, weights, key, moment, result, found, m
    <2>6. MomentsOf(m, n + 1)
        BY <1>1, <2>2, <2>3, <2>4, <2>5 DEF MomentsOf
    <2>7. next # Idle => MomentsOf(next, n + 1)
        BY <2>6
    <2> HIDE DEF next
    <2>8. n + 1 \in Nat /\ n <= n + 1
        BY <1>1
    <2> QED
        BY <1>1, <1>2, <2>1, <2>7, <2>8, MomentsOfOne
<1>6. ASSUME NEW s \in Sessions, WriteScore(s) PROVE MomentInv'
    <2> DEFINE mine == scoring[s]
               o == Oldest(mine.left)
               key == KeyOf(mine)
               row == IF mine.found = NoRow THEN mine.result
                      ELSE Overwrite(rows[key], mine.found, mine.result)
               target == Moved(mine.status[o], TargetStatus(mine.result.recommendation))
               taken == mine.found = NoRow /\ key \in DOMAIN rows
               m == [mine EXCEPT !.pc = IF mine.left = {o} THEN "commit" ELSE "select",
                            !.left = @ \ {o}, !.found = NoRow, !.result = NoRow,
                            !.writes = With(mine.writes, key, row),
                            !.status[o] = target,
                            !.moved = IF target # mine.status[o] THEN @ \union {o} ELSE @]
               next == IF taken THEN Idle ELSE m
    <2>1. /\ mine # Idle /\ mine.pc = "write" /\ scoring' = [scoring EXCEPT ![s] = next]
          /\ rows' = rows
        BY <1>6 DEF WriteScore, KeyOf
    <2>2. /\ DOMAIN mine = Fields /\ MomentsOf(mine, n)
          /\ mine.found # NoRow => key \in DOMAIN rows
        BY <1>1, <2>1 DEF RankInv, RequestInv, MomentsUpTo
    <2>3. mine.result.computed \in 0 .. n
        BY <2>1, <2>2 DEF MomentsOf
    <2>4. row.computed \in 0 .. n
        <3>1. CASE mine.found = NoRow
            BY <2>3, <3>1
        <3>2. CASE mine.found # NoRow
            <4>1. rows[key].computed \in 0 .. n
                BY <1>1, <2>2, <3>2 DEF MomentsUpTo
            <4>2. row.computed \in {rows[key].computed, mine.result.computed}
                BY <3>2 DEF Overwrite, Columns
            <4> QED
                BY <2>3, <4>1, <4>2
        <3> QED
            BY <3>1, <3>2
    <2>5. /\ m.writes = With(mine.writes, key, row) /\ m.result = NoRow
          /\ m.pc \in {"commit", "select"}
        <3> HIDE DEF mine, o, key, row, target
        <3> QED
            BY <2>2 DEF Fields
    <2> HIDE DEF mine, o, key, row, target, m
    <2>6. MomentsOf(m, n)
        BY <2>2, <2>4, <2>5 DEF MomentsOf, With
    <2>7. next # Idle => MomentsOf(next, n)
        BY <2>6
    <2> HIDE DEF next, taken
    <2> QED
        BY <1>1, <1>2, <2>1, <2>7, MomentsOfOne
<1>7. ASSUME NEW s \in Sessions, CommitScoring(s) PROVE MomentInv'
    <2> DEFINE mine == scoring[s]
    <2>1. /\ mine # Idle /\ scoring' = [scoring EXCEPT ![s] = Idle]
          /\ rows' = [k \in DOMAIN rows \union DOMAIN mine.writes |->
                          IF k \in DOMAIN mine.writes THEN mine.writes[k] ELSE rows[k]]
        BY <1>7 DEF CommitScoring
    <2>2. MomentsOf(mine, n)
        BY <1>1, <2>1 DEF MomentsUpTo
    <2> HIDE DEF mine
    <2>3. \A k \in DOMAIN rows' : rows'[k].computed \in 0 .. n
        BY <1>1, <2>1, <2>2 DEF MomentsOf, MomentsUpTo
    <2>4. \A u \in Sessions : scoring'[u] # Idle => MomentsOf(scoring'[u], n)
        BY <1>1, <1>2, <2>1 DEF MomentsUpTo
    <2> QED
        BY <1>1, <2>3, <2>4 DEF MomentInv, MomentsUpTo
<1>8. CASE UNCHANGED <<rows, scoring>>
    BY <1>1, <1>8 DEF MomentInv, MomentsUpTo
<1>9. ASSUME NEW g \in Goals, NEW settings \in GoalSettings, UpdateGoal(g, settings)
      PROVE  UNCHANGED <<rows, scoring>>
    BY <1>9 DEF UpdateGoal
<1>10. ASSUME NEW chosen, Refresh(chosen) PROVE UNCHANGED <<rows, scoring>>
    BY <1>10 DEF Refresh
<1>11. ClockTicks \/ UNCHANGED vars => UNCHANGED <<rows, scoring>>
    BY DEF ClockTicks, vars
<1> QED
    BY <1>3, <1>4, <1>5, <1>6, <1>7, <1>8, <1>9, <1>10, <1>11
       DEF Next, ScoreStep, RevalidateTask, RefreshOne

LEMMA MomentInvAlways == Spec => []MomentInv
<1>1. Init => MomentInv
    <2> SUFFICES ASSUME Init PROVE MomentsUpTo(0)
        BY DEF MomentInv
    <2> QED
        BY DEF Init, MomentsUpTo
<1> QED
    BY <1>1, MomentInvStep, RankInvAlways, PTL DEF Spec
-----------------------------------------------------------------------------
(* Paging.                                                                 *)

\* The newest row of an opportunity is a row, and it has a score.
LEMMA LatestIsARow ==
    ASSUME MomentInv, NEW o, NEW goal, LatestScore(o, goal) # NoRow
    PROVE  \E k \in DOMAIN rows : LatestScore(o, goal) = rows[k]
<1> DEFINE mine == {k \in DOMAIN rows : k[1] = o /\ (goal = Unknown \/ k[2] = goal)}
           moments == {rows[k].computed : k \in mine}
           newest == CHOOSE k \in mine : \A j \in mine : rows[j].computed <= rows[k].computed
<1>1. PICK n \in Nat : MomentsUpTo(n)
    BY DEF MomentInv
<1>2. mine # {} /\ LatestScore(o, goal) = rows[newest]
    BY DEF LatestScore
<1>3. moments \subseteq 0 .. n /\ moments # {}
    BY <1>1, <1>2 DEF MomentsUpTo
<1> HIDE DEF moments
<1>4. PICK m \in moments : \A x \in moments : m >= x
    BY <1>1, <1>3, GreatestOf
<1>5. PICK k \in mine : m = rows[k].computed
    BY <1>4 DEF moments
<1>6. \A j \in mine : rows[j].computed <= rows[k].computed
    BY <1>1, <1>4, <1>5 DEF moments, MomentsUpTo
<1>7. newest \in mine
    BY <1>5, <1>6
<1> HIDE DEF newest
<1> QED
    BY <1>2, <1>7

Sorts == {"score", "deadline", "recent"}

\* The list is sorted by numbers.
LEMMA SortValueIsInt ==
    ASSUME TypeOK, MomentInv, NEW o \in Opps, NEW sort \in Sorts, NEW filter
    PROVE  SortValue(o, sort, filter) \in Int
<1> DEFINE score == LatestScore(o, filter.goal)
           byScore == IF score = NoRow THEN NoScore ELSE score.overall
           byDeadline == OrElse(Facts[o].deadline, FarFuture)
           byAge == CreatedAt(o)
<1>1. byScore \in Int
    <2>1. NoScore \in Int
        BY DEF NoScore
    <2>2. ASSUME score # NoRow PROVE score.overall \in Int
        <3>1. PICK k \in DOMAIN rows : score = rows[k]
            BY <2>2, LatestIsARow
        <3>2. rows[k].overall \in 0 .. 100 * ScoreScale
            BY DEF TypeOK
        <3> QED
            BY <3>1, <3>2, ScaleAssumption
    <2> QED
        BY <2>1, <2>2
<1>2. byDeadline \in Int
    BY FactsAssumption DEF OrElse, FarFuture
<1>3. byAge \in Int
    <2>1. Created \in Seq(Opps) /\ \E i \in DOMAIN Created : Created[i] = o
        BY RankingAssumption
    <2>2. byAge \in DOMAIN Created
        BY <2>1 DEF CreatedAt
    <2> QED
        BY <2>1, <2>2
<1>4. SortValue(o, sort, filter)
        = CASE sort = "score" -> byScore [] sort = "deadline" -> byDeadline [] sort = "recent" -> byAge
    BY Zenon DEF SortValue
<1>5. sort = "score" \/ sort = "deadline" \/ sort = "recent"
    BY DEF Sorts
<1> HIDE DEF byScore, byDeadline, byAge
<1>6. (CASE sort = "score" -> byScore [] sort = "deadline" -> byDeadline [] sort = "recent" -> byAge) \in Int
    BY <1>1, <1>2, <1>3, <1>5, Zenon
<1> QED
    BY <1>4, <1>6, Zenon

\* Places are strictly ordered, ties broken by the id.
LEMMA PlacesAreOrdered ==
    ASSUME TypeOK, MomentInv, NEW sort \in Sorts, NEW filter,
           NEW o \in Opps, NEW p \in Opps, NEW q \in Opps
    PROVE  LET before(a, b) == Precedes(Place(a, sort, filter), Place(b, sort, filter), sort)
           IN  /\ ~(before(o, p) /\ before(p, o))
               /\ o = p \/ before(o, p) \/ before(p, o)
               /\ before(o, p) /\ before(p, q) => before(o, q)
               /\ ~before(o, o)
<1> DEFINE v(a) == SortValue(a, sort, filter)
<1>1. v(o) \in Int /\ v(p) \in Int /\ v(q) \in Int
    BY SortValueIsInt
<1>2. o \in Int /\ p \in Int /\ q \in Int
    BY RankingAssumption
<1>3. \A a, b : Precedes(Place(a, sort, filter), Place(b, sort, filter), sort)
                <=> IF Descending(sort) THEN v(a) > v(b) \/ (v(a) = v(b) /\ a > b)
                    ELSE v(a) < v(b) \/ (v(a) = v(b) /\ a < b)
    BY DEF Precedes, Place
<1> HIDE DEF v
<1> QED
    BY <1>1, <1>2, <1>3

\* Who comes before is before in number.
LEMMA RanksGrow ==
    ASSUME TypeOK, MomentInv, NEW sort \in Sorts, NEW filter,
           NEW opps, opps \subseteq Opps, NEW o \in opps, NEW p \in opps,
           Precedes(Place(o, sort, filter), Place(p, sort, filter), sort)
    PROVE  /\ Cardinality(Before(o, opps, sort, filter)) \in Nat
           /\ Cardinality(Before(p, opps, sort, filter)) \in Nat
           /\ Cardinality(Before(o, opps, sort, filter)) < Cardinality(Before(p, opps, sort, filter))
<1> DEFINE A == Before(o, opps, sort, filter)
           B == Before(p, opps, sort, filter)
<1>1. A \subseteq B
    BY PlacesAreOrdered DEF Before
<1>2. o \in B /\ o \notin A
    BY PlacesAreOrdered DEF Before
<1>3. IsFiniteSet(B)
    <2>1. B \subseteq Opps /\ IsFiniteSet(Opps)
        BY RankingAssumption DEF Before
    <2> QED
        BY <2>1, FS_Subset
<1> HIDE DEF A, B
<1>4. IsFiniteSet(A) /\ Cardinality(A) <= Cardinality(B) /\ Cardinality(A) # Cardinality(B)
    BY <1>1, <1>2, <1>3, FS_Subset
<1>5. Cardinality(A) \in Nat /\ Cardinality(B) \in Nat
    BY <1>3, <1>4, FS_CardinalityType
<1> QED
    BY <1>4, <1>5 DEF A, B

\* A page that is not empty has a last row, all others before it.
LEMMA LastIsLast ==
    ASSUME TypeOK, MomentInv, NEW sort \in Sorts, NEW filter,
           NEW opps, opps \subseteq Opps, opps # {}
    PROVE  LET last == LastOf(opps, sort, filter)
           IN  last \in opps /\ opps \ {last} \subseteq Before(last, opps, sort, filter)
<1> DEFINE rank(o) == Cardinality(Before(o, opps, sort, filter))
           ranks == {rank(o) : o \in opps}
           size == Cardinality(opps)
<1>1. IsFiniteSet(opps)
    BY RankingAssumption, FS_Subset
<1>2. size \in Nat
    BY <1>1, FS_CardinalityType
<1>3. \A o \in opps : rank(o) \in 0 .. size
    <2> TAKE o \in opps
    <2>1. Before(o, opps, sort, filter) \subseteq opps
        BY DEF Before
    <2>2. /\ IsFiniteSet(Before(o, opps, sort, filter))
          /\ Cardinality(Before(o, opps, sort, filter)) <= size
        BY <1>1, <2>1, FS_Subset
    <2>3. Cardinality(Before(o, opps, sort, filter)) \in Nat
        BY <2>2, FS_CardinalityType
    <2> QED
        BY <1>2, <2>2, <2>3
<1> HIDE DEF rank, size
<1>4. ranks \subseteq 0 .. size /\ ranks # {}
    BY <1>3
<1> HIDE DEF ranks
<1>5. PICK r \in ranks : \A x \in ranks : r >= x
    BY <1>2, <1>4, GreatestOf
<1>6. PICK l \in opps : r = rank(l)
    BY <1>5 DEF ranks
<1>7. opps \ {l} \subseteq Before(l, opps, sort, filter)
    <2> SUFFICES ASSUME NEW o \in opps, o # l
                 PROVE  Precedes(Place(o, sort, filter), Place(l, sort, filter), sort)
        BY DEF Before
    <2>1. \/ Precedes(Place(o, sort, filter), Place(l, sort, filter), sort)
          \/ Precedes(Place(l, sort, filter), Place(o, sort, filter), sort)
        BY <1>6, PlacesAreOrdered
    <2>2. ASSUME Precedes(Place(l, sort, filter), Place(o, sort, filter), sort) PROVE FALSE
        <3>1. rank(l) < rank(o)
            BY <1>6, <2>2, RanksGrow DEF rank
        <3>2. rank(l) >= rank(o)
            BY <1>5, <1>6 DEF ranks
        <3> QED
            BY <1>2, <1>3, <1>6, <3>1, <3>2
    <2> QED
        BY <2>1, <2>2
<1> QED
    BY <1>6, <1>7 DEF LastOf

\* The first page and the rest after its cursor share out what matches.
LEMMA PageAndRest ==
    ASSUME TypeOK, MomentInv, NEW sort \in Sorts, NEW filter,
           NextCursor(Unknown, sort, filter) # Unknown, NEW o \in Opps, Matches(o, filter)
    PROVE  o \in Page(Unknown, sort, filter)
             <=> ~Precedes(NextCursor(Unknown, sort, filter), Place(o, sort, filter), sort)
<1> DEFINE opps == RowsLeft(Unknown, sort, filter)
           rank(p) == Cardinality(Before(p, opps, sort, filter))
           page == Page(Unknown, sort, filter)
           fetched == FirstOf(PageLimit + 1, opps, sort, filter)
           last == LastOf(page, sort, filter)
           before(p, q) == Precedes(Place(p, sort, filter), Place(q, sort, filter), sort)
<1>1. opps \subseteq Opps /\ o \in opps
    BY DEF RowsLeft, IsLeft, AfterCursor
<1>2. page = {p \in opps : rank(p) < PageLimit}
    BY DEF Page, FirstOf
<1>3. PageLimit \in Nat \ {0}
    BY RankingAssumption
<1>4. NextCursor(Unknown, sort, filter) = Place(last, sort, filter) /\ Cardinality(fetched) > PageLimit
    BY DEF NextCursor
<1>5. \A p \in opps : rank(p) \in Nat
    <2> TAKE p \in opps
    <2>1. IsFiniteSet(Before(p, opps, sort, filter))
        <3>1. Before(p, opps, sort, filter) \subseteq Opps /\ IsFiniteSet(Opps)
            BY <1>1, RankingAssumption DEF Before
        <3> QED
            BY <3>1, FS_Subset
    <2> QED
        BY <2>1, FS_CardinalityType
<1>6. \A p, q \in opps : before(p, q) => rank(p) < rank(q)
    <2> HIDE DEF opps
    <2> QED
        BY <1>1, RanksGrow
<1>7. \A p, q \in opps : ~(before(p, q) /\ before(q, p)) /\ (p = q \/ before(p, q) \/ before(q, p))
                         /\ ~before(p, p)
    BY <1>1, PlacesAreOrdered
<1>8. page # {}
    <2>1. fetched # {} /\ fetched \subseteq opps
        BY <1>3, <1>4, FS_EmptySet DEF FirstOf
    <2> DEFINE ranks == {rank(p) : p \in opps}
    <2>2. ranks \subseteq Nat /\ ranks # {}
        BY <1>1, <1>5
    <2> HIDE DEF ranks
    <2>3. PICK r \in ranks : \A x \in ranks : r <= x
        BY <2>2, LeastOf
    <2>4. PICK p \in opps : r = rank(p)
        BY <2>3 DEF ranks
    <2>5. Before(p, opps, sort, filter) = {}
        <3> SUFFICES ASSUME NEW q \in opps, before(q, p) PROVE FALSE
            BY DEF Before
        <3>1. rank(q) < rank(p)
            BY <1>6, <2>4
        <3>2. rank(p) <= rank(q)
            BY <2>3, <2>4 DEF ranks
        <3> QED
            BY <1>5, <2>4, <3>1, <3>2
    <2>6. rank(p) = 0
        BY <2>5, FS_EmptySet
    <2> QED
        BY <1>2, <1>3, <2>4, <2>6
<1>9. last \in page /\ page \ {last} \subseteq Before(last, page, sort, filter)
    <2>1. page \subseteq Opps
        BY <1>1, <1>2
    <2> HIDE DEF page
    <2> QED
        BY <1>8, <2>1, LastIsLast
<1> HIDE DEF opps, rank, page, last
<1>10. o \in page => ~before(last, o)
    <2> SUFFICES ASSUME o \in page PROVE ~before(last, o)
        OBVIOUS
    <2>1. o = last \/ before(o, last)
        BY <1>9 DEF Before
    <2>2. last \in opps
        BY <1>2, <1>9
    <2> QED
        BY <1>1, <1>7, <2>1, <2>2
<1>11. o \notin page => before(last, o)
    <2> SUFFICES ASSUME o \notin page, ~before(last, o) PROVE FALSE
        OBVIOUS
    <2>1. last \in opps /\ rank(last) < PageLimit
        BY <1>2, <1>9
    <2>2. before(o, last)
        BY <1>1, <1>7, <1>9, <2>1
    <2>3. rank(o) < rank(last)
        BY <1>1, <1>6, <2>1, <2>2
    <2>4. rank(o) < PageLimit
        BY <1>1, <1>3, <1>5, <2>1, <2>3
    <2> QED
        BY <1>1, <1>2, <2>4
<1>12. NextCursor(Unknown, sort, filter) = Place(last, sort, filter)
    BY <1>4
<1> QED
    BY <1>10, <1>11, <1>12 DEF page, Precedes

\* A row whose place a step does not change is listed once by a client that
\* reads the first page before the step and the rest after it, for any rows,
\* filters and sorts (opportunity_service.py list_opportunities).
THEOREM KeysetTheorem == Spec => KeysetSurvivesChange
<1>1. ASSUME TypeOK, MomentInv, NEW sort \in Sorts, NEW filter \in Filters,
             NEW cursor \in {NextCursor(Unknown, sort, filter)},
             NEW first \in {Page(Unknown, sort, filter)},
             NEW o \in {p \in Opps : Matches(p, filter)},
             NEW place \in {Place(o, sort, filter)},
             cursor # Unknown, Matches(o, filter)', Place(o, sort, filter)' = place
      PROVE  (o \in first) # IsLeft(o, cursor, sort, filter)'
    <2>1. o \in first <=> ~Precedes(cursor, place, sort)
        BY <1>1, PageAndRest
    <2>2. IsLeft(o, cursor, sort, filter)' <=> Precedes(cursor, place, sort)
        BY <1>1 DEF IsLeft, AfterCursor
    <2> QED
        BY <1>1, <2>1, <2>2 DEF IsLeft, AfterCursor
<1>2. TypeOK /\ MomentInv => ListedOnce
    BY <1>1 DEF ListedOnce, Sorts
<1> QED
    BY <1>2, RankingTyping, MomentInvAlways, PTL DEF KeysetSurvivesChange, Spec
==============================================================================
