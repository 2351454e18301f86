-------------------------- MODULE CompletionProofs --------------------------
(***************************************************************************)
(* Theorems about Completion, for any workers, candidates, agents, chain   *)
(* of providers and kinds of cache.                                        *)
(***************************************************************************)
EXTENDS Completion, TLAPS

AgentType == [task : {"reasoning", "standard", "extract"}, rounds : 1 .. 10,
              written : BOOLEAN, own : BOOLEAN]

\* Every agent gives a model at least one round; the three whose result is
\* looked up by its opportunity write the opportunity themselves.
LEMMA AgentFacts ==
    /\ \A a \in DOMAIN Agents : Agents[a] \in AgentType
    /\ \A a \in {"decision", "contrarian", "verification"} : Agents[a].own = TRUE
<1>1. MaxIterations \in 1 .. 10
    BY CompletionAssumption
<1>2. /\ Understand \in AgentType /\ Plan \in AgentType /\ Research \in AgentType
      /\ Qualification \in AgentType /\ Matching \in AgentType /\ Risk \in AgentType
      /\ Decision \in AgentType /\ Contrarian \in AgentType /\ Verification \in AgentType
      /\ Extraction \in AgentType
    BY <1>1 DEF AgentType, Agent, Understand, Plan, Research, Qualification, Matching, Risk,
                Decision, Contrarian, Verification, Extraction
<1>3. Decision.own = TRUE /\ Contrarian.own = TRUE /\ Verification.own = TRUE
    BY DEF Agent, Decision, Contrarian, Verification
<1> QED
    BY <1>2, <1>3 DEF Agents

\* A provider's answer is to the prompt it was given.
LEMMA AnswersFit ==
    ASSUME NEW kind \in ProviderKinds, NEW p \in Prompts, NEW a \in AnswersOf(kind, p)
    PROVE  a \in Answers /\ a.to = p
<1>1. \A flaw \in {None} \union Flaws, about \in Candidates \union {Nobody} :
          Answer(p, flaw, about) \in Answers /\ Answer(p, flaw, about).to = p
    BY DEF Answer, Answers
<1>2. \A b \in Valid(p) \union Invalid(p) \union FakeAnswers(p) : b \in Answers /\ b.to = p
    BY <1>1 DEF Valid, Invalid, FakeAnswers
<1>3. a \in Valid(p) \union Invalid(p) \union FakeAnswers(p)
    BY DEF AnswersOf, ProviderKinds, OllamaAnswers, CloudAnswers, VllmAnswers
<1> QED
    BY <1>2, <1>3

-----------------------------------------------------------------------------
\* The inductive invariant: an answer in hand is to the prompt at hand, and one
\* in the cache to the prompt of its key.  The prompt must not move while an
\* answer is in hand, which is why no action changes raw between the look-up
\* and the parse.
FitInv ==
    /\ result \in [Workers -> {None} \union Results]
    /\ \A w \in Workers : pc[w] \in {"keep", "parse"} =>
            answer[w] \in Answers /\ answer[w].to = Prompt(w)
    /\ \A k \in DOMAIN cache : cache[k] \in Answers /\ cache[k].to = k.prompt
    /\ ResultsFitTheirJob

Shape ==
    /\ pc \in [Workers -> Pcs]
    /\ job \in [Workers -> [agent : Asked, candidate : Candidates]]
    /\ round \in [Workers -> 1 .. 10]
    /\ \A w \in Workers : round[w] <= Agents[job[w].agent].rounds
    /\ raw \in [Workers -> {None} \union Flaws]
    /\ provider \in [Workers -> 1 .. Len(Chain)]
    /\ answer \in [Workers -> {None} \union Answers]
    /\ \A w \in Workers : pc[w] = "done" <=> result[w] # None
    /\ reason \in [Workers -> {None, "cache", "unavailable", "invalid"}]
    /\ asked \in [Workers -> BOOLEAN] /\ started \in [Workers -> 0 .. MaxCompletions]
    /\ cacheKind \in CacheKinds

CompletionInv == Shape /\ FitInv

\* A worker's prompt is one, and the chain has a provider at its place.
LEMMA PromptFacts ==
    ASSUME Shape, NEW w \in Workers
    PROVE  /\ Prompt(w) \in Prompts
           /\ Chain[provider[w]] \in ProviderKinds
           /\ Agents[job[w].agent] \in AgentType
<1>1. job[w].agent \in Asked /\ job[w].candidate \in Candidates /\ raw[w] \in {None} \union Flaws
    BY DEF Shape
<1>2. Text[job[w].candidate] \in Range(Text)
    BY <1>1, AskedAssumption DEF Range
<1>3. provider[w] \in 1 .. Len(Chain)
    BY DEF Shape
<1> QED
    BY <1>1, <1>2, <1>3, AskedAssumption, CompletionAssumption, AgentFacts DEF Prompt, Prompts

\* A prompt is made of the job and the output to repair.
LEMMA PromptStays ==
    ASSUME NEW w, job[w]' = job[w], raw[w]' = raw[w]
    PROVE  Prompt(w)' = Prompt(w)
    BY DEF Prompt

\* What a worker's step leaves of the others.
LEMMA OthersStay ==
    ASSUME FitInv, NEW w \in Workers, NEW v \in Workers \ {w},
           pc'[v] = pc[v], job'[v] = job[v], raw'[v] = raw[v],
           answer'[v] = answer[v], result'[v] = result[v]
    PROVE  /\ pc'[v] \in {"keep", "parse"} =>
                answer'[v] \in Answers /\ answer'[v].to = Prompt(v)'
           /\ pc'[v] = "done" =>
                /\ result'[v].to = Prompt(v)'
                /\ job'[v].agent \in {"decision", "contrarian", "verification"}
                    => result'[v].about = job'[v].candidate
    BY PromptStays DEF FitInv, ResultsFitTheirJob

LEMMA InitHolds == Init => CompletionInv
<1> SUFFICES ASSUME Init PROVE CompletionInv
    OBVIOUS
<1>1. \E a \in Asked : TRUE
    BY AskedAssumption
<1>2. \E c \in Candidates : TRUE
    BY CompletionAssumption
<1>3. job \in [Workers -> [agent : Asked, candidate : Candidates]]
    BY <1>1, <1>2 DEF Init
<1>4. \A w \in Workers : Agents[job[w].agent].rounds \in 1 .. 10
    BY <1>3, AskedAssumption, AgentFacts DEF AgentType
<1>5. Len(Chain) \in Nat /\ Len(Chain) > 0 /\ MaxCompletions \in Nat
    BY CompletionAssumption
<1>6. Shape
    <2>1. /\ pc \in [Workers -> Pcs] /\ round \in [Workers -> 1 .. 10]
          /\ provider \in [Workers -> 1 .. Len(Chain)]
          /\ started \in [Workers -> 0 .. MaxCompletions] /\ asked \in [Workers -> BOOLEAN]
        BY <1>5 DEF Init, Pcs
    <2>2. /\ raw \in [Workers -> {None} \union Flaws]
          /\ answer \in [Workers -> {None} \union Answers]
          /\ reason \in [Workers -> {None, "cache", "unavailable", "invalid"}]
        BY DEF Init
    <2>3. \A w \in Workers : round[w] <= Agents[job[w].agent].rounds
        BY <1>4 DEF Init
    <2>4. \A w \in Workers : pc[w] = "done" <=> result[w] # None
        BY DEF Init
    <2> QED
        BY <1>3, <2>1, <2>2, <2>3, <2>4 DEF Init, Shape
<1>7. FitInv
    BY DEF Init, FitInv, ResultsFitTheirJob
<1> QED
    BY <1>6, <1>7 DEF CompletionInv

-----------------------------------------------------------------------------
(* The steps of a worker. *)

\* Whatever FallBack does, it is at a provider of the chain or out.
LEMMA FallBackFacts ==
    ASSUME Shape, NEW w \in Workers, FallBack(w)
    PROVE  /\ pc' \in [Workers -> Pcs] /\ pc'[w] \in {"ask", "failed"}
           /\ \A v \in Workers \ {w} : pc'[v] = pc[v]
           /\ provider' \in [Workers -> 1 .. Len(Chain)]
           /\ reason' \in [Workers -> {None, "cache", "unavailable", "invalid"}]
<1> USE DEF Shape, Pcs
<1>1. Len(Chain) \in Nat /\ Len(Chain) >= 1
    BY CompletionAssumption
<1>2. CASE provider[w] < Len(Chain)
    <2>1. provider[w] + 1 \in 1 .. Len(Chain)
        BY <1>1, <1>2
    <2> QED
        BY <1>2, <2>1 DEF FallBack
<1>3. CASE ~(provider[w] < Len(Chain))
    <2>1. Raise(w, "unavailable") /\ provider' = [provider EXCEPT ![w] = 1]
        BY <1>3 DEF FallBack
    <2> QED
        BY <1>1, <2>1 DEF Raise
<1> QED
    BY <1>2, <1>3

LEMMA StepKeepsShape ==
    ASSUME CompletionInv, NEW w \in Workers, Step(w)
    PROVE  Shape'
<1> USE DEF Shape, Pcs
<1>0. Shape
    BY DEF CompletionInv
<1>1. CASE Lookup(w)
    <2>1. Key(w) \in DOMAIN cache => cache[Key(w)] \in Answers
        BY DEF CompletionInv, FitInv
    <2> QED
        BY <1>0, <1>1, <2>1 DEF Lookup
<1>2. CASE LookupFails(w)
    BY <1>0, <1>2 DEF LookupFails, Raise
<1>3. CASE ProviderAnswers(w)
    <2>1. ASSUME NEW a \in AnswersOf(Chain[provider[w]], Prompt(w)) PROVE a \in Answers
        BY <1>0, <2>1, PromptFacts, AnswersFit
    <2>2. 1 \in 1 .. Len(Chain)
        BY CompletionAssumption
    <2>3. PICK a \in AnswersOf(Chain[provider[w]], Prompt(w)) :
              answer' = [answer EXCEPT ![w] = a]
        BY <1>3 DEF ProviderAnswers
    <2>4. answer' \in [Workers -> {None} \union Answers]
        BY <1>0, <2>1, <2>3
    <2>5. pc' \in [Workers -> Pcs] /\ \A v \in Workers : pc'[v] = "done" <=> result'[v] # None
        BY <1>0, <1>3 DEF ProviderAnswers
    <2>6. provider' \in [Workers -> 1 .. Len(Chain)]
        BY <1>0, <1>3, <2>2 DEF ProviderAnswers
    <2> QED
        BY <1>0, <1>3, <2>4, <2>5, <2>6 DEF ProviderAnswers
<1>4. CASE ProviderFails(w)
    BY <1>0, <1>4, FallBackFacts DEF ProviderFails
<1>5. CASE Keep(w)
    BY <1>0, <1>5, CompletionAssumption DEF Keep
<1>6. CASE KeepFails(w)
    BY <1>0, <1>6, FallBackFacts DEF KeepFails
<1>7. CASE Accept(w)
    <2>1. answer[w] \in Answers
        BY <1>7 DEF Accept, CompletionInv, FitInv
    <2>2. Returned(w, answer[w]) \in Results
        BY <1>0, <2>1 DEF Returned, Answers, Results
    <2> QED
        BY <1>0, <1>7, <2>2, NoneAssumption DEF Accept, CompletionInv, FitInv
<1>8. CASE Repair(w)
    <2>1. Agents[job[w].agent].rounds \in 1 .. 10
        BY <1>0, PromptFacts DEF AgentType
    <2>2. CASE round[w] < Agents[job[w].agent].rounds
        <3>1. round[w] \in 1 .. 10
            BY <1>0
        <3>2. round[w] + 1 \in 1 .. 10 /\ round[w] + 1 <= Agents[job[w].agent].rounds
            BY <2>1, <2>2, <3>1
        <3>3. /\ round' = [round EXCEPT ![w] = @ + 1]
              /\ raw' = [raw EXCEPT ![w] = answer[w].flaw]
              /\ pc[w] = "parse" /\ pc' = [pc EXCEPT ![w] = "lookup"]
              /\ answer' = [answer EXCEPT ![w] = None]
              /\ answer[w].flaw # None
              /\ UNCHANGED <<job, provider, result, reason, asked, started, cacheKind>>
            BY <1>8, <2>2 DEF Repair, RepairWhile
        <3>4. /\ round' \in [Workers -> 1 .. 10]
              /\ \A v \in Workers : round'[v] <= Agents[job'[v].agent].rounds
            BY <1>0, <3>2, <3>3
        <3>5. answer[w] \in Answers
            BY <3>3 DEF CompletionInv, FitInv
        <3>6. answer[w].flaw \in Flaws
            BY <3>3, <3>5 DEF Answers
        <3> QED
            BY <1>0, <3>3, <3>4, <3>6
    <2>3. CASE ~(round[w] < Agents[job[w].agent].rounds)
        BY <1>0, <1>8, <2>3 DEF Repair, RepairWhile, Raise
    <2> QED
        BY <2>2, <2>3
<1> QED
    BY <1>1, <1>2, <1>3, <1>4, <1>5, <1>6, <1>7, <1>8 DEF Step, AtCache

LEMMA StepKeepsFit ==
    ASSUME CompletionInv, Shape', NEW w \in Workers, Step(w)
    PROVE  FitInv'
<1>0. Shape /\ FitInv
    BY DEF CompletionInv
<1>1. Prompt(w) \in Prompts /\ Chain[provider[w]] \in ProviderKinds
    BY <1>0, PromptFacts
\* What a step has to show of its own worker and of the cache.
<1>2. ASSUME \A v \in Workers \ {w} :
                /\ pc'[v] = pc[v] /\ job'[v] = job[v] /\ raw'[v] = raw[v]
                /\ answer'[v] = answer[v] /\ result'[v] = result[v],
             result'[w] \in {None} \union Results,
             result' = [result EXCEPT ![w] = result'[w]],
             pc'[w] \in {"keep", "parse"} =>
                answer'[w] \in Answers /\ answer'[w].to = Prompt(w)',
             pc'[w] = "done" =>
                /\ result'[w].to = Prompt(w)'
                /\ job'[w].agent \in {"decision", "contrarian", "verification"}
                    => result'[w].about = job'[w].candidate,
             \A k \in DOMAIN cache' : cache'[k] \in Answers /\ cache'[k].to = k.prompt
      PROVE  FitInv'
    <2>1. \A v \in Workers :
            /\ pc'[v] \in {"keep", "parse"} =>
                answer'[v] \in Answers /\ answer'[v].to = Prompt(v)'
            /\ pc'[v] = "done" =>
                /\ result'[v].to = Prompt(v)'
                /\ job'[v].agent \in {"decision", "contrarian", "verification"}
                    => result'[v].about = job'[v].candidate
        BY <1>0, <1>2, OthersStay
    <2>2. result' \in [Workers -> {None} \union Results]
        BY <1>0, <1>2 DEF FitInv
    <2> QED
        BY <1>2, <2>1, <2>2 DEF FitInv, ResultsFitTheirJob
<1>3. CASE Lookup(w)
    <2>1. Prompt(w)' = Prompt(w)
        BY <1>3, PromptStays DEF Lookup
    <2>2. Key(w) \in DOMAIN cache =>
            cache[Key(w)] \in Answers /\ cache[Key(w)].to = Prompt(w)
        BY <1>0 DEF FitInv, Key
    <2> QED
        BY <1>0, <1>2, <1>3, <2>1, <2>2 DEF Lookup, Shape, FitInv
<1>4. CASE LookupFails(w)
    BY <1>0, <1>2, <1>4 DEF LookupFails, Raise, Shape, FitInv
<1>5. CASE ProviderAnswers(w)
    <2>1. Prompt(w)' = Prompt(w)
        BY <1>5, PromptStays DEF ProviderAnswers
    <2>2. answer'[w] \in Answers /\ answer'[w].to = Prompt(w)
        BY <1>0, <1>1, <1>5, AnswersFit DEF ProviderAnswers, Shape
    <2> QED
        BY <1>0, <1>2, <1>5, <2>1, <2>2 DEF ProviderAnswers, Shape, FitInv
<1>6. CASE ProviderFails(w)
    <2>1. FallBack(w) /\ UNCHANGED <<job, raw, answer, result, cache>>
        BY <1>6 DEF ProviderFails
    <2> QED
        BY <1>0, <1>2, <2>1, FallBackFacts DEF Shape, FitInv
<1>7. CASE Keep(w)
    <2>1. Prompt(w)' = Prompt(w)
        BY <1>7, PromptStays DEF Keep
    <2>2. answer[w] \in Answers /\ answer[w].to = Prompt(w)
        BY <1>0, <1>7 DEF Keep, FitInv
    <2>3. \A k \in DOMAIN cache' : cache'[k] \in Answers /\ cache'[k].to = k.prompt
        BY <1>0, <1>7, <2>2 DEF Keep, FitInv, Key
    <2> QED
        BY <1>0, <1>2, <1>7, <2>1, <2>2, <2>3 DEF Keep, Shape, FitInv
<1>8. CASE KeepFails(w)
    <2>1. FallBack(w) /\ UNCHANGED <<job, raw, result, cache>>
          /\ answer' = [answer EXCEPT ![w] = None]
        BY <1>8 DEF KeepFails
    <2> QED
        BY <1>0, <1>2, <2>1, FallBackFacts DEF Shape, FitInv
<1>9. CASE Accept(w)
    <2>1. Prompt(w)' = Prompt(w)
        BY <1>9, PromptStays DEF Accept
    <2>2. answer[w] \in Answers /\ answer[w].to = Prompt(w)
        BY <1>0, <1>9 DEF Accept, FitInv
    <2>3. /\ Returned(w, answer[w]) \in Results
          /\ Returned(w, answer[w]).to = Prompt(w)
          /\ job[w].agent \in {"decision", "contrarian", "verification"} =>
                Returned(w, answer[w]).about = job[w].candidate
        BY <1>0, <2>2, AgentFacts DEF Returned, Answers, Results, Shape
    <2> QED
        BY <1>0, <1>2, <1>9, <2>1, <2>3 DEF Accept, Shape, FitInv
<1>10. CASE Repair(w)
    <2>1. /\ pc'[w] \in {"lookup", "failed"}
          /\ \A v \in Workers \ {w} : pc'[v] = pc[v] /\ raw'[v] = raw[v] /\ answer'[v] = answer[v]
          /\ UNCHANGED <<job, result, cache>>
        BY <1>0, <1>10 DEF Repair, RepairWhile, Raise, Shape
    <2> QED
        BY <1>0, <1>2, <2>1 DEF Shape, FitInv
<1> QED
    BY <1>3, <1>4, <1>5, <1>6, <1>7, <1>8, <1>9, <1>10 DEF Step, AtCache

-----------------------------------------------------------------------------
\* The invariant holds of every worker, whatever the others do to the cache.
LEMMA CompletionInvariant == Spec => []CompletionInv
<1>1. Init => CompletionInv
    BY InitHolds
<1>2. CompletionInv /\ [Next]_vars => CompletionInv'
    <2> SUFFICES ASSUME CompletionInv, [Next]_vars PROVE CompletionInv'
        OBVIOUS
    <2>0. Shape /\ FitInv
        BY DEF CompletionInv
    <2>1. ASSUME NEW w \in Workers, Step(w) PROVE CompletionInv'
        BY <2>1, StepKeepsShape, StepKeepsFit DEF CompletionInv
    <2>2. ASSUME NEW w \in Workers, NEW a \in Asked, NEW c \in Candidates, Start(w, a, c)
          PROVE  CompletionInv'
        <3>1. Agents[a].rounds \in 1 .. 10
            BY AskedAssumption, AgentFacts DEF AgentType
        <3>2. 1 \in 1 .. Len(Chain) /\ MaxCompletions \in Nat
            BY CompletionAssumption
        <3>3. started[w] + 1 \in 0 .. MaxCompletions
            BY <2>0, <2>2, <3>2 DEF Start, Shape
        <3>4. /\ pc' = [pc EXCEPT ![w] = "lookup"] /\ result' = [result EXCEPT ![w] = None]
              /\ job' = [job EXCEPT ![w] = [agent |-> a, candidate |-> c]]
              /\ round' = [round EXCEPT ![w] = 1] /\ raw' = [raw EXCEPT ![w] = None]
              /\ provider' = [provider EXCEPT ![w] = 1]
              /\ answer' = [answer EXCEPT ![w] = None] /\ reason' = [reason EXCEPT ![w] = None]
              /\ asked' = [asked EXCEPT ![w] = FALSE]
              /\ started' = [started EXCEPT ![w] = @ + 1]
              /\ cacheKind' = cacheKind
            BY <2>2 DEF Start
        <3>5. \A v \in Workers : round'[v] <= Agents[job'[v].agent].rounds
            <4>1. round'[w] = 1 /\ job'[w].agent = a
                BY <2>0, <3>4 DEF Shape
            <4>2. round'[w] <= Agents[job'[w].agent].rounds
                BY <3>1, <4>1
            <4>3. ASSUME NEW v \in Workers \ {w}
                  PROVE  round'[v] <= Agents[job'[v].agent].rounds
                <5>1. round'[v] = round[v] /\ job'[v] = job[v]
                    BY <2>0, <3>4 DEF Shape
                <5> QED
                    BY <2>0, <5>1 DEF Shape
            <4> QED
                BY <4>2, <4>3
        <3>6. \A v \in Workers : pc'[v] = "done" <=> result'[v] # None
            BY <2>0, <3>4 DEF Shape, FitInv
        <3>7. Shape'
            BY <2>0, <3>2, <3>3, <3>4, <3>5, <3>6 DEF Shape, Pcs
        <3>8. \A v \in Workers \ {w} : Prompt(v)' = Prompt(v)
            BY <2>0, <2>2, PromptStays DEF Start, Shape
        <3>9. FitInv'
            BY <2>0, <2>2, <3>8 DEF Start, Shape, FitInv, ResultsFitTheirJob
        <3> QED
            BY <3>7, <3>9 DEF CompletionInv
    <2>3. ASSUME NEW k \in DOMAIN cache, Expire(k) PROVE CompletionInv'
        <3>1. \A w \in Workers : Prompt(w)' = Prompt(w)
            BY <2>3, PromptStays DEF Expire
        <3>2. \A l \in DOMAIN cache' : cache'[l] \in Answers /\ cache'[l].to = l.prompt
            BY <2>0, <2>3 DEF Expire, Restrict, FitInv
        <3>3. Shape'
            BY <2>0, <2>3 DEF Expire, Shape
        <3>4. FitInv'
            BY <2>0, <2>3, <3>1, <3>2 DEF Expire, FitInv, ResultsFitTheirJob
        <3> QED
            BY <3>3, <3>4 DEF CompletionInv
    <2>4. CASE UNCHANGED vars
        BY <2>0, <2>4 DEF vars, CompletionInv, Shape, FitInv, ResultsFitTheirJob, Prompt
    <2> QED
        BY <2>1, <2>2, <2>3, <2>4 DEF Next
<1> QED
    BY <1>1, <1>2, PTL DEF Spec

\* The state of completions, gateway and cache is well typed.
THEOREM CompletionTyping == Spec => []TypeOK
<1>1. CompletionInv => TypeOK
    <2> SUFFICES ASSUME CompletionInv PROVE TypeOK
        OBVIOUS
    <2>1. Shape /\ FitInv
        BY DEF CompletionInv
    <2>2. \A w \in Workers : round[w] \in 1 .. Agents[job[w].agent].rounds
        <3> SUFFICES ASSUME NEW w \in Workers
                     PROVE  round[w] \in 1 .. Agents[job[w].agent].rounds
            OBVIOUS
        <3>1. Agents[job[w].agent].rounds \in 1 .. 10 /\ round[w] \in 1 .. 10
            BY <2>1, PromptFacts DEF AgentType, Shape
        <3> QED
            BY <2>1, <3>1 DEF Shape
    <2> QED
        BY <2>1, <2>2 DEF TypeOK, Shape, FitInv
<1> QED
    BY <1>1, CompletionInvariant, PTL

\* What an agent returns is the answer to its own prompt, about its own
\* candidate, however many workers share the cache and whatever it forgets.
THEOREM FitTheorem == Spec => []ResultsFitTheirJob
<1>1. CompletionInv => ResultsFitTheirJob
    BY DEF CompletionInv, FitInv
<1> QED
    BY <1>1, CompletionInvariant, PTL
=============================================================================
