----------------------------- MODULE Completion -----------------------------
(***************************************************************************)
(* How an agent gets a typed answer from a language model: the prompt it   *)
(* renders, structured_complete's rounds of validation and repair, and the *)
(* gateway under them with its answer cache and its chain of providers.    *)
(* Workers (investigations, extraction requests) share the cache when it   *)
(* is the one in Redis.                                                    *)
(***************************************************************************)
EXTENDS Integers, Sequences, FiniteSets, Functions

CONSTANTS
    Workers,        \* who asks; each has one completion under way at most
    Candidates,     \* the opportunities, or postings, agents are asked about
    Text,           \* what a prompt shows of each: [Candidates -> texts]
    Asked,          \* the agents the instance runs, a subset of DOMAIN Agents
    Chain,          \* the kinds of the providers, in the order of the chain
    CacheKinds,     \* the caches the instance has, of "none", "memory" and "redis"
    MaxIterations,  \* settings.agents.max_iterations
    MaxCompletions, \* bound: how many completions a worker starts
    Nobody,         \* an id the model invents
    None            \* no answer, no reason, no previous output

ProviderKinds == {"fake", "ollama", "vllm", "cloud"}

ASSUME CompletionAssumption ==
    /\ Candidates # {}
    /\ Nobody \notin Candidates
    /\ Chain \in Seq(ProviderKinds) /\ Chain # <<>>
    /\ CacheKinds \subseteq {"none", "memory", "redis"}
    /\ MaxIterations \in 1 .. 10
    /\ MaxCompletions \in Nat

-----------------------------------------------------------------------------
(* The agents: the model tier they ask for, how many rounds they give it,
   whether its schema has the model write whom the answer is about, and
   whether the agent writes that itself. *)

Agent(task, rounds, written, own) ==
    [task |-> task, rounds |-> rounds, written |-> written, own |-> own]

Understand == Agent("reasoning", MaxIterations, FALSE, FALSE)
Plan == Agent("reasoning", 3, FALSE, FALSE)
Research == Agent("reasoning", 3, FALSE, FALSE)
Qualification == Agent("standard", 3, FALSE, FALSE)
Matching == Agent("standard", 3, FALSE, FALSE)
Risk == Agent("standard", 3, FALSE, FALSE)
Decision == Agent("reasoning", 3, FALSE, TRUE)
\* An agent that takes the answer as the model wrote it.
ContrarianVerbatim == Agent("reasoning", 3, TRUE, FALSE)

Contrarian == Agent("reasoning", 3, TRUE, TRUE)
Verification == Agent("reasoning", 3, TRUE, TRUE)
Extraction == Agent("extract", 3, FALSE, FALSE)

Agents ==
    [understand |-> Understand, plan |-> Plan, research |-> Research,
     qualification |-> Qualification, matching |-> Matching, risk |-> Risk,
     decision |-> Decision, contrarian |-> Contrarian, verification |-> Verification,
     extraction |-> Extraction]

ASSUME AskedAssumption == Asked # {} /\ Asked \subseteq DOMAIN Agents /\ DOMAIN Text = Candidates

-----------------------------------------------------------------------------
VARIABLES
    pc,         \* where each worker's completion is
    job,        \* the agent that asks and the candidate it asks about
    round,      \* structured_complete's attempt
    raw,        \* the output the prompt asks to repair, None in the first round
    provider,   \* the provider of the chain the gateway is at
    answer,     \* the response in hand
    result,     \* what the agent returned, None if it raised
    reason,     \* why it raised
    asked,      \* whether this completion has asked a model
    started,    \* how many completions each worker has started
    cache,      \* the answers kept, by prompt
    cacheKind   \* the cache the deployment has

vars == <<pc, job, round, raw, provider, answer, result, reason, asked, started, cache, cacheKind>>

\* The outputs that fail: no JSON, and JSON that the schema refuses.
Flaws == {"unparsable", "unfit"}

\* A prompt names its agent (template and marker), shows the candidate's
\* text and, in a repair, the output that failed with its error.
Prompts == [agent : Asked, text : Range(Text), repairs : {None} \union Flaws]

Prompt(w) == [agent |-> job[w].agent, text |-> Text[job[w].candidate], repairs |-> raw[w]]

\* An answer to a prompt: what is wrong with it, None if it is valid for the
\* schema, and whom it is about, where the schema asks.
Answers == [to : Prompts, flaw : {None} \union Flaws, about : Candidates \union {Nobody}]

\* What an agent makes of one: the prompt it answers and whom it is about.
Results == [to : Prompts, about : Candidates \union {Nobody}]

ASSUME NoneAssumption == None \notin Results \union Flaws

Answer(p, flaw, about) == [to |-> p, flaw |-> flaw, about |-> about]

Invalid(p) == {Answer(p, flaw, Nobody) : flaw \in Flaws}
Valid(p) ==
    {Answer(p, None, about) :
        about \in IF Agents[p.agent].written THEN Candidates \union {Nobody} ELSE {Nobody}}

Pcs == {"idle", "lookup", "ask", "keep", "parse", "done", "failed"}

TypeOK ==
    /\ pc \in [Workers -> Pcs]
    /\ job \in [Workers -> [agent : Asked, candidate : Candidates]]
    /\ \A w \in Workers : round[w] \in 1 .. Agents[job[w].agent].rounds
    /\ raw \in [Workers -> {None} \union Flaws]
    /\ provider \in [Workers -> 1 .. Len(Chain)]
    /\ \A w \in Workers : answer[w] # None => answer[w] \in Answers
    /\ \A w \in Workers : pc[w] = "done" <=> result[w] # None
    /\ reason \in [Workers -> {None, "cache", "unavailable", "invalid"}]
    /\ asked \in [Workers -> BOOLEAN] /\ started \in [Workers -> 0 .. MaxCompletions]
    /\ \A k \in DOMAIN cache : cache[k] \in Answers
    /\ cacheKind \in CacheKinds

-----------------------------------------------------------------------------
(* The providers. *)

\* FakeLLMProvider: the canned answer of the agent whose marker the prompt has,
\* with an id of its own (texts that hold another agent's marker are left out).
FakeAnswers(p) == {Answer(p, None, Nobody)}

\* Ollama and the hosted API write what they like; vLLM is held to the schema
\* in extraction, which it learns from the task and not from the caller, but
\* may answer nothing or be cut short.
OllamaAnswers(p) == Valid(p) \union Invalid(p)
CloudAnswers(p) == Valid(p) \union Invalid(p)
VllmAnswers(p) ==
    {a \in Valid(p) \union Invalid(p) : Agents[p.agent].task = "extract" => a.flaw # "unfit"}

AnswersOf(kind, p) ==
    CASE kind = "fake" -> FakeAnswers(p)
      [] kind = "ollama" -> OllamaAnswers(p)
      [] kind = "vllm" -> VllmAnswers(p)
      [] kind = "cloud" -> CloudAnswers(p)

\* A request fails when its three tries have.
CanFail(kind) == kind # "fake"

-----------------------------------------------------------------------------
(* The gateway. *)

Cached == cacheKind # "none"

\* A key that leaves out what the prompt shows.
KeyOfAgent(w) ==
    [owner |-> IF cacheKind = "memory" THEN w ELSE None,
     prompt |-> [Prompt(w) EXCEPT !.text = CHOOSE t \in Range(Text) : TRUE]]

\* _cache_key: tier and model follow from the agent; a memory cache belongs to
\* the provider object of one worker
Key(w) == [owner |-> IF cacheKind = "memory" THEN w ELSE None, prompt |-> Prompt(w)]

Raise(w, why) ==
    /\ pc' = [pc EXCEPT ![w] = "failed"]
    /\ reason' = [reason EXCEPT ![w] = why]

Lookup(w) ==
    /\ pc[w] = "lookup"
    /\ IF Cached /\ Key(w) \in DOMAIN cache
       THEN /\ answer' = [answer EXCEPT ![w] = cache[Key(w)]]
            /\ pc' = [pc EXCEPT ![w] = "parse"]
       ELSE /\ pc' = [pc EXCEPT ![w] = "ask"]
            /\ UNCHANGED answer
    /\ UNCHANGED <<job, round, raw, provider, result, reason, asked, started, cache, cacheKind>>

\* The cache cannot be read: nothing catches it, no provider is asked.
LookupFails(w) ==
    /\ pc[w] = "lookup" /\ cacheKind = "redis"
    /\ Raise(w, "cache")
    /\ UNCHANGED <<job, round, raw, provider, answer, result, asked, started, cache, cacheKind>>

\* The provider answers.
ProviderAnswers(w) ==
    /\ pc[w] = "ask"
    /\ \E a \in AnswersOf(Chain[provider[w]], Prompt(w)) :
        answer' = [answer EXCEPT ![w] = a]
    /\ asked' = [asked EXCEPT ![w] = TRUE]
    /\ IF Cached
       THEN pc' = [pc EXCEPT ![w] = "keep"] /\ UNCHANGED provider
       ELSE pc' = [pc EXCEPT ![w] = "parse"] /\ provider' = [provider EXCEPT ![w] = 1]
    /\ UNCHANGED <<job, round, raw, result, reason, started, cache, cacheKind>>

\* On to the next provider, or out.
FallBack(w) ==
    IF provider[w] < Len(Chain)
    THEN /\ provider' = [provider EXCEPT ![w] = @ + 1]
         /\ pc' = [pc EXCEPT ![w] = "ask"]
         /\ UNCHANGED reason
    ELSE Raise(w, "unavailable") /\ provider' = [provider EXCEPT ![w] = 1]

ProviderFails(w) ==
    /\ pc[w] = "ask" /\ CanFail(Chain[provider[w]])
    /\ asked' = [asked EXCEPT ![w] = TRUE]
    /\ FallBack(w)
    /\ UNCHANGED <<job, round, raw, answer, result, started, cache, cacheKind>>

Keep(w) ==
    /\ pc[w] = "keep"
    /\ cache' = [k \in DOMAIN cache \union {Key(w)} |-> IF k = Key(w) THEN answer[w] ELSE cache[k]]
    /\ pc' = [pc EXCEPT ![w] = "parse"]
    /\ provider' = [provider EXCEPT ![w] = 1]
    /\ UNCHANGED <<job, round, raw, answer, result, reason, asked, started, cacheKind>>

\* An answer that cannot be kept counts as the failure of who gave it.
KeepFails(w) ==
    /\ pc[w] = "keep" /\ cacheKind = "redis"
    /\ FallBack(w)
    /\ answer' = [answer EXCEPT ![w] = None]
    /\ UNCHANGED <<job, round, raw, result, asked, started, cache, cacheKind>>

\* The entry's time to live is over; the memory cache has none.
Expire(k) ==
    /\ cacheKind = "redis" /\ k \in DOMAIN cache
    /\ cache' = Restrict(cache, DOMAIN cache \ {k})
    /\ UNCHANGED <<pc, job, round, raw, provider, answer, result, reason, asked, started,
                   cacheKind>>

-----------------------------------------------------------------------------
(* The agents and structured_complete. *)

Start(w, agent, candidate) ==
    /\ pc[w] \in {"idle", "done", "failed"} /\ started[w] < MaxCompletions
    /\ pc' = [pc EXCEPT ![w] = "lookup"]
    /\ job' = [job EXCEPT ![w] = [agent |-> agent, candidate |-> candidate]]
    /\ round' = [round EXCEPT ![w] = 1]
    /\ raw' = [raw EXCEPT ![w] = None]
    /\ provider' = [provider EXCEPT ![w] = 1]
    /\ answer' = [answer EXCEPT ![w] = None]
    /\ result' = [result EXCEPT ![w] = None]
    /\ reason' = [reason EXCEPT ![w] = None]
    /\ asked' = [asked EXCEPT ![w] = FALSE]
    /\ started' = [started EXCEPT ![w] = @ + 1]
    /\ UNCHANGED <<cache, cacheKind>>

\* What the agent makes of a valid answer.
Returned(w, a) ==
    [to |-> a.to, about |-> IF Agents[job[w].agent].own THEN job[w].candidate ELSE a.about]

Accept(w) ==
    /\ pc[w] = "parse" /\ answer[w].flaw = None
    /\ result' = [result EXCEPT ![w] = Returned(w, answer[w])]
    /\ pc' = [pc EXCEPT ![w] = "done"]
    /\ answer' = [answer EXCEPT ![w] = None]
    /\ UNCHANGED <<job, round, raw, provider, reason, asked, started, cache, cacheKind>>

\* A repair that loses count of its rounds.
RepairForever(w) ==
    /\ pc[w] = "parse" /\ answer[w].flaw # None
    /\ raw' = [raw EXCEPT ![w] = answer[w].flaw]
    /\ pc' = [pc EXCEPT ![w] = "lookup"]
    /\ answer' = [answer EXCEPT ![w] = None]
    /\ UNCHANGED <<job, round, provider, result, reason, asked, started, cache, cacheKind>>

\* Ask again with the output and its error, or give up.
RepairWhile(w, more) ==
    /\ pc[w] = "parse" /\ answer[w].flaw # None
    /\ IF more
       THEN /\ round' = [round EXCEPT ![w] = @ + 1]
            /\ raw' = [raw EXCEPT ![w] = answer[w].flaw]
            /\ pc' = [pc EXCEPT ![w] = "lookup"]
            /\ UNCHANGED reason
       ELSE Raise(w, "invalid") /\ UNCHANGED <<round, raw>>
    /\ answer' = [answer EXCEPT ![w] = None]
    /\ UNCHANGED <<job, provider, result, asked, started, cache, cacheKind>>

\* One round too many.
RepairOnceMore(w) == RepairWhile(w, round[w] <= Agents[job[w].agent].rounds)

Repair(w) == RepairWhile(w, round[w] < Agents[job[w].agent].rounds)

-----------------------------------------------------------------------------
Init ==
    /\ pc = [w \in Workers |-> "idle"]
    /\ job \in [Workers -> {[agent |-> CHOOSE a \in Asked : TRUE,
                             candidate |-> CHOOSE c \in Candidates : TRUE]}]
    /\ round = [w \in Workers |-> 1] /\ raw = [w \in Workers |-> None]
    /\ provider = [w \in Workers |-> 1]
    /\ answer = [w \in Workers |-> None] /\ result = [w \in Workers |-> None]
    /\ reason = [w \in Workers |-> None]
    /\ asked = [w \in Workers |-> FALSE] /\ started = [w \in Workers |-> 0]
    /\ cache = [k \in {} |-> None] /\ cacheKind \in CacheKinds

AtCache(w) == Lookup(w) \/ LookupFails(w) \/ Keep(w) \/ KeepFails(w)

Step(w) ==
    \/ AtCache(w)
    \/ ProviderAnswers(w) \/ ProviderFails(w)
    \/ Accept(w) \/ Repair(w)

Next ==
    \/ \E w \in Workers : Step(w)
    \/ \E w \in Workers, a \in Asked, c \in Candidates : Start(w, a, c)
    \/ \E k \in DOMAIN cache : Expire(k)

Spec == Init /\ [][Next]_vars

\* The event loop runs every coroutine, and a request to a provider has a
\* timeout.  One to Redis has none.
Fairness ==
    \A w \in Workers :
        /\ WF_vars(Step(w) /\ pc[w] \in {"ask", "parse"})
        /\ WF_vars(AtCache(w) /\ cacheKind # "redis")

FairSpec == Spec /\ Fairness

-----------------------------------------------------------------------------
(* Properties. *)

\* What an agent returns answers the very prompt it rendered for its candidate,
\* repairs included, whoever filled the cache; and where later stages look the
\* result up by its opportunity, that is the payload's and never the model's.
ResultsFitTheirJob ==
    \A w \in Workers : pc[w] = "done" =>
        /\ result[w].to = Prompt(w)
        /\ job[w].agent \in {"decision", "contrarian", "verification"}
            => result[w].about = job[w].candidate

\* Every completion ends, in an answer or an error, however the cache and the
\* providers fail and whatever they answer, unless Redis keeps it waiting for
\* ever for an entry or for its being kept.
CompletionsEnd ==
    \A w \in Workers :
        \/ []<>(pc[w] \in {"idle", "done", "failed"})
        \/ <>[](cacheKind = "redis" /\ pc[w] \in {"lookup", "keep"})

\* "validate, repair, retry, fallback" (agents/llm/structured.py): a completion
\* that gives up on the model's output has asked a model for it.
GivesUpOnAModel ==
    \A w \in Workers : pc[w] = "failed" /\ reason[w] = "invalid" => asked[w]
=============================================================================
