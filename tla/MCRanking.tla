----------------------------- MODULE MCRanking -----------------------------
(* Instances of Ranking for TLC. *)
EXTENDS Ranking, TLC

CONSTANTS python, sql

MCFacts == <<
    \* an open position with a deadline, paying within the user's range
    [category |-> "fellowship", deadline |-> 200, posted |-> Unknown, discovered |-> 0,
     verified |-> 0, required |-> {python, sql}, preferred |-> {}, pay_max |-> 180,
     pay_min |-> 0, currency |-> "EUR", country |-> "DE"],
    \* a job without deadline or pay, presumed closed sixty days after posting
    [category |-> "job", deadline |-> Unknown, posted |-> 0, discovered |-> 0,
     verified |-> 0, required |-> {python}, preferred |-> {sql}, pay_max |-> Unknown,
     pay_min |-> Unknown, currency |-> Unknown, country |-> "US"]>>

MCPerson ==
    [skills |-> {python}, want_min |-> 100, want_max |-> 200, currency |-> "EUR",
     permits |-> <<[country |-> "DE", status |-> "citizen"]>>]

\* Only what is derived counts, and it counts in full.
Sure ==
    [d \in Dimensions |-> IF d \in {"fit", "value"} THEN 50 ELSE IF d = "time" THEN 1 ELSE 0]

MCGoalSettings ==
    {[profile |-> "income", override |-> NoOverride],
     [profile |-> "income", override |-> Sure],
     [profile |-> "income", override |-> [Sure EXCEPT !["value"] = 0]],
     [profile |-> "career", override |-> [salary |-> 1]]}

MCSymmetry == Permutations(Sessions)

MCCreated == <<2, 1>>

MCSelections == {Opps}

MCFilters ==
    {[goal |-> "g1", min_score |-> Unknown, deadline_before |-> Unknown,
      include_expired |-> FALSE]}
=============================================================================
