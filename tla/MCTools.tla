------------------------------ MODULE MCTools ------------------------------
(* Instances of Tools for TLC. *)
EXTENDS Tools

\* One call's arguments: what a tool does not read is left at the default.
Call == [valid |-> TRUE, opp |-> None, goal |-> None, to |-> None, fetch |-> FALSE, text |-> FALSE]

OfOpp == {[Call EXCEPT !.opp = o] : o \in Opps}

MCArguments ==
    [n \in Names |->
        CASE n \in {"search_web", "research_company"} ->
                {[Call EXCEPT !.fetch = f] : f \in BOOLEAN}
          [] n = "extract_deadline" -> OfOpp \union {[Call EXCEPT !.text = t] : t \in BOOLEAN}
          [] n = "calculate_opportunity_score" ->
                {[c EXCEPT !.goal = g] : c \in OfOpp, g \in Goals}
          [] n = "update_opportunity_status" ->
                {[c EXCEPT !.to = "QUALIFIED"] : c \in OfOpp}
          [] n \in {"search_opportunities", "search_user_profile", "search_user_documents",
                    "get_previous_opportunities"} -> {Call, [Call EXCEPT !.valid = FALSE]}
          [] n \in {"get_company_information", "check_eligibility", "create_follow_up",
                    "prepare_application", "generate_outreach", "save_opportunity"} -> OfOpp
          [] n \notin Registered -> {Call}]

MCMaxCalls == [n \in Names |-> IF n = "search_web" THEN 2 ELSE 1]

\* The registered tools ask for no retry; the contract allows up to five.
MCMaxRetries == [n \in Names |-> IF n = "search_web" THEN 1 ELSE 0]

MCRateLimit == [n \in Names |-> 1]
=============================================================================
