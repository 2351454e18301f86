---------------------------- MODULE RunLifecycle ----------------------------
(***************************************************************************)
(* What a caller of the API may rely on about the status of one            *)
(* investigation run: who may change the committed agent_runs row, and     *)
(* until when.  Sessions, row locks, event streams and the inside of the   *)
(* worker are left out; InvestigationRun implements this specification.    *)
(***************************************************************************)
CONSTANTS Requests,  \* the cancel requests users send
          NoRow      \* the run has no committed row

VARIABLES status,  \* the committed status
          work,    \* how far the run's work is
          asked    \* the requests that saw the run active and are not answered

lifeVars == <<status, work, asked>>

Active == {"PENDING", "RUNNING"}
Terminal == {"SUCCEEDED", "FAILED", "CANCELLED"}

LifeTypeOK ==
    /\ status \in Active \union Terminal \union {NoRow}
    /\ work \in {"none", "waiting", "started", "over"}
    /\ asked \subseteq Requests

LifeInit ==
    /\ status = NoRow
    /\ work = "none"
    /\ asked = {}

Create ==
    /\ work = "none"
    /\ status' = "PENDING"
    /\ work' = "waiting"
    /\ UNCHANGED asked

\* Work starts, or starts again after a retry: a run that was cancelled
\* meanwhile may or may not show as running again.
Start ==
    /\ work = "waiting"
    /\ work' = "started"
    /\ status' \in {"RUNNING", status}
    /\ UNCHANGED asked

Finish ==
    /\ work = "started"
    /\ work' = "over"
    /\ status' \in Terminal
    /\ UNCHANGED asked

\* Work stops with nothing written: for good, or until a retry.
Abandon ==
    /\ work \in {"waiting", "started"}
    /\ work' \in {"waiting", "over"}
    /\ UNCHANGED <<status, asked>>

Ask(c) ==
    /\ status \in Active
    /\ c \notin asked
    /\ asked' = asked \union {c}
    /\ UNCHANGED <<status, work>>

Apply(c) ==
    /\ c \in asked
    /\ status' = "CANCELLED"
    /\ asked' = asked \ {c}
    /\ UNCHANGED work

\* Requests fail, all of them at once when their process dies (which may be
\* the worker's process too).
Drop ==
    /\ \E gone \in SUBSET asked : asked' = asked \ gone
    /\ work' \in {work, IF work = "none" THEN "none" ELSE "over"}
    /\ UNCHANGED status

LifeNext ==
    \/ Create \/ Start \/ Finish \/ Abandon \/ Drop
    \/ \E c \in Requests : Ask(c) \/ Apply(c)

LifeSpec == LifeInit /\ [][LifeNext]_lifeVars

\* Once the work is over and every cancel request is answered, the status a
\* caller reads is final: nothing the system still does can change it.
SettledIsFinal ==
    [][work = "over" /\ asked = {} => status' = status]_lifeVars
=============================================================================
