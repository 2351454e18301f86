------------------------------ MODULE Factors ------------------------------
(***************************************************************************)
(* Deriving the factors an opportunity is scored on (services/factors.py)  *)
(* and dating what is known of it (services/freshness.py).  Time is        *)
(* counted in ticks, Day of them to a day.                                 *)
(*                                                                         *)
(* An opportunity's facts are a record: category, deadline, posted,        *)
(* required and preferred skills, pay_min, pay_max, currency and country;  *)
(* a profile's are skills, want_min, want_max, currency and permits, a     *)
(* sequence of [country, status].  Unknown stands for None; skill names    *)
(* are compared in their normalised form.                                  *)
(***************************************************************************)
EXTENDS Scoring

CONSTANTS Day,             \* ticks in a day
          FreshnessScale   \* a freshness score is in 1/FreshnessScale

ASSUME TimeAssumption == Day \in Nat \ {0} /\ FreshnessScale \in Nat \ {0}

OrElse(v, default) == IF v = Unknown THEN default ELSE v

-----------------------------------------------------------------------------
(* services/factors.py                                                     *)

\* timedelta.days, and past a moment one more than the whole days since.
DaysUntil(moment, now) ==
    IF moment >= now THEN (moment - now) \div Day
    ELSE -(((now - moment) \div Day) + 1)

DaysToDeadline(opp, now) ==
    IF opp.deadline = Unknown THEN Unknown ELSE DaysUntil(opp.deadline, now)

UrgentDays == 7
RelaxedDays == 120

TimeSensitivity(days) ==
    IF days <= UrgentDays THEN DimensionScale
    ELSE IF days >= RelaxedDays THEN 0
    ELSE RoundHalfEven(DimensionScale * (RelaxedDays - days), RelaxedDays - UrgentDays)

FitSaturation == 85  \* hundredths

\* Coverage of the required skills (weight 10) and the preferred ones (4).
SkillFit(opp, profile) ==
    LET weigh(required, preferred) == 10 * Cardinality(required) + 4 * Cardinality(preferred)
        hit == weigh(opp.required \intersect profile.skills, opp.preferred \intersect profile.skills)
        total == weigh(opp.required, opp.preferred)
    IN  IF profile.skills = {} \/ total = 0
        THEN Unknown
        ELSE AtMost(DimensionScale,
                    RoundHalfEven(100 * DimensionScale * hit, FitSaturation * total))

\* The value of `a or b`: a number that is zero counts as absent.
FirstNonZero(a, b) == IF a = Unknown \/ a = 0 THEN b ELSE a

CompensationValue(opp, profile) ==
    LET offered == FirstNonZero(opp.pay_max, opp.pay_min)
        floor == FirstNonZero(profile.want_min, profile.want_max)
        ceiling == FirstNonZero(profile.want_max, profile.want_min)
        comparable ==
            /\ profile.want_min # Unknown \/ profile.want_max # Unknown
            /\ offered # Unknown
            /\ opp.currency = Unknown \/ profile.currency = Unknown
               \/ opp.currency = profile.currency
            /\ floor # Unknown /\ ceiling # Unknown
            /\ floor > 0
    IN  CASE ~comparable -> Unknown
          [] comparable /\ offered >= ceiling -> DimensionScale
          [] comparable /\ offered < ceiling /\ 2 * offered <= floor -> 0
          [] comparable /\ offered < ceiling /\ 2 * offered > floor ->
                RoundHalfEven(DimensionScale * (2 * offered - floor), 2 * ceiling - floor)

\* The first permit for the country decides; TRUE, FALSE or undecided.
WorkAuthorization(opp, profile) ==
    LET here == {i \in DOMAIN profile.permits : profile.permits[i].country = opp.country}
        first == CHOOSE i \in here : \A j \in here : i <= j
    IN  IF opp.country = Unknown \/ here = {} THEN Unknown
        ELSE IF profile.permits[first].status \in {"citizen", "permanent_resident", "work_visa"}
        THEN TRUE
        ELSE IF profile.permits[first].status = "none" THEN FALSE ELSE Unknown

\* What arithmetic over a posting can supply; the rest stays unknown.
Derive(opp, profile, now) ==
    LET days == DaysToDeadline(opp, now)
        derived(d) ==
            CASE d = "time" -> IF days = Unknown THEN Unknown ELSE TimeSensitivity(days)
              [] d = "fit" -> IF profile = Unknown THEN Unknown ELSE SkillFit(opp, profile)
              [] d = "value" -> IF profile = Unknown THEN Unknown
                                ELSE CompensationValue(opp, profile)
              [] d \notin {"time", "fit", "value"} -> Unknown
    IN  [values |-> [d \in Dimensions |-> derived(d)],
         eligible |-> IF profile = Unknown THEN Unknown ELSE WorkAuthorization(opp, profile),
         days |-> days]

-----------------------------------------------------------------------------
(* services/freshness.py                                                   *)

Categories == {"freelance", "consulting", "client", "job", "startup", "competition",
               "speaking", "business", "other", "accelerator", "incubator", "conference",
               "research", "partnership", "grant", "fellowship", "scholarship", "open_source"}

\* DEFAULT_TTL_DAYS
TtlDays(category) ==
    CASE category = "freelance" -> 30
      [] category \in {"consulting", "client"} -> 45
      [] category = "job" -> 60
      [] category \in {"startup", "competition", "speaking", "business", "other"} -> 90
      [] category \in {"accelerator", "incubator", "conference", "research", "partnership"} -> 120
      [] category \in {"grant", "fellowship", "scholarship", "open_source"} -> 180

\* derive_expires_at: what is stored, else the deadline, else a presumption.
DeriveExpiresAt(opp, discovered, explicit) ==
    LET anchor == OrElse(opp.posted, discovered)
    IN  IF explicit # Unknown THEN explicit
        ELSE IF opp.deadline # Unknown THEN opp.deadline
        ELSE IF anchor = Unknown THEN Unknown
        ELSE anchor + TtlDays(opp.category) * Day

HalfLifeDays == 21

\* The curve 0.5 ^ (age / half life), taken at the last half-life passed.
Halved[n \in Nat] == IF n = 0 THEN FreshnessScale ELSE Halved[n - 1] \div 2

Decay(age) == Halved[age \div (HalfLifeDays * Day)]

\* Mutant: an expired row is damped like one about to expire.
AssessExpiredToo(opp, discovered, verified, explicit, now) ==
    LET expires == DeriveExpiresAt(opp, discovered, explicit)
        remaining == IF expires = Unknown THEN Unknown ELSE DaysUntil(expires, now)
        decay == Decay(now - OrElse(verified, discovered))
    IN  [expires |-> expires,
         expired |-> expires # Unknown /\ now > expires,
         score |-> IF remaining # Unknown /\ remaining <= 7
                   THEN (decay * (7 + remaining)) \div 14
                   ELSE decay]

\* assess: nothing once expired; less the longer ago it was verified, and in
\* the last week before expiry.
Assess(opp, discovered, verified, explicit, now) ==
    LET expires == DeriveExpiresAt(opp, discovered, explicit)
        anchor == OrElse(verified, OrElse(discovered, opp.posted))
        decay == IF anchor = Unknown THEN FreshnessScale \div 2
                 ELSE IF now < anchor THEN FreshnessScale ELSE Decay(now - anchor)
        remaining == IF expires = Unknown THEN Unknown ELSE DaysUntil(expires, now)
        expired == expires # Unknown /\ now > expires
    IN  [expires |-> expires,
         expired |-> expired,
         score |-> IF expired THEN 0
                   ELSE IF remaining # Unknown /\ remaining <= 7
                   THEN RoundHalfEven(decay * (7 + remaining), 14)
                   ELSE decay]

=============================================================================
