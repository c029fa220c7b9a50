------------------------------- MODULE Badges -------------------------------
(***************************************************************************)
(* Badges: criteria written by the admin, evaluated over what an athlete   *)
(* has done, claimed by him.                                               *)
(*   src/src/modules/badges/badges.service.ts                              *)
(*   src/src/modules/admin/badge-management/badge-management.service.ts    *)
(* One athlete; what he has done comes from bookings and goals.  Icons and *)
(* the unique key are left out; days are counted in halves, because a      *)
(* criterion may give a fraction of a day.                                 *)
(***************************************************************************)
EXTENDS Integers, Sequences, FiniteSets, FiniteSetsExt

CONSTANTS
    BadgeIds,
    Criteria,       \* the criteria of the model and their parts, as records;
                    \* `type` is "all" or "any" where there are conditions
    Roots,          \* the criteria an admin gives to a badge
    Points,
    Jobs,           \* bookings of the athlete
    MaxAge,         \* bound: days after which the age of a booking is not told
    MaxGoalCount,   \* bound on the goals counted
    BadgeCalls,     \* API calls that may be in flight at one time
    NoBadge

Fields == {"completed_bookings", "completed_booking_days", "goals", "earned_badge_points",
           "earned_badges"}

\* What the admin's criteria are checked for; and no criterion is a part of itself.
ASSUME CriteriaAreValid ==
    /\ Roots \subseteq Criteria
    /\ \A c \in Criteria :
          IF c.conditions = << >>
          THEN c.field \in Fields /\ c.halves \in Nat /\ (c.type # "exists" => c.value \in Nat \ {0})
          ELSE c.type \in {"all", "any"} /\ c.conditions \in Seq(Criteria)
ASSUME PartsComeFirst ==
    \A S \in SUBSET Criteria :
        S # {} => \E c \in S : \A i \in DOMAIN c.conditions : c.conditions[i] \notin S
ASSUME BadgeSetsAreFinite == IsFiniteSet(BadgeIds) /\ IsFiniteSet(Jobs) /\ IsFiniteSet(Criteria)
ASSUME BadgeBoundsAreNat == Points \subseteq Nat /\ MaxAge \in Nat /\ MaxGoalCount \in Nat
ASSUME NoBadgeIsNoKey == NoBadge \notin BadgeIds \cup Criteria

VARIABLES
    badges,     \* those that exist: [criteria, points]
    held,       \* user_badges: the athlete's rows of each badge
    done,       \* days since each booking was completed, -1 before it was
    goalCount,
    claims,     \* the calls in flight
    award       \* history: badges the athlete was told he has, badges at which
                \* two calls met

badgeVars == <<badges, held, done, goalCount, claims, award>>

Claim == [pc : {"idle", "stats", "award", "delete"}, badge : BadgeIds \cup {NoBadge},
          criteria : Criteria \cup {NoBadge}]

NoClaim == [pc |-> "idle", badge |-> NoBadge, criteria |-> NoBadge]

BadgeInit ==
    /\ badges = << >>
    /\ held = [b \in BadgeIds |-> 0]
    /\ done = [j \in Jobs |-> -1]
    /\ goalCount = 0
    /\ claims = [x \in BadgeCalls |-> NoClaim]
    /\ award = [told |-> {}, met |-> {}]

-----------------------------------------------------------------------------
(* What is counted (buildBadgeStats, resolveMetricValue) and what is made  *)
(* of it (evaluateLeafCriteria, evaluateCriteria).                         *)

Completed == {j \in Jobs : done[j] >= 0}
Within(days) == {j \in Completed : done[j] <= days}

\* `days` 0: no window was given, or one shorter than a day.
Metric(field, days) ==
    CASE field = "completed_bookings"     -> Cardinality(IF days > 0 THEN Within(days) ELSE Completed)
      [] field = "completed_booking_days" -> IF days > 0 THEN Cardinality({done[j] : j \in Within(days)})
                                             ELSE 0
      [] field = "goals"                  -> goalCount
      [] field = "earned_badge_points"    -> MapThenSumSet(LAMBDA b : held[b] * badges[b].points,
                                                           DOMAIN badges)
      [] field = "earned_badges"          -> MapThenSumSet(LAMBDA b : held[b], DOMAIN badges)

Lesser(a, b) == IF a < b THEN a ELSE b

\* Mutant: a metric past its target is not cut off.
LeafUncut(c) ==
    LET n == Metric(c.field, c.halves \div 2)
        target == IF c.type = "exists" THEN 1 ELSE c.value
    IN  [eligible |-> n >= target, current |-> n, target |-> target,
         percent |-> (n * 100) \div target]

Leaf(c) ==
    LET n == Metric(c.field, c.halves \div 2)
        target == IF c.type = "exists" THEN 1 ELSE c.value
    IN  [eligible |-> n >= target, current |-> Lesser(n, target), target |-> target,
         percent |-> IF c.type = "exists" THEN IF n > 0 THEN 100 ELSE 0
                     ELSE Lesser((n * 100) \div target, 100)]

Combined(c, parts) ==
    LET met == {i \in DOMAIN parts : parts[i].eligible}
        n == Len(parts)
        best == Max({parts[i].percent : i \in DOMAIN parts})
    IN  IF c.type = "any"
        THEN [eligible |-> met # {}, current |-> IF met # {} THEN 1 ELSE 0, target |-> 1,
              percent |-> IF met # {} THEN 100 ELSE best]
        ELSE [eligible |-> Cardinality(met) = n, current |-> Cardinality(met), target |-> n,
              percent |-> (Cardinality(met) * 100) \div n]

Progress ==
    LET P[c \in Criteria] == IF c.conditions = << >> THEN Leaf(c)
                             ELSE Combined(c, [i \in DOMAIN c.conditions |-> P[c.conditions[i]]])
    IN  P

-----------------------------------------------------------------------------
(* The athlete claims: the badge and his row are looked up, what he has    *)
(* done is counted, and the row is made; nothing in the schema keeps a     *)
(* second row of one badge away.                                           *)

ClaimAt(x, pc) == claims[x].pc = pc
ClaimEnds(x) == claims' = [claims EXCEPT ![x] = NoClaim]
At(b) == {x \in BadgeCalls : claims[x].badge = b}
MeetsAt(b) == [award EXCEPT !.met = IF At(b) # {} THEN @ \cup {b} ELSE @]

\* Mutant: the row is not looked up.
ClaimBadgeAgain(x, b) ==
    /\ ClaimAt(x, "idle")
    /\ b \in DOMAIN badges
    /\ badges[b].criteria # NoBadge
    /\ claims' = [claims EXCEPT ![x] = [pc |-> "stats", badge |-> b,
                                        criteria |-> badges[b].criteria]]
    /\ award' = MeetsAt(b)
    /\ UNCHANGED <<badges, held, done, goalCount>>

ClaimBadge(x, b) ==
    /\ ClaimAt(x, "idle")
    /\ b \in DOMAIN badges
    /\ held[b] = 0
    /\ badges[b].criteria # NoBadge
    /\ claims' = [claims EXCEPT ![x] = [pc |-> "stats", badge |-> b,
                                        criteria |-> badges[b].criteria]]
    /\ award' = MeetsAt(b)
    /\ UNCHANGED <<badges, held, done, goalCount>>

ClaimStats(x) ==
    /\ ClaimAt(x, "stats")
    /\ IF Progress[claims[x].criteria].eligible
       THEN claims' = [claims EXCEPT ![x].pc = "award"]
       ELSE ClaimEnds(x)
    /\ UNCHANGED <<badges, held, done, goalCount, award>>

\* The row of a badge that was deleted meanwhile is refused.
ClaimAward(x) ==
    /\ ClaimAt(x, "award")
    /\ LET b == claims[x].badge
       IN  IF b \in DOMAIN badges
           THEN held' = [held EXCEPT ![b] = @ + 1] /\ award' = [award EXCEPT !.told = @ \cup {b}]
           ELSE UNCHANGED <<held, award>>
    /\ ClaimEnds(x)
    /\ UNCHANGED <<badges, done, goalCount>>

-----------------------------------------------------------------------------
(* The admin.  An id is not used again while a call still carries it; an id *)
(* that is used again stands for a new one.                                *)

CreateBadge(b, c, p) ==
    /\ b \notin DOMAIN badges
    /\ At(b) = {}
    /\ badges' = [d \in DOMAIN badges \cup {b} |->
                     IF d = b THEN [criteria |-> c, points |-> p] ELSE badges[d]]
    /\ award' = [told |-> award.told \ {b}, met |-> award.met \ {b}]
    /\ UNCHANGED <<held, done, goalCount, claims>>

UpdateBadge(b, c, p) ==
    /\ b \in DOMAIN badges
    /\ badges' = [badges EXCEPT ![b] = [criteria |-> c, points |-> p]]
    /\ UNCHANGED <<held, done, goalCount, claims, award>>

\* A badge is deleted only when the count of its rows was 0; the rows made
\* since are deleted with it.
DeleteBadge(x, b) ==
    /\ ClaimAt(x, "idle")
    /\ b \in DOMAIN badges
    /\ held[b] = 0
    /\ claims' = [claims EXCEPT ![x] = [NoClaim EXCEPT !.pc = "delete", !.badge = b]]
    /\ award' = MeetsAt(b)
    /\ UNCHANGED <<badges, held, done, goalCount>>

DeleteRow(x) ==
    /\ ClaimAt(x, "delete")
    /\ LET b == claims[x].badge
       IN  /\ badges' = [d \in DOMAIN badges \ {b} |-> badges[d]]
           /\ held' = [held EXCEPT ![b] = 0]
    /\ ClaimEnds(x)
    /\ UNCHANGED <<done, goalCount, award>>

-----------------------------------------------------------------------------
(* What the athlete does, and time.                                        *)

JobCompletes(j) ==
    /\ done[j] = -1
    /\ done' = [done EXCEPT ![j] = 0]
    /\ UNCHANGED <<badges, held, goalCount, claims, award>>

DayEnds ==
    /\ \E j \in Completed : done[j] < MaxAge
    /\ done' = [j \in Jobs |-> IF done[j] \in {-1, MaxAge} THEN done[j] ELSE done[j] + 1]
    /\ UNCHANGED <<badges, held, goalCount, claims, award>>

GoalCounted ==
    /\ goalCount < MaxGoalCount
    /\ goalCount' = goalCount + 1
    /\ UNCHANGED <<badges, held, done, claims, award>>

BadgeNext ==
    \/ \E x \in BadgeCalls :
          \/ \E b \in BadgeIds : ClaimBadge(x, b) \/ DeleteBadge(x, b)
          \/ ClaimStats(x) \/ ClaimAward(x) \/ DeleteRow(x)
    \/ \E b \in BadgeIds, c \in Roots \cup {NoBadge}, p \in Points :
          CreateBadge(b, c, p) \/ UpdateBadge(b, c, p)
    \/ \E j \in Jobs : JobCompletes(j)
    \/ DayEnds
    \/ GoalCounted

BadgeSpec == BadgeInit /\ [][BadgeNext]_badgeVars

-----------------------------------------------------------------------------
BadgeTypeOK ==
    /\ DOMAIN badges \subseteq BadgeIds
    /\ badges \in [DOMAIN badges -> [criteria : Criteria \cup {NoBadge}, points : Points]]
    /\ held \in [BadgeIds -> Nat]
    /\ done \in [Jobs -> -1..MaxAge]
    /\ goalCount \in 0..MaxGoalCount
    /\ claims \in [BadgeCalls -> Claim]
    /\ award \in [told : SUBSET BadgeIds, met : SUBSET BadgeIds]

\* A badge the athlete was told he has is one row and stays one, unless two calls
\* (claims, or a claim and the admin's deletion) met at it.
AwardsKept ==
    \A b \in BadgeIds \ award.met : held[b] = IF b \in award.told THEN 1 ELSE 0

\* The percentage shown for any criteria, however nested, is 100 exactly when the
\* badge can be claimed, and the part done never passes its target.
PercentTellsEligible ==
    \A c \in Criteria :
        LET p == Progress[c]
        IN  /\ p.eligible <=> p.percent = 100
            /\ p.percent \in 0..100 /\ p.current \in 0..p.target
=============================================================================
