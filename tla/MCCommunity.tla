----------------------------- MODULE MCCommunity ----------------------------
(***************************************************************************)
(* Messaging, Goals, Badges, Reviews and Pages for TLC.  They share no     *)
(* state, nor do the three parts of Messaging, so in each behaviour one of *)
(* them runs and the others rest: the states add up, not multiply.         *)
(***************************************************************************)
EXTENDS Messaging, Goals, Badges, Reviews, Pages, TLC

\* The criteria: a goal and a session within a day and a half, or two sessions
\* at all (half a day is no window), or two points.
SomeGoal == [type |-> "exists", field |-> "goals", value |-> 0, halves |-> 0, conditions |-> << >>]
Counted(f, n, h) == [type |-> "count", field |-> f, value |-> n, halves |-> h, conditions |-> << >>]
Joined(t, cs) == [type |-> t, field |-> "", value |-> 0, halves |-> 0, conditions |-> cs]
Recent == Counted("completed_booking_days", 1, 3)
Twice == Counted("completed_bookings", 2, 1)
Rich == Counted("earned_badge_points", 2, 0)
Busily == Joined("all", <<SomeGoal, Recent>>)
Either == Joined("any", <<Busily, Twice, Rich>>)
MCCriteria == {SomeGoal, Recent, Twice, Rich, Busily, Either}
MCRoots == {Either, Recent, Rich}

\* Bounds: progress is recorded while there is one goal and nobody mentors it;
\* once two calls have met at the list of goals, it holds one at most.
GoalBound ==
    /\ \/ \A h \in GoalIds : entries[h] = << >>
       \/ Cardinality(Existing) <= 1 /\ goalNotes = {} /\ \A h \in Existing : goals[h].mentor = NoGoal
    /\ NoGoal \notin beside.met \/ Cardinality(Existing) <= 1

VARIABLE runs

MCInit == /\ runs \in {"presence", "threads", "notes", "goals", "badges", "reviews", "pages"}
          /\ ChatInit /\ GoalInit /\ BadgeInit /\ ReviewInit /\ PageInit
          /\ runs # "pages" => list = (CHOOSE l \in Lists : TRUE)

\* Only r runs.
Rests(r, vs) == IF runs \in r THEN TRUE ELSE UNCHANGED vs

Only(r) == /\ runs = r /\ UNCHANGED runs
           /\ Rests({"presence", "threads", "notes"}, chatVars)
           /\ Rests({"goals"}, goalVars)   /\ Rests({"badges"}, badgeVars)
           /\ Rests({"reviews"}, reviewVars) /\ Rests({"pages"}, pageVars)

MCNext ==
    \/ runs = "presence" /\ PresenceNext /\ Only("presence")
    \/ runs = "threads"  /\ ThreadNext   /\ Only("threads")
    \/ runs = "notes"    /\ NoteNext     /\ Only("notes")
    \/ runs = "goals"    /\ GoalNext     /\ Only("goals") /\ GoalBound'
    \/ runs = "badges"   /\ BadgeNext    /\ Only("badges")
    \/ runs = "reviews"  /\ ReviewNext   /\ Only("reviews")
    \/ runs = "pages"    /\ PageNext     /\ Only("pages")

MCSpec == MCInit /\ [][MCNext]_<<chatVars, goalVars, badgeVars, reviewVars, pageVars, runs>>

\* Sets of different components are turned together: while one component runs
\* the others are in states that every permutation leaves alone.
Turn(S, b) == CHOOSE f \in Permutations(S) : \A x \in S : f[x] # x <=> b
MCSymmetry == {Turn(People, i) @@ Turn(GoalIds, i) @@ Turn(BadgeIds, i) @@ Turn(Bookings, i)
                  @@ Turn(Chats, j) @@ Turn(GoalCalls, j) @@ Turn(BadgeCalls, j) @@ Turn(Writers, j)
                  @@ Turn(Threads, k) @@ Turn(Prefs, k) @@ Turn(Titles, k) @@ Turn(Jobs, k) :
                  i, j, k \in BOOLEAN}

CommunityTypeOK == ChatTypeOK /\ GoalTypeOK /\ BadgeTypeOK /\ ReviewTypeOK /\ PageTypeOK

\* What must be there once is there once, unless two calls that make it overlapped:
\* the pair's conversation, a goal of one title and goals up to the limit, the award
\* of a badge (also against the admin's deletion of the badge), the review of a
\* booking.  The code looks first and creates later, without a unique constraint.
MadeOnce == OneConversationPerPair /\ GoalsWithinLimits /\ AwardsKept /\ OneReviewPerBooking

\* The figures shown follow the rows they are computed from: the percentage of a
\* goal its latest progress, the progress of a badge its eligibility, the rating
\* of a coach his reviews.
FiguresFollow == PercentOfLatest /\ PercentTellsEligible /\ RatingFollowsReviews

\* A client is shown what there is: all rows of a list he reads page by page, all
\* messages of a conversation he follows.
ShowsEverything == PagesMissNothing /\ RoomMissesNothing
=============================================================================
