------------------------------ MODULE Reviews -------------------------------
(***************************************************************************)
(* Reviews of one coach and the rating his profile shows.                  *)
(*   src/src/modules/reviews/reviews.service.ts                            *)
(* A review is written for a completed booking, once; the average and the  *)
(* count on the profile are computed afresh from the rows after each one.  *)
(***************************************************************************)
EXTENDS Naturals, Sequences, FiniteSets, FiniteSetsExt

CONSTANTS
    Bookings,       \* bookings with the coach, each of one athlete
    Ratings,        \* 0: a review without a rating
    Writers,        \* calls that may be in flight at one time
    NoBooking,
    WritesFail      \* may the best-effort update of the profile fail?

ASSUME BookingsAreFinite == IsFiniteSet(Bookings)
ASSUME RatingsAreNat == Ratings \subseteq Nat /\ Ratings # {}
ASSUME NoBookingIsNoKey == NoBooking \notin Bookings
ASSUME WritesFailSwitch == WritesFail \in BOOLEAN

VARIABLES
    jobs,       \* Booking.status, as far as reviews ask
    reviews,    \* coach_reviews: the ratings of each booking's rows
    profile,    \* CoachProfile.avg_rating, kept as the sum, and rating_count
    writer,     \* the calls in flight
    drift       \* history: bookings ever completed; bookings at which two reviews
                \* met; did calls meet, or an update fail, since the last call
                \* that was alone?

reviewVars == <<jobs, reviews, profile, writer, drift>>

Writer == [pc : {"idle", "make", "aggregate", "update"}, booking : Bookings \cup {NoBooking},
           rating : Ratings, sum : Nat, count : Nat]

NoWriter(r) == [pc |-> "idle", booking |-> NoBooking, rating |-> r, sum |-> 0, count |-> 0]
Unrated == CHOOSE r \in Ratings : TRUE

ReviewInit ==
    /\ jobs = [b \in Bookings |-> "open"]
    /\ reviews = [b \in Bookings |-> << >>]
    /\ profile = [sum |-> 0, count |-> 0]
    /\ writer = [x \in Writers |-> NoWriter(Unrated)]
    /\ drift = [done |-> {}, met |-> {}, stale |-> FALSE]

WriterAt(x, pc) == writer[x].pc = pc
WriterEnds(x) == writer' = [writer EXCEPT ![x] = NoWriter(Unrated)]
Writing == {x \in Writers : writer[x].pc # "idle"}

\* The rows that carry a rating; the sum of them, over one booking and over all,
\* and their number.
Rated(rows) == {i \in DOMAIN rows : rows[i] > 0}
RowsSum(rows) == MapThenSumSet(LAMBDA i : rows[i], Rated(rows))
RatedSum(all) == MapThenSumSet(LAMBDA b : RowsSum(all[b]), Bookings)
RatedCount(all) == MapThenSumSet(LAMBDA b : Cardinality(Rated(all[b])), Bookings)

-----------------------------------------------------------------------------
(* createReview: the booking and its review are looked up, the row is made,*)
(* the rows are aggregated, the profile is written.                        *)

\* Mutant: a booking that has a review may be reviewed again.
CreateReviewAgain(x, b, r) ==
    /\ WriterAt(x, "idle")
    /\ jobs[b] = "COMPLETED"
    /\ Len(reviews[b]) < 2
    /\ writer' = [writer EXCEPT ![x] = [NoWriter(r) EXCEPT !.pc = "make", !.booking = b]]
    /\ drift' = [drift EXCEPT
           !.met = @ \cup {c \in {b} : \E y \in Writing : writer[y].booking = b},
           !.stale = Writing # {}]
    /\ UNCHANGED <<jobs, reviews, profile>>

CreateReview(x, b, r) ==
    /\ WriterAt(x, "idle")
    /\ jobs[b] = "COMPLETED"
    /\ reviews[b] = << >>
    /\ writer' = [writer EXCEPT ![x] = [NoWriter(r) EXCEPT !.pc = "make", !.booking = b]]
    /\ drift' = [drift EXCEPT
           !.met = @ \cup {c \in {b} : \E y \in Writing : writer[y].booking = b},
           !.stale = Writing # {}]
    /\ UNCHANGED <<jobs, reviews, profile>>

MakeReview(x) ==
    /\ WriterAt(x, "make")
    /\ reviews' = [reviews EXCEPT ![writer[x].booking] = Append(@, writer[x].rating)]
    /\ writer' = [writer EXCEPT ![x].pc = "aggregate"]
    /\ UNCHANGED <<jobs, profile, drift>>

\* Mutant: rows without a rating are counted.
AggregateAll(x) ==
    /\ WriterAt(x, "aggregate")
    /\ writer' = [writer EXCEPT ![x].pc = "update", ![x].sum = RatedSum(reviews),
                      ![x].count = MapThenSumSet(LAMBDA b : Len(reviews[b]), Bookings)]
    /\ UNCHANGED <<jobs, reviews, profile, drift>>

Aggregate(x) ==
    /\ WriterAt(x, "aggregate")
    /\ writer' = [writer EXCEPT ![x].pc = "update", ![x].sum = RatedSum(reviews),
                                      ![x].count = RatedCount(reviews)]
    /\ UNCHANGED <<jobs, reviews, profile, drift>>

UpdateRating(x) ==
    /\ WriterAt(x, "update")
    /\ \/ /\ profile' = [sum |-> writer[x].sum, count |-> writer[x].count]
          /\ UNCHANGED drift
       \/ /\ WritesFail
          /\ drift' = [drift EXCEPT !.stale = TRUE]
          /\ UNCHANGED profile
    /\ WriterEnds(x)
    /\ UNCHANGED <<jobs, reviews>>

-----------------------------------------------------------------------------
(* Around it: a booking is completed, and an administrator, the coach's    *)
(* edit or a payment event writes another status over it; an athlete's     *)
(* account is deleted and his bookings and reviews with it, by the         *)
(* schema's cascade.                                                       *)

JobDone(b) ==
    /\ jobs[b] = "open"
    /\ jobs' = [jobs EXCEPT ![b] = "COMPLETED"]
    /\ drift' = [drift EXCEPT !.done = @ \cup {b}]
    /\ UNCHANGED <<reviews, profile, writer>>

JobReopened(b) ==
    /\ jobs[b] = "COMPLETED"
    /\ jobs' = [jobs EXCEPT ![b] = "open"]
    /\ UNCHANGED <<reviews, profile, writer, drift>>

AthleteRemoved(b) ==
    /\ jobs[b] # "gone"
    /\ \A x \in Writers : writer[x].booking # b
    /\ jobs' = [jobs EXCEPT ![b] = "gone"]
    /\ reviews' = [reviews EXCEPT ![b] = << >>]
    /\ drift' = [drift EXCEPT !.stale = @ \/ reviews[b] # << >>]
    /\ UNCHANGED <<profile, writer>>

ReviewNext ==
    \/ \E x \in Writers :
          \/ \E b \in Bookings, r \in Ratings : CreateReview(x, b, r)
          \/ MakeReview(x) \/ Aggregate(x) \/ UpdateRating(x)
    \/ \E b \in Bookings : JobDone(b) \/ JobReopened(b) \/ AthleteRemoved(b)

ReviewSpec == ReviewInit /\ [][ReviewNext]_reviewVars

-----------------------------------------------------------------------------
ReviewTypeOK ==
    /\ jobs \in [Bookings -> {"open", "COMPLETED", "gone"}]
    /\ reviews \in [Bookings -> Seq(Ratings)]
    /\ profile \in [sum : Nat, count : Nat]
    /\ writer \in [Writers -> Writer]
    /\ drift \in [done : SUBSET Bookings, met : SUBSET Bookings, stale : BOOLEAN]

\* A booking is reviewed only when it was completed before, whatever status it is
\* given afterwards; and once, even if it was completed a second time, unless two
\* reviews of it were in flight together.
OneReviewPerBooking ==
    \A b \in Bookings :
        /\ Len(reviews[b]) > 0 => b \in drift.done
        /\ b \notin drift.met => Len(reviews[b]) <= 1

\* When no review is in flight the profile shows the rating of the rows there are,
\* unless since the last review that was written alone two of them met, the update
\* failed, or rows were deleted with an account; whatever went wrong before that
\* review, it makes good.
RatingFollowsReviews ==
    Writing = {} /\ ~drift.stale =>
        profile = [sum |-> RatedSum(reviews), count |-> RatedCount(reviews)]
=============================================================================
