------------------------------- MODULE Goals --------------------------------
(***************************************************************************)
(* An athlete's goals, the progress he records, and the coach he lets in.  *)
(*   src/src/modules/goals/goals.service.ts                                *)
(* The goals of the model belong to one athlete: every check of the code   *)
(* is made among the goals of one user.                                    *)
(***************************************************************************)
EXTENDS Naturals, Sequences, FiniteSets

CONSTANTS
    GoalIds, Titles, Mentors,
    Amounts,        \* values and targets; 0 is a target that is not set
    MaxGoals,       \* GOALS_CONFIG.MAX_GOALS_PER_USER
    MaxEntries,     \* GOALS_CONFIG.MAX_PROGRESS_ENTRIES_PER_GOAL
    GoalCalls,      \* API calls that may be in flight at one time
    NoGoal,
    Unsaid          \* a value that is left out

ASSUME AmountsAreNat == Amounts \subseteq Nat /\ 0 \in Amounts
ASSUME LimitsAreNat == MaxGoals \in Nat /\ MaxEntries \in Nat
ASSUME NoGoalIsNoKey == NoGoal \notin GoalIds \cup Titles \cup Mentors
ASSUME UnsaidIsNoAmount == Unsaid \notin Amounts

VARIABLES
    goals,      \* the athlete's goals, those that exist
    entries,    \* goal_progress, in the order the rows were made
    goalNotes,  \* goal_notes: who wrote to which goal
    work,       \* the calls in flight
    beside      \* history: goals (NoGoal: the list) at which two calls met, and
                \* goals whose percentage fell behind: the target was changed, or
                \* a call that records progress failed; neither made good by
                \* progress recorded since then by a call that began alone

goalVars == <<goals, entries, goalNotes, work, beside>>

Goal == [title : Titles, target : Amounts, percent : 0..100, mentor : Mentors \cup {NoGoal}]

Work == [pc : {"idle", "goal_make", "goal_update", "entry_make", "entry_latest", "entry_percent",
               "note_make"},
         goal   : GoalIds \cup {NoGoal},
         title  : Titles \cup {NoGoal},
         target : Amounts,
         value  : Amounts \cup {Unsaid},
         mentor : Mentors \cup {NoGoal}]

NoWork == [pc |-> "idle", goal |-> NoGoal, title |-> NoGoal, target |-> 0, value |-> 0,
           mentor |-> NoGoal]

Existing == DOMAIN goals

GoalInit ==
    /\ goals = << >>
    /\ entries = [g \in GoalIds |-> << >>]
    /\ goalNotes = {}
    /\ work = [x \in GoalCalls |-> NoWork]
    /\ beside = [met |-> {}, behind |-> {}]

WorkAt(x, pc) == work[x].pc = pc
WorkEnds(x) == work' = [work EXCEPT ![x] = NoWork]
Busy(g) == {x \in GoalCalls : work[x].pc # "idle" /\ work[x].goal = g}

\* The goals at which two calls have met, now that one begins at g.
Meets(g) == IF Busy(g) # {} THEN beside.met \cup {g} ELSE beside.met

-----------------------------------------------------------------------------
(* createGoal: the limit and the title are looked up before the row is made;*)
(* updateGoal looks for the title among the other goals.                   *)

TitleFree(title, but) == \A g \in Existing \ {but} : goals[g].title # title

CreateGoal(x, title, target) ==
    /\ WorkAt(x, "idle")
    /\ Cardinality(Existing) < MaxGoals
    /\ TitleFree(title, NoGoal)
    /\ work' = [work EXCEPT ![x] = [NoWork EXCEPT !.pc = "goal_make", !.title = title,
                                                  !.target = target]]
    /\ beside' = [beside EXCEPT !.met = IF \E y \in GoalCalls : work[y].title # NoGoal
                                        THEN @ \cup {NoGoal} ELSE @]
    /\ UNCHANGED <<goals, entries, goalNotes>>

GoalMake(x) ==
    /\ WorkAt(x, "goal_make")
    /\ \E g \in GoalIds \ Existing :
          goals' = [h \in Existing \cup {g} |->
                       IF h = g THEN [title |-> work[x].title, target |-> work[x].target,
                                      percent |-> 0, mentor |-> NoGoal]
                       ELSE goals[h]]
    /\ WorkEnds(x)
    /\ UNCHANGED <<entries, goalNotes, beside>>

\* What is not given is written back as it was read, the title too; a target
\* that is not given is left alone (Unsaid).
UpdateGoal(x, g, title, target) ==
    /\ WorkAt(x, "idle")
    /\ g \in Existing
    /\ TitleFree(title, g)
    /\ work' = [work EXCEPT ![x] = [NoWork EXCEPT !.pc = "goal_update", !.goal = g,
                                                  !.title = title, !.value = target]]
    /\ beside' = [beside EXCEPT !.met = IF \E y \in GoalCalls : work[y].title # NoGoal
                                        THEN Meets(g) \cup {NoGoal} ELSE Meets(g)]
    /\ UNCHANGED <<goals, entries, goalNotes>>

GoalUpdate(x) ==
    /\ WorkAt(x, "goal_update")
    /\ LET g == work[x].goal
           target == IF work[x].value = Unsaid THEN goals[g].target ELSE work[x].value
       IN  /\ goals' = [goals EXCEPT ![g].title = work[x].title, ![g].target = target]
           /\ beside' = IF target # goals[g].target
                        THEN [beside EXCEPT !.behind = @ \cup {g}] ELSE beside
    /\ WorkEnds(x)
    /\ UNCHANGED <<entries, goalNotes>>

-----------------------------------------------------------------------------
(* addProgress: the entry is made, the most recent one is read again, and  *)
(* the percentage is computed with the target the call began with.         *)

Min100(n) == IF n > 100 THEN 100 ELSE n

\* Mutant: progress past the target is not cut off.
PercentUncut(value, target) == (100 * value) \div target

\* The code divides in floating point, which may fall one short of this.
PercentOf(value, target) == Min100((100 * value) \div target)

AddProgress(x, g, value) ==
    /\ WorkAt(x, "idle")
    /\ g \in Existing
    /\ Len(entries[g]) < MaxEntries
    /\ work' = [work EXCEPT ![x] = [NoWork EXCEPT !.pc = "entry_make", !.goal = g,
                                        !.value = value, !.target = goals[g].target]]
    /\ beside' = IF value # Unsaid /\ Busy(g) = {}
                 THEN [met |-> beside.met \ {g}, behind |-> beside.behind \ {g}]
                 ELSE [beside EXCEPT !.met = Meets(g)]
    /\ UNCHANGED <<goals, entries, goalNotes>>

EntryMake(x) ==
    /\ WorkAt(x, "entry_make")
    /\ entries' = [entries EXCEPT ![work[x].goal] = Append(@, work[x].value)]
    /\ work' = [work EXCEPT ![x].pc = "entry_latest"]
    /\ UNCHANGED <<goals, goalNotes, beside>>

\* Mutant: the earliest entry is taken for the most recent one.
EntryFirst(x) ==
    /\ WorkAt(x, "entry_latest")
    /\ LET first == entries[work[x].goal][1]
       IN  work' = IF first # Unsaid /\ work[x].target > 0
                   THEN [work EXCEPT ![x].pc = "entry_percent", ![x].value = first]
                   ELSE [work EXCEPT ![x] = NoWork]
    /\ UNCHANGED <<goals, entries, goalNotes, beside>>

EntryLatest(x) ==
    /\ WorkAt(x, "entry_latest")
    /\ LET all == entries[work[x].goal]
           last == all[Len(all)]
       IN  work' = IF last # Unsaid /\ work[x].target > 0
                   THEN [work EXCEPT ![x].pc = "entry_percent", ![x].value = last]
                   ELSE [work EXCEPT ![x] = NoWork]
    /\ UNCHANGED <<goals, entries, goalNotes, beside>>

EntryPercent(x) ==
    /\ WorkAt(x, "entry_percent")
    /\ goals' = [goals EXCEPT ![work[x].goal].percent = PercentOf(work[x].value, work[x].target)]
    /\ WorkEnds(x)
    /\ UNCHANGED <<entries, goalNotes, beside>>

\* A query of a call in flight fails, and the call ends there.  addProgress swallows
\* it once the entry is made: the entry stays and the percentage is the old one.
GoalCallFails(x) ==
    /\ ~WorkAt(x, "idle")
    /\ beside' = IF work[x].pc \in {"entry_make", "entry_latest", "entry_percent"}
                 THEN [beside EXCEPT !.behind = @ \cup {work[x].goal}] ELSE beside
    /\ WorkEnds(x)
    /\ UNCHANGED <<goals, entries, goalNotes>>

-----------------------------------------------------------------------------
(* assignCoach, unassignCoach (m = NoGoal), addCoachNote.                  *)

AssignCoach(g, m) ==
    /\ g \in Existing
    /\ goals' = [goals EXCEPT ![g].mentor = m]
    /\ UNCHANGED <<entries, goalNotes, work, beside>>

AddCoachNote(x, g, m) ==
    /\ WorkAt(x, "idle")
    /\ g \in Existing
    /\ goals[g].mentor = m /\ m # NoGoal
    /\ work' = [work EXCEPT ![x] = [NoWork EXCEPT !.pc = "note_make", !.goal = g, !.mentor = m]]
    /\ beside' = [beside EXCEPT !.met = Meets(g)]
    /\ UNCHANGED <<goals, entries, goalNotes>>

NoteRow(x) ==
    /\ WorkAt(x, "note_make")
    /\ goalNotes' = goalNotes \cup {[goal |-> work[x].goal, mentor |-> work[x].mentor]}
    /\ WorkEnds(x)
    /\ UNCHANGED <<goals, entries, beside>>

GoalNext ==
    \/ \E x \in GoalCalls :
          \/ \E t \in Titles, n \in Amounts : CreateGoal(x, t, n)
          \/ \E g \in Existing :
                \/ \E t \in Titles, n \in Amounts \cup {Unsaid} : UpdateGoal(x, g, t, n)
                \/ \E n \in Amounts \cup {Unsaid} : AddProgress(x, g, n)
                \/ \E m \in Mentors : AddCoachNote(x, g, m)
          \/ GoalMake(x) \/ GoalUpdate(x) \/ EntryMake(x) \/ EntryLatest(x) \/ EntryPercent(x)
          \/ NoteRow(x) \/ GoalCallFails(x)
    \/ \E g \in Existing, m \in Mentors \cup {NoGoal} : AssignCoach(g, m)

GoalSpec == GoalInit /\ [][GoalNext]_goalVars

-----------------------------------------------------------------------------
GoalTypeOK ==
    /\ Existing \subseteq GoalIds
    /\ goals \in [Existing -> Goal]
    /\ entries \in [GoalIds -> Seq(Amounts \cup {Unsaid})]
    /\ goalNotes \subseteq [goal : GoalIds, mentor : Mentors]
    /\ work \in [GoalCalls -> Work]
    /\ beside \in [met : SUBSET (GoalIds \cup {NoGoal}), behind : SUBSET GoalIds]

\* The athlete has no more goals than the limit and no two with one title, unless
\* two calls that make or rename goals overlapped.
GoalsWithinLimits ==
    NoGoal \notin beside.met =>
        /\ Cardinality(Existing) <= MaxGoals
        /\ \A g, h \in Existing : goals[g].title = goals[h].title => g = h

\* The latest entry that has a value, if there is one.
LatestSaid(g) ==
    {i \in DOMAIN entries[g] :
        entries[g][i] # Unsaid /\ \A j \in DOMAIN entries[g] : j > i => entries[g][j] = Unsaid}

Agrees(g) == \A i \in LatestSaid(g) :
                 goals[g].target > 0 => goals[g].percent = PercentOf(entries[g][i], goals[g].target)

\* The percentage shown is that of the latest entry that has a value, for the
\* target there is, when no call is at work on the goal, unless two met there, the
\* target was changed after that entry, or addProgress failed on its way; progress
\* recorded later by a call that is alone and gets through makes all of it good.
PercentOfLatest == \A g \in Existing \ (beside.met \cup beside.behind) : Busy(g) = {} => Agrees(g)
=============================================================================
