---------------------------- MODULE LearningSignals ----------------------------
(***************************************************************************)
(* The learning loop (src/lib/aiops/learning and the end of                *)
(* src/lib/aiops/evals/eval-suite-runner.ts): feedback, recommendation     *)
(* outcomes and eval runs are recorded, and what repeats or fails raises a *)
(* signal unless one is open for it, which reviewers then take through its *)
(* life.  A record, its look-back, its look for an open signal and the     *)
(* insert are separate store operations.                                   *)
(***************************************************************************)
EXTENDS Naturals, FiniteSets, Sequences, SequencesExt

CONSTANTS
    Recorders,          \* calls that record something
    Reviewers,          \* calls that move a signal
    Recordings,         \* what they record: recorder -> [source, component, severe]
    NoSignal

VARIABLES
    observed,           \* what each recorder records
    learningRows,       \* rows of humanFeedback, recommendationOutcomes and evalRuns, by recorder
    recorder,           \* where each recorder stands
    signals,            \* db.learningSignals, in insertion order
    reviewer,           \* each reviewer's progress and what it does
    cases,              \* the signals that review cases were opened for
    raced               \* signals raised while another recorder was about to raise the same

learningVars == <<observed, learningRows, recorder, signals, reviewer, cases, raced>>

Repeating == {"extraction_correction", "answer_rating", "outcome"}

\* The type of the signal a record raises: a response eval and a rating share one, so do
\* an extraction eval and a correction, and every other eval and a citation issue.
SignalType(source) ==
    CASE source \in {"extraction_correction", "extraction_eval"} -> "extraction_gap"
      [] source \in {"answer_rating", "response_eval"} -> "prompt_gap"
      [] source = "retrieval_eval" -> "retrieval_gap"
      [] source = "outcome" -> "ranking_signal"
      [] OTHER -> "policy_gap"

Key(o) == [type |-> SignalType(o.source), component |-> o.component]

\* What counts as a repetition of o: corrections and overrides of the same object type,
\* but low ratings of any subject.
Alike(o, p) ==
    /\ p.source = o.source /\ p.severe
    /\ o.source # "answer_rating" => p.component = o.component

RepeatThreshold == 2

\* Mutated: more than the threshold.
RepeatedMore(o, rows) ==
    Cardinality({i \in DOMAIN rows : Alike(o, observed[rows[i]])}) > RepeatThreshold

Repeated(o, rows) ==
    Cardinality({i \in DOMAIN rows : Alike(o, observed[rows[i]])}) >= RepeatThreshold

LearningInit ==
    /\ observed \in Recordings
    /\ learningRows = << >>
    /\ recorder = [r \in Recorders |-> "start"]
    /\ signals = << >>
    /\ reviewer = [v \in Reviewers |-> [at |-> "start", signal |-> NoSignal, verdict |-> NoSignal]]
    /\ cases = << >>
    /\ raced = {}

-----------------------------------------------------------------------------
Stands(r, s) == recorder' = [recorder EXCEPT ![r] = s]

\* recordFeedback, recordRecommendationOutcome and createEvalRun insert the row. A good
\* rating, an accepted recommendation and a good score go no further.
Record(r) ==
    LET o == observed[r] IN
    /\ recorder[r] = "start"
    /\ learningRows' = Append(learningRows, r)
    /\ Stands(r, IF ~o.severe THEN "returned" ELSE IF o.source \in Repeating THEN "recorded" ELSE "looking")
    /\ UNCHANGED <<observed, signals, reviewer, cases, raced>>

\* generateFromFeedback and generateFromRecommendationOverrides count what was recorded.
LookBack(r) ==
    /\ recorder[r] = "recorded"
    /\ Stands(r, IF Repeated(observed[r], learningRows) THEN "looking" ELSE "returned")
    /\ UNCHANGED <<observed, learningRows, signals, reviewer, cases, raced>>

IsOpen(s, key) == s.key = key /\ s.status = "open"

FindOpenSignal(r) ==
    LET open == \E i \in DOMAIN signals : IsOpen(signals[i], Key(observed[r])) IN
    /\ recorder[r] = "looking"
    /\ Stands(r, IF open THEN "returned" ELSE "raising")
    /\ UNCHANGED <<observed, learningRows, signals, reviewer, cases, raced>>

CreateLearningSignal(r) ==
    LET rivals == {q \in Recorders \ {r} : recorder[q] = "raising" /\ Key(observed[q]) = Key(observed[r])} IN
    /\ recorder[r] = "raising"
    /\ signals' = Append(signals, [key |-> Key(observed[r]), status |-> "open", raisedBy |-> r])
    /\ raced' = IF rivals = {} THEN raced ELSE raced \cup {Len(signals) + 1}
    /\ Stands(r, "returned")
    /\ UNCHANGED <<observed, learningRows, reviewer, cases>>

\* The process stops, or an audit or a store call throws, after the row was written.
RecorderCutOff(r) ==
    /\ recorder[r] \in {"recorded", "looking", "raising"}
    /\ Stands(r, "cut")
    /\ UNCHANGED <<observed, learningRows, signals, reviewer, cases, raced>>

-----------------------------------------------------------------------------
\* A reviewer moves a signal, whatever its status; accepting may open a review case first.
LoadSignal(v) ==
    /\ reviewer[v].at = "start"
    /\ \E s \in DOMAIN signals, verdict \in {"reviewed", "accepted", "rejected", "implemented"} :
         \E withCase \in {FALSE, verdict = "accepted"} :
           reviewer' = [reviewer EXCEPT ![v] = [at |-> IF withCase THEN "opening" ELSE "deciding",
                                                signal |-> s, verdict |-> verdict]]
    /\ UNCHANGED <<observed, learningRows, recorder, signals, cases, raced>>

OpenReviewCase(v) ==
    /\ reviewer[v].at = "opening"
    /\ cases' = Append(cases, reviewer[v].signal)
    /\ reviewer' = [reviewer EXCEPT ![v].at = "deciding"]
    /\ UNCHANGED <<observed, learningRows, recorder, signals, raced>>

SettleSignal(v) ==
    /\ reviewer[v].at = "deciding"
    /\ signals' = [signals EXCEPT ![reviewer[v].signal].status = reviewer[v].verdict]
    /\ reviewer' = [reviewer EXCEPT ![v].at = "returned"]
    /\ UNCHANGED <<observed, learningRows, recorder, cases, raced>>

LearningNext ==
    \/ \E r \in Recorders :
         Record(r) \/ LookBack(r) \/ FindOpenSignal(r) \/ CreateLearningSignal(r) \/ RecorderCutOff(r)
    \/ \E v \in Reviewers : LoadSignal(v) \/ OpenReviewCase(v) \/ SettleSignal(v)

LearningSpec == LearningInit /\ [][LearningNext]_learningVars

-----------------------------------------------------------------------------
LearningTypeOK ==
    /\ learningRows \in Seq(Recorders)
    /\ recorder \in [Recorders -> {"start", "recorded", "looking", "raising", "returned", "cut"}]
    /\ \A s \in DOMAIN signals : signals[s].status \in {"open", "reviewed", "accepted", "rejected", "implemented"}
    /\ \A v \in Reviewers : reviewer[v].at \in {"start", "opening", "deciding", "returned"}
    /\ ToSet(cases) \cup raced \subseteq DOMAIN signals

\* The rows there were when r wrote its own, with it.
UpTo(r) == SubSeq(learningRows, 1, CHOOSE i \in DOMAIN learningRows : learningRows[i] = r)

Reportable(o, rows) ==
    /\ o.severe
    /\ o.source \in Repeating =>
         \E i, k \in DOMAIN rows : i # k /\ Alike(o, observed[rows[i]]) /\ Alike(o, observed[rows[k]])

\* However recorders and reviewers overlap: no recorder returns without a signal for what
\* its record made reportable, raised by it or another, whatever became of it since; no
\* signal is raised for what is not; and two signals for one thing are open only if their
\* recorders both looked before either raised (generateFromFeedback and findOpenSignal,
\* learning-signal-generator.ts:51).
SignalsFollowRecords ==
    /\ \A r \in Recorders : recorder[r] = "returned" /\ Reportable(observed[r], UpTo(r)) =>
         \E s \in DOMAIN signals : signals[s].key = Key(observed[r])
    /\ \A s \in DOMAIN signals : Reportable(observed[signals[s].raisedBy], learningRows)
    /\ \A s, t \in DOMAIN signals :
         /\ s # t /\ IsOpen(signals[s], signals[t].key) /\ IsOpen(signals[t], signals[s].key)
         => {s, t} \cap raced # {}

=============================================================================
