------------------------------ MODULE Experiment ------------------------------
(***************************************************************************)
(* An experiment node: candidates are generated, prototyped, evaluated and *)
(* ranked, a human judges the survivors, and the answer advances one,      *)
(* kills the experiment, starts another iteration or asks for evidence.    *)
(* The record is saved at the end of every step; the node may be driven    *)
(* again from it after a crash or by a loop of the graph.                  *)
(***************************************************************************)
EXTENDS Naturals, Sequences, FiniteSets

CONSTANTS
    candidateCount, survivorCount, maxIterations,   \* the definition
    hasPrototype, hasWallClock,
    Scores, advanceThreshold,                       \* the rubric
    MaxEntries          \* bound: times the node is entered, crashes and answers included

VARIABLES
    record,     \* the saved record, and the judgments saved for it
    stepper     \* the node: its phase, its satisfaction, the package it asked about

experimentVars == <<record, stepper>>

NoJudgment == [decision |-> "none", of |-> 0]
NoRecord == [status |-> "none", iteration |-> 1, candidates |-> <<>>, conclusion |-> "none",
             passes |-> {}, judgments |-> 0]

ExperimentInit ==
    /\ record = NoRecord
    /\ stepper = [pc |-> "enter", satisfaction |-> NoJudgment, judgment |-> NoJudgment,
                  asked |-> {}, entries |-> 1, status |-> "none"]

--------------------------------------------------------------------------------
(* Candidates: their place in the record is their identity.                     *)

Ids == 1..Len(record.candidates)
candidatesOf(status) ==
    {c \in Ids : record.candidates[c].iteration = record.iteration /\ record.candidates[c].status = status}
undecided == candidatesOf("generated") \cup candidatesOf("prototyped")
rankedSurvivors == candidatesOf("evaluated")
Better(c, d) == record.candidates[c].score > record.candidates[d].score

marked(chosen, status) ==
    [c \in Ids |-> IF c \in chosen THEN [record.candidates[c] EXCEPT !.status = status]
                   ELSE record.candidates[c]]

Stepping == stepper.pc = "step"
atRest == Stepping /\ stepper.judgment = NoJudgment
Continues == stepper' = [stepper EXCEPT !.judgment = NoJudgment]
AwaitsJudgment(survivors) ==
    stepper' = [stepper EXCEPT !.pc = "waiting", !.judgment = NoJudgment, !.asked = survivors]
Settles(status) == stepper' = [stepper EXCEPT !.pc = "settled", !.status = status]
conclude(candidates, conclusion) ==
    record' = [record EXCEPT !.status = "concluded", !.conclusion = conclusion, !.candidates = candidates]

\* An agent that does not complete, or a response that cannot be read: the step
\* throws, nothing of it is saved, and the node fails.
Throws == Settles("failed") /\ UNCHANGED record

--------------------------------------------------------------------------------
(* Phases of a running record                                                   *)

Running == atRest /\ record.status \in {"none", "running"}

WallClockExhausted ==
    /\ Running /\ record.status = "running" /\ hasWallClock
    /\ conclude(record.candidates, "exhausted")
    /\ Settles("succeeded")

generated(n) ==
    [c \in 1..n |-> [iteration |-> record.iteration, status |-> "generated", score |-> 0]]

Generate ==
    /\ Running
    /\ \A c \in Ids : record.candidates[c].iteration # record.iteration
    /\ \/ \E n \in 1..candidateCount :
            /\ record' = [record EXCEPT !.status = "running", !.candidates = @ \o generated(n)]
            /\ Continues
       \/ Throws

\* A failed prototype kills the candidate, never the experiment.
Prototype ==
    /\ Running /\ hasPrototype
    /\ candidatesOf("generated") # {}
    /\ \E failed \in SUBSET candidatesOf("generated") :
         record' = [record EXCEPT !.candidates =
             [c \in Ids |-> IF c \in failed THEN [@[c] EXCEPT !.status = "killed"]
                            ELSE IF c \in candidatesOf("generated") THEN [@[c] EXCEPT !.status = "prototyped"]
                            ELSE @[c]]]
    /\ Continues

\* Scores and kill criteria are the evaluator's; the threshold is the rubric's.
applyEvaluation(candidate, score, killed) ==
    [candidate EXCEPT !.score = score,
                      !.status = IF killed \/ score < advanceThreshold THEN "killed" ELSE "evaluated"]

Evaluate ==
    LET pending == IF candidatesOf("generated") # {} THEN candidatesOf("generated")
                   ELSE candidatesOf("prototyped")
    IN
    /\ Running /\ undecided # {}
    /\ hasPrototype => candidatesOf("generated") = {}
    /\ \/ \E score \in [pending -> Scores], kills \in SUBSET pending :
            /\ record' = [record EXCEPT !.candidates =
                   [c \in Ids |-> IF c \in pending THEN applyEvaluation(@[c], score[c], c \in kills) ELSE @[c]]]
            /\ Continues
       \/ Throws

\* Ties are broken by the identifiers, which are arbitrary.
Select ==
    /\ Running /\ undecided = {} /\ rankedSurvivors # {}
    /\ \E keep \in SUBSET rankedSurvivors :
         /\ Cardinality(keep) = IF Cardinality(rankedSurvivors) < survivorCount
                                THEN Cardinality(rankedSurvivors) ELSE survivorCount
         /\ \A c \in rankedSurvivors \ keep, k \in keep : ~Better(c, k)
         /\ record' = [record EXCEPT !.status = "awaiting-judgment",
                                     !.candidates = marked(rankedSurvivors \ keep, "killed")]
         /\ AwaitsJudgment(keep)

SelectNone ==
    /\ Running /\ undecided = {} /\ rankedSurvivors = {}
    /\ \E c \in Ids : record.candidates[c].iteration = record.iteration
    /\ IF record.iteration < maxIterations
       THEN record' = [record EXCEPT !.iteration = @ + 1] /\ Continues
       ELSE conclude(record.candidates, "exhausted") /\ Settles("succeeded")

--------------------------------------------------------------------------------
(* Judgment                                                                     *)

Judging(decision) ==
    Stepping /\ record.status = "awaiting-judgment" /\ stepper.judgment.decision = decision

judgmentAdvance_Mutated ==      \* the other survivors are left as they are
    /\ Judging("advance")
    /\ IF stepper.judgment.of \in rankedSurvivors
       THEN conclude(marked({stepper.judgment.of}, "advanced"), "advanced") /\ Settles("succeeded")
       ELSE Throws

AwaitJudgment ==
    /\ atRest /\ record.status = "awaiting-judgment"
    /\ AwaitsJudgment(rankedSurvivors)
    /\ UNCHANGED record

judgmentAdvance ==
    /\ Judging("advance")
    /\ IF stepper.judgment.of \in rankedSurvivors
       THEN /\ conclude([marked(rankedSurvivors, "killed") EXCEPT ![stepper.judgment.of].status = "advanced"],
                        "advanced")
            /\ Settles("succeeded")
       ELSE Throws

judgmentKill ==
    /\ Judging("kill")
    /\ conclude(marked(rankedSurvivors, "killed"), "killed")
    /\ Settles("succeeded")

judgmentIterate ==
    /\ Judging("iterate")
    /\ IF record.iteration >= maxIterations
       THEN conclude(record.candidates, "exhausted") /\ Settles("succeeded")
       ELSE record' = [record EXCEPT !.status = "running", !.iteration = @ + 1] /\ Continues

\* One extra evaluator pass per iteration; the new scores are not held against
\* the threshold or the kill criteria.
judgmentMoreEvidence ==
    /\ Judging("need-more-evidence")
    /\ IF record.iteration \in record.passes
       THEN AwaitsJudgment(rankedSurvivors) /\ UNCHANGED record
       ELSE \/ \E score \in [rankedSurvivors -> Scores] :
                 /\ record' = [record EXCEPT !.passes = @ \cup {record.iteration}, !.candidates =
                        [c \in Ids |-> IF c \in rankedSurvivors THEN [@[c] EXCEPT !.score = score[c]] ELSE @[c]]]
                 /\ AwaitsJudgment(rankedSurvivors)
            \/ Throws

\* Of a concluded record a step returns the conclusion again.
ConcludedResult ==
    /\ Stepping /\ record.status = "concluded"
    /\ Settles("succeeded") /\ UNCHANGED record

\* A judgment that reaches a running record is dropped.
JudgmentIgnored ==
    /\ Stepping /\ record.status = "running" /\ stepper.judgment # NoJudgment
    /\ Continues /\ UNCHANGED record

--------------------------------------------------------------------------------
(* The node and its surroundings                                                *)

\* The judgment is saved before the step it is for.
Enter ==
    /\ stepper.pc = "enter"
    /\ IF stepper.satisfaction # NoJudgment /\ record.status # "none"
       THEN /\ record' = [record EXCEPT !.judgments = @ + 1]
            /\ stepper' = [stepper EXCEPT !.pc = "step", !.judgment = stepper.satisfaction]
       ELSE stepper' = [stepper EXCEPT !.pc = "step"] /\ UNCHANGED record

judgmentChoices ==
    {[decision |-> "advance", of |-> c] : c \in stepper.asked} \cup
    {[decision |-> d, of |-> 0] : d \in {"kill", "iterate", "need-more-evidence"}}

again(satisfaction) ==
    [stepper EXCEPT !.pc = "enter", !.satisfaction = satisfaction, !.judgment = NoJudgment,
                    !.entries = @ + 1, !.status = "none"]

Answer ==
    /\ stepper.pc = "waiting" /\ stepper.entries < MaxEntries
    /\ \E choice \in judgmentChoices : stepper' = again(choice)
    /\ UNCHANGED record

\* The process dies before the coordinator has stored what came of the node: under
\* way in it, or after the record was saved and the node has yielded or settled, but
\* not yet the row of its wait or the state of its graph. Recovery (reconcileWaitingRun)
\* activates the node with the satisfaction it was resumed with, so that an old judgment
\* may meet a new question.
CrashInNode ==
    /\ stepper.entries < MaxEntries
    /\ stepper' = again(stepper.satisfaction)
    /\ UNCHANGED record

\* A retry, or a loop of the graph, enters the settled node anew.
EnterAgain ==
    /\ stepper.pc = "settled" /\ stepper.entries < MaxEntries
    /\ stepper' = again(NoJudgment)
    /\ UNCHANGED record

StepperNext ==
    \/ Enter \/ WallClockExhausted \/ Generate \/ Prototype \/ Evaluate \/ Select \/ SelectNone
    \/ AwaitJudgment \/ judgmentAdvance \/ judgmentKill \/ judgmentIterate \/ judgmentMoreEvidence
    \/ ConcludedResult \/ JudgmentIgnored

ExperimentNext == StepperNext \/ Answer \/ CrashInNode \/ EnterAgain

ExperimentSpec == ExperimentInit /\ [][ExperimentNext]_experimentVars

\* The stepper's promises are resolved by the event loop: it goes on while it can.
ExperimentFairness == WF_experimentVars(StepperNext)

--------------------------------------------------------------------------------
(* Properties                                                                   *)

advanced == {c \in Ids : record.candidates[c].status = "advanced"}

\* What a human advanced is one survivor of the last iteration, the one that was
\* asked about and chosen; its rivals are dead, and it has a score below the
\* rubric's threshold only if evidence was gathered anew after the selection.
AdvanceIsEarned ==
    /\ (record.conclusion = "advanced") <=> (advanced # {})
    /\ record.iteration <= maxIterations
    /\ \A c \in advanced :
         /\ advanced = {c}
         /\ c \in stepper.asked /\ record.judgments > 0
         /\ record.candidates[c].iteration = record.iteration
         /\ rankedSurvivors = {}
         /\ record.candidates[c].score < advanceThreshold => record.iteration \in record.passes

\* The loop of the stepper ends: it concludes, waits for a judgment or fails.
StepperSettles == []<>(stepper.pc \in {"waiting", "settled"})
===============================================================================
