-------------------------------- MODULE RunTable --------------------------------
(***************************************************************************)
(* The tables both schedulers share: runs and authoritative claims, and    *)
(* the execution of a run seen from outside.  A run of the graph runtime   *)
(* parks and is resumed; a version 1 run never parks.  The graph runtime   *)
(* gives the claim up before the run is terminal, version 1 after it.      *)
(***************************************************************************)
EXTENDS Naturals, FiniteSets

CONSTANTS Items, RunIds, NoItem

VARIABLES
    runs,       \* durable: the rows, state "none" when there is no row
    claims,     \* durable: item -> the run that holds it, or NoRun
    exec        \* what the process is doing for each run

tableVars == <<runs, claims, exec>>

NoRun == 0
ASSUME TableAssumption == NoItem \notin Items /\ RunIds \subseteq Nat \ {NoRun}

V1 == {"scheduler", "manual"}
Live == {"QUEUED", "PREPARING", "RUNNING", "WAITING"}

TableInit ==
    /\ runs = [r \in RunIds |-> [item |-> NoItem, by |-> "nobody", state |-> "none"]]
    /\ claims = [i \in Items |-> NoRun]
    /\ exec = [r \in RunIds |-> "no"]

isTerminal(r) == runs[r].state \notin Live
unused(r) == runs[r].by = "nobody"
nextId(r) == unused(r) /\ \A q \in RunIds : unused(q) => r <= q

--------------------------------------------------------------------------------
(* Claim, then start.  Scheduled items are unique and never claimed. *)

\* Mutant: the claim is taken from its holder.
tryClaim_Mutated(r, item, by) ==
    /\ nextId(r)
    /\ claims' = [claims EXCEPT ![item] = r]
    /\ runs' = [runs EXCEPT ![r].item = item, ![r].by = by]
    /\ exec' = [exec EXCEPT ![r] = "claimed"]

tryClaim(r, item, by) ==
    /\ nextId(r)
    /\ claims[item] = NoRun
    /\ claims' = [claims EXCEPT ![item] = r]
    /\ runs' = [runs EXCEPT ![r].item = item, ![r].by = by]
    /\ exec' = [exec EXCEPT ![r] = "claimed"]

startUnclaimed(r, by) ==
    /\ nextId(r)
    /\ runs' = [runs EXCEPT ![r].by = by]
    /\ exec' = [exec EXCEPT ![r] = "claimed"]
    /\ UNCHANGED claims

\* The row is saved queued and made preparing at once.
Prepare(r) ==
    /\ exec[r] = "claimed"
    /\ exec' = [exec EXCEPT ![r] = "preparing"]
    /\ runs' = [runs EXCEPT ![r].state = "PREPARING"]
    /\ UNCHANGED claims

BeginWork(r) ==
    /\ exec[r] = "preparing"
    /\ exec' = [exec EXCEPT ![r] = "working"]
    /\ runs' = [runs EXCEPT ![r].state = "RUNNING"]
    /\ UNCHANGED claims

\* Nothing catches an error of the graph runtime before it drives the run:
\* the row and the claim stay as they are.
StartThrows(r) ==
    /\ runs[r].by \notin V1
    /\ exec[r] \in {"claimed", "preparing"}
    /\ exec' = [exec EXCEPT ![r] = "no"]
    /\ UNCHANGED <<runs, claims>>

--------------------------------------------------------------------------------
(* Parking, resuming and ending *)

release(r) ==
    [i \in Items |-> IF claims[i] = r THEN NoRun ELSE claims[i]]

Park(r) ==
    /\ runs[r].by \notin V1
    /\ exec[r] = "working"
    /\ exec' = [exec EXCEPT ![r] = "no"]
    /\ runs' = [runs EXCEPT ![r].state = "WAITING"]
    /\ UNCHANGED claims

Resume(r) ==
    /\ exec[r] = "no"
    /\ runs[r].state = "WAITING"
    /\ exec' = [exec EXCEPT ![r] = "working"]
    /\ runs' = [runs EXCEPT ![r].state = "RUNNING"]
    /\ UNCHANGED claims

CancelWaiting(r) ==
    /\ exec[r] = "no"
    /\ runs[r].state = "WAITING"
    /\ claims' = release(r)
    /\ runs' = [runs EXCEPT ![r].state = "ENDED"]
    /\ UNCHANGED exec

\* The end begins; a version 1 run also ends when preparing it failed.
BeginEnd(r) ==
    /\ \/ exec[r] = "working"
       \/ exec[r] = "preparing" /\ runs[r].by \in V1
    /\ exec' = [exec EXCEPT ![r] = "closing"]
    /\ IF runs[r].by \in V1
       THEN runs' = [runs EXCEPT ![r].state = "ENDED"] /\ UNCHANGED claims
       ELSE claims' = release(r) /\ UNCHANGED runs

FinishEnd(r) ==
    /\ exec[r] = "closing"
    /\ exec' = [exec EXCEPT ![r] = "no"]
    /\ IF runs[r].by \in V1
       THEN claims' = release(r) /\ UNCHANGED runs
       ELSE runs' = [runs EXCEPT ![r].state = "ENDED"] /\ UNCHANGED claims

--------------------------------------------------------------------------------

\* Scheduler.recover: every interrupted run fails and gives its claim up, also
\* one of the graph runtime that only waits; a queued one is passed over.
interrupted == {r \in RunIds : runs[r].state \in Live \ {"QUEUED"}}

recover ==
    /\ runs' = [r \in RunIds |->
                    IF r \in interrupted THEN [runs[r] EXCEPT !.state = "ENDED"] ELSE runs[r]]
    /\ claims' = [i \in Items |-> IF claims[i] \in interrupted THEN NoRun ELSE claims[i]]
    /\ UNCHANGED exec

\* The process is gone and the tables stay; a run just claimed has no row yet,
\* or one that is still queued.
Lost ==
    /\ exec' = [r \in RunIds |-> "no"]
    /\ \E saved \in SUBSET {r \in RunIds : exec[r] = "claimed"} :
        runs' = [r \in RunIds |->
                    IF r \in saved THEN [runs[r] EXCEPT !.state = "QUEUED"] ELSE runs[r]]
    /\ UNCHANGED claims

--------------------------------------------------------------------------------

occupies(r) ==
    \/ exec[r] \in {"preparing", "working"} /\ ~isTerminal(r)
    \/ runs[r].state = "WAITING"

\* No item is worked on twice: of the runs for it, whoever started them, at most
\* one is being executed or waits for an answer (tryClaim before every start).
OneRunPerItem ==
    \A q, r \in RunIds :
        q # r /\ occupies(q) /\ occupies(r) /\ runs[q].item # NoItem
            => runs[q].item # runs[r].item
===============================================================================
