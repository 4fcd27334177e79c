------------------------------ MODULE ChildRuns -------------------------------
(***************************************************************************)
(* A fan-out node and the child runs it starts.  The children run          *)
(* detached; the node waits on a dependency condition that the children    *)
(* satisfy when they end, by the join of the node.  A sub-workflow node is *)
(* the case of one branch and the join "all".                              *)
(***************************************************************************)
EXTENDS Naturals, FiniteSets

CONSTANTS
    MaxItems,       \* bound: items of the list the node fans out over
    maxConcurrency, \* the width the node allows
    Joins,          \* the joins: [mode, n]
    MaxCrashes      \* bound: restarts of the process

VARIABLES
    parent,     \* the node: where its executor is, and what it settled with
    run,        \* branch -> the row of its child run, or what stands for it in memory
    looking,    \* branch -> its child's look for the waits of parents
    wait,       \* the dependency condition
    crashes

childVars == <<parent, run, looking, wait, crashes>>

AllBranches == 1..MaxItems
Branches == 1..parent.items
Terminal == {"Completed", "Failed", "Blocked", "Cancelled"}

ChildInit ==
    /\ \E items \in 0..MaxItems, join \in Joins :
        parent = [pc |-> "items", k |-> 1, items |-> items, join |-> join, status |-> "none"]
    /\ run = [b \in AllBranches |-> "none"]
    /\ looking = [b \in AllBranches |-> [pc |-> "no", succeeded |-> FALSE]]
    /\ wait = [status |-> "none", succeeded |-> FALSE]
    /\ crashes = 0

Settle(status) == parent' = [parent EXCEPT !.pc = "settled", !.status = status]
SetRun(b, state) == run' = [run EXCEPT ![b] = state]

--------------------------------------------------------------------------------
(* The executor of the node                                                    *)

\* No items are nothing to do; too many fail the node rather than drop work.
EvaluateItems ==
    /\ parent.pc = "items"
    /\ IF parent.items = 0 THEN Settle("succeeded")
       ELSE IF parent.items > maxConcurrency THEN Settle("failed")
       ELSE parent' = [parent EXCEPT !.pc = "start", !.k = 1]
    /\ UNCHANGED <<run, looking, wait, crashes>>

\* The id of a child is made of its parent's, the node and the branch: a child that
\* has a row is not started again. Starting is not waited for.
StartChild ==
    /\ parent.pc = "start"
    /\ run' = IF run[parent.k] = "none" THEN [run EXCEPT ![parent.k] = "starting"] ELSE run
    /\ parent' = IF parent.k = parent.items THEN [parent EXCEPT !.pc = "yielded"]
                 ELSE [parent EXCEPT !.k = @ + 1]
    /\ UNCHANGED <<looking, wait, crashes>>

persistWaits ==
    /\ parent.pc = "yielded"
    /\ wait' = [wait EXCEPT !.status = "open"]
    /\ parent' = [parent EXCEPT !.pc = "waiting"]
    /\ UNCHANGED <<run, looking, crashes>>

\* The resume of whoever satisfied the wait, or the replay of a later restart.
childCompletionResult ==
    /\ parent.pc = "waiting"
    /\ wait.status = "satisfied"
    /\ Settle(IF wait.succeeded THEN "succeeded" ELSE "failed")
    /\ UNCHANGED <<run, looking, wait, crashes>>

--------------------------------------------------------------------------------
(* The children                                                                *)

\* Resolving its workflow, saving its row: an error before that is only logged.
ChildSaved(b) ==
    /\ run[b] = "starting"
    /\ \E state \in {"preparing", "none"} :
        SetRun(b, IF state = "none" THEN "lost" ELSE state)
    /\ UNCHANGED <<parent, looking, wait, crashes>>

\* An error before it is driven leaves the row as it is, for ever.
ChildPrepared(b) ==
    /\ run[b] = "preparing"
    /\ \E state \in {"running", "stuck"} : SetRun(b, state)
    /\ UNCHANGED <<parent, looking, wait, crashes>>

ChildParks(b) ==
    /\ run[b] = "running"
    /\ SetRun(b, "parked")
    /\ UNCHANGED <<parent, looking, wait, crashes>>

ChildResumes(b) ==
    /\ run[b] = "parked"
    /\ SetRun(b, "running")
    /\ UNCHANGED <<parent, looking, wait, crashes>>

\* finalize: the terminal state is saved, then parents are looked for.
ChildFinalized(b) ==
    /\ run[b] = "running"
    /\ \E state \in Terminal : SetRun(b, state)
    /\ looking' = [looking EXCEPT ![b].pc = "look"]
    /\ UNCHANGED <<parent, wait, crashes>>

\* A driver that throws, and a cancel of a parked run, do not look for parents.
ChildEndsUnheard(b) ==
    /\ \/ run[b] = "running" /\ SetRun(b, "Failed")
       \/ run[b] = "parked" /\ SetRun(b, "Cancelled")
    /\ UNCHANGED <<parent, looking, wait, crashes>>

--------------------------------------------------------------------------------
(* satisfyParentWaits: the rows of all children are read, then the condition   *)
(* is satisfied if it is still open.                                           *)

Succeeded == {b \in Branches : run[b] = "Completed"}
Settled == {b \in Branches : run[b] \in Terminal}

needed ==
    CASE parent.join.mode = "any" -> 1
      [] parent.join.mode = "min" -> parent.join.n
      [] OTHER -> parent.items

enough == Cardinality(Succeeded) >= needed
hopeless_Mutated == Settled # Succeeded     \* one failure is enough for every join
hopeless == Settled = Branches \/ (parent.join.mode = "all" /\ Settled # Succeeded)

satisfyParentWaits(b) ==
    /\ looking[b].pc = "look"
    /\ looking' = [looking EXCEPT ![b] =
            IF wait.status = "open" /\ (enough \/ hopeless)
            THEN [pc |-> "satisfy", succeeded |-> enough] ELSE [@ EXCEPT !.pc = "no"]]
    /\ UNCHANGED <<parent, run, wait, crashes>>

trySatisfy(b) ==
    /\ looking[b].pc = "satisfy"
    /\ looking' = [looking EXCEPT ![b].pc = "no"]
    /\ wait' = IF wait.status = "open" THEN [status |-> "satisfied", succeeded |-> looking[b].succeeded]
               ELSE wait
    /\ UNCHANGED <<parent, run, crashes>>

\* A process that dies: the node is evaluated again unless its wait was stored;
\* running children are driven again; children that have no graph state, or no row,
\* and looks for parents are gone.
Crash ==
    /\ crashes < MaxCrashes
    /\ crashes' = crashes + 1
    /\ parent' = IF parent.pc \in {"start", "yielded"} THEN [parent EXCEPT !.pc = "items"] ELSE parent
    /\ run' = [b \in AllBranches |->
                 CASE run[b] \in {"starting", "lost"} -> "none"
                   [] run[b] = "preparing" -> "stuck"
                   [] OTHER -> run[b]]
    /\ looking' = [b \in AllBranches |-> [pc |-> "no", succeeded |-> FALSE]]
    /\ UNCHANGED wait

Child(b) ==
    \/ ChildSaved(b) \/ ChildPrepared(b) \/ ChildParks(b) \/ ChildResumes(b)
    \/ ChildFinalized(b) \/ ChildEndsUnheard(b) \/ satisfyParentWaits(b) \/ trySatisfy(b)

Node == EvaluateItems \/ StartChild \/ persistWaits \/ childCompletionResult

ChildNext == Node \/ (\E b \in AllBranches : Child(b)) \/ Crash

ChildSpec == ChildInit /\ [][ChildNext]_childVars

ChildFairness ==
    /\ WF_childVars(Node)
    /\ \A b \in AllBranches :
        /\ WF_childVars(Child(b))
        /\ SF_childVars(ChildFinalized(b) \/ ChildEndsUnheard(b))

--------------------------------------------------------------------------------
(* Properties                                                                  *)

ended(b) == run[b] \in Terminal
mayComplete(b) == run[b] = "Completed" \/ run[b] \in {"starting", "preparing", "running", "parked"}

\* The verdict a node resumes with is the one of its join, now and for ever: a
\* success once enough children completed, a failure once they no longer can,
\* although children end while others read the rows.
JoinDecided ==
    wait.status = "satisfied" =>
        IF wait.succeeded THEN enough
        ELSE Cardinality({b \in Branches : mayComplete(b)}) < needed

\* A node goes on when its last child ends by finalize while its wait is open, by
\* whichever child looks last (no restart comes between).
ParentWoken ==
    (/\ wait.status = "open" /\ crashes = MaxCrashes
     /\ \A b \in Branches : ended(b)
     /\ \E b \in Branches : looking[b].pc = "look") ~> (parent.pc = "settled")

\* "Children execute detached; completion satisfies the parent wait" (coordinator.ts):
\* once every child has ended, the node goes on.
CompletionWakesParent ==
    (parent.pc = "waiting" /\ \A b \in Branches : ended(b)) ~> (parent.pc = "settled")
===============================================================================
