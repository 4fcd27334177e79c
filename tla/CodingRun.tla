------------------------------ MODULE CodingRun -------------------------------
(***************************************************************************)
(* The workspace of a run that changes code.  Runs of one item share one   *)
(* branch: a worktree of the base clone is made for the run, its work is   *)
(* committed and pushed before the run is suspended, and another worktree  *)
(* is restored from the remote branch when the wait is answered.  A commit *)
(* is the set of works it contains; the branch is linear while nobody      *)
(* rewrites it.                                                            *)
(***************************************************************************)
EXTENDS Naturals, FiniteSets

CONSTANTS
    Runs,           \* runs of one work item
    Works,          \* pieces of work, made by a run or pushed by somebody else
    NoBranch,       \* a branch that does not exist
    MaxRestores,    \* bound: worktrees <run>-r1 .. of a run
    MaxCrashes, MaxRewrites     \* bounds: restarts; force pushes and deletions of the branch

VARIABLES
    git,        \* the branch in the remote, in the base clone, and origin/<branch> there
    tree,       \* the worktrees: for a run and n, whether <run>-r<n> exists, and its dirty files
    coding,     \* the runs: state, current worktree, latest checkpoint, and their work
    crashes, rewrites

codingVars == <<git, tree, coding, crashes, rewrites>>

Paths == 0..MaxRestores
NoTree == [there |-> FALSE, dirty |-> {}]
Fresh == [there |-> TRUE, dirty |-> {}]

CodingInit ==
    /\ git = [remote |-> NoBranch, local |-> NoBranch, tracking |-> NoBranch]
    /\ tree = [r \in Runs |-> [n \in Paths |-> NoTree]]
    /\ coding = [r \in Runs |-> [pc |-> "queued", path |-> 0, checkpoint |-> NoBranch, done |-> {}]]
    /\ crashes = 0 /\ rewrites = 0

commits(branch) == IF branch = NoBranch THEN {} ELSE branch
fetched == [git EXCEPT !.tracking = git.remote]
goTo(r, pc) == [coding EXCEPT ![r].pc = pc]
here(r) == tree[r][coding[r].path]
At(r, pcs) == coding[r].pc \in pcs
Calm == UNCHANGED <<crashes, rewrites>>

MadeWorks == UNION {coding[r].done : r \in Runs} \cup commits(git.remote) \cup commits(git.local)

--------------------------------------------------------------------------------
(* git                                                                          *)

\* `worktree add -b` refuses a branch or a path that exists.
addable(r, n) == git.local = NoBranch /\ ~tree[r][n].there
addWorktree(r, n) == tree' = [tree EXCEPT ![r][n] = Fresh]

committed(r) ==
    [git EXCEPT !.local = @ \cup here(r).dirty]
cleaned(r) == [tree EXCEPT ![r][coding[r].path].dirty = {}]

fastForward == commits(git.remote) \subseteq git.local
pushed == [git EXCEPT !.remote = git.local, !.tracking = git.local]
hasUnpushedCommits_Mutated == FALSE     \* only what the checkpoint committed is pushed
hasUnpushedCommits == ~(git.local \subseteq commits(git.tracking)) \/ git.tracking = NoBranch

--------------------------------------------------------------------------------
(* The run                                                                      *)

prepareWorkspace(r, otherwise) ==
    IF addable(r, 0)
    THEN /\ git' = [fetched EXCEPT !.local = {}]
         /\ addWorktree(r, 0)
         /\ coding' = [coding EXCEPT ![r].pc = "working", ![r].path = 0, ![r].done = {}]
    ELSE git' = fetched /\ coding' = goTo(r, otherwise) /\ UNCHANGED tree

\* The claim of the item lets one run in at a time.  A workspace that cannot be
\* made leaves the run in preparation, with the claim.
Prepare(r) ==
    /\ At(r, {"queued"}) /\ \A s \in Runs \ {r} : At(s, {"queued", "completed", "failed"})
    /\ prepareWorkspace(r, "preparing") /\ Calm

Edit(r) ==
    /\ At(r, {"working"})
    /\ \E w \in Works \ MadeWorks :
         /\ tree' = [tree EXCEPT ![r][coding[r].path].dirty = @ \cup {w}]
         /\ coding' = [coding EXCEPT ![r].done = @ \cup {w}]
    /\ UNCHANGED git /\ Calm

commit(r) == git' = committed(r) /\ tree' = cleaned(r)

CommitAction(r) ==
    /\ At(r, {"working"}) /\ here(r).dirty # {}
    /\ commit(r)
    /\ UNCHANGED coding /\ Calm

\* The push action, and the one that opens a pull request.
PushAction(r) ==
    /\ At(r, {"working"}) /\ fastForward
    /\ git' = pushed
    /\ UNCHANGED <<tree, coding>> /\ Calm

Suspend(r) == At(r, {"working"}) /\ coding' = goTo(r, "committing") /\ UNCHANGED <<git, tree>> /\ Calm

\* checkpoint: commit what is dirty, push it or what was never pushed.
CheckpointCommits(r) ==
    /\ At(r, {"committing"})
    /\ IF here(r).dirty # {} THEN commit(r) ELSE UNCHANGED <<git, tree>>
    /\ coding' = goTo(r, IF here(r).dirty # {} \/ hasUnpushedCommits THEN "pushing" ELSE "saving")
    /\ Calm

CheckpointPushes(r) ==
    /\ At(r, {"pushing"}) /\ fastForward
    /\ git' = pushed
    /\ coding' = goTo(r, "saving")
    /\ UNCHANGED tree /\ Calm

CheckpointSaved(r) ==
    /\ At(r, {"saving"})
    /\ coding' = [coding EXCEPT ![r].checkpoint = git.local, ![r].pc = "parking"]
    /\ UNCHANGED <<git, tree>> /\ Calm

Park(r) == At(r, {"parking"}) /\ coding' = goTo(r, "parked") /\ UNCHANGED <<git, tree>> /\ Calm

\* A rejected push refuses the suspension; so may a hook, or an outage.  The run
\* fails where it stands: nothing is cleaned up.
Refused(r) ==
    At(r, {"pushing"}) /\ coding' = goTo(r, "failed") /\ UNCHANGED <<git, tree>> /\ Calm

freshWorktreePath(r) == {n \in Paths \ {0} : ~tree[r][n].there /\ \A k \in 1..(n - 1) : tree[r][k].there}

contained(r) == git.remote # NoBranch /\ coding[r].checkpoint \subseteq git.remote

\* A worktree that is added again, by force, shares the branch; it is fast
\* forwarded to the remote head.
mergeable == git.local = NoBranch \/ git.local \subseteq git.remote \/ git.remote \subseteq git.local

restore(r) ==
    IF ~contained(r) THEN git' = fetched /\ UNCHANGED <<tree, coding>>
    ELSE \E n \in freshWorktreePath(r) :
           /\ addWorktree(r, n)
           /\ IF mergeable
              THEN LET head == commits(git.local) \cup git.remote IN
                   /\ git' = [fetched EXCEPT !.local = head]
                   /\ coding' = [coding EXCEPT ![r].pc = "working", ![r].path = n, ![r].done = head]
              ELSE git' = fetched /\ UNCHANGED coding

restoreWorkspaceIfNeeded(r) ==
    IF coding[r].checkpoint # NoBranch THEN restore(r) ELSE prepareWorkspace(r, coding[r].pc)

\* The answer to the wait, and the recovery of a run found in progress.  One that
\* cannot be restored stays as it is and is tried again at the next start.
Resume(r) == At(r, {"parked", "interrupted"}) /\ restoreWorkspaceIfNeeded(r) /\ Calm

\* Retention is on failure: the current worktree of a completed run is removed.
cleanup(r, failed) ==
    tree' = IF failed THEN tree ELSE [tree EXCEPT ![r][coding[r].path] = NoTree]

Finalize(r) ==
    /\ At(r, {"working"})
    /\ \E failed \in BOOLEAN :
         /\ cleanup(r, failed)
         /\ coding' = goTo(r, IF failed THEN "failed" ELSE "completed")
    /\ UNCHANGED git /\ Calm

--------------------------------------------------------------------------------
(* The rest of the world                                                        *)

Live == {"working", "committing", "pushing", "saving", "parking"}

\* The daemon is killed; on another machine it finds no clone and no worktree.
CrashCoding ==
    /\ crashes < MaxCrashes
    /\ crashes' = crashes + 1
    /\ coding' = [r \in Runs |-> [coding[r] EXCEPT !.pc = IF @ \in Live THEN "interrupted" ELSE @]]
    /\ \/ UNCHANGED <<git, tree>>
       \/ /\ git' = [git EXCEPT !.local = NoBranch, !.tracking = NoBranch]
          /\ tree' = [r \in Runs |-> [n \in Paths |-> NoTree]]
    /\ UNCHANGED rewrites

\* A colleague pushes to the branch of the pull request, forces it, or deletes it.
SomebodyPushes ==
    /\ git.remote # NoBranch
    /\ \E w \in Works \ MadeWorks : git' = [git EXCEPT !.remote = @ \cup {w}]
    /\ UNCHANGED <<tree, coding>> /\ Calm

SomebodyRewrites ==
    /\ rewrites < MaxRewrites /\ git.remote # NoBranch
    /\ \E other \in {NoBranch, {}} : git' = [git EXCEPT !.remote = other]
    /\ rewrites' = rewrites + 1
    /\ UNCHANGED <<tree, coding, crashes>>

CodingStep(r) ==
    \/ Prepare(r) \/ Edit(r) \/ CommitAction(r) \/ PushAction(r) \/ Suspend(r)
    \/ CheckpointCommits(r) \/ CheckpointPushes(r) \/ CheckpointSaved(r) \/ Park(r) \/ Refused(r)
    \/ Resume(r) \/ Finalize(r)

CodingNext == (\E r \in Runs : CodingStep(r)) \/ CrashCoding \/ SomebodyPushes \/ SomebodyRewrites

CodingSpec == CodingInit /\ [][CodingNext]_codingVars

--------------------------------------------------------------------------------
(* Properties                                                                   *)

parked(r) == At(r, {"parked"})

\* Everything a suspended run has done is in the remote branch, whatever happens
\* to the machine, unless somebody took it away there.
ParkedWorkDurable == \A r \in Runs : parked(r) /\ rewrites = 0 => coding[r].done \subseteq commits(git.remote)

\* The answer to a suspended run finds a branch it can be restored from, whatever
\* others have pushed to it meanwhile, on this machine or on another.
ParkedRunRestorable == \A r \in Runs : parked(r) /\ rewrites = 0 => contained(r) /\ mergeable

\* A run goes on with everything its checkpoint holds.
RestoredAtCheckpoint == \A r \in Runs : At(r, Live) => commits(coding[r].checkpoint) \subseteq coding[r].done

\* What a failed run has done is still on disk, committed or not.
FailedWorkKept ==
    \A r \in Runs : At(r, {"failed"}) /\ crashes = 0 =>
        coding[r].done \subseteq git.local \cup here(r).dirty

WorkSurvives ==
    ParkedWorkDurable /\ ParkedRunRestorable /\ RestoredAtCheckpoint /\ FailedWorkKept
===============================================================================
