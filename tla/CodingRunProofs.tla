---------------------------- MODULE CodingRunProofs ----------------------------
(***************************************************************************)
(* What the work of a run leaves behind is held: its commits (CodingRun),  *)
(* for every number of runs of an item, works, restarts, restored          *)
(* worktrees and rewrites of the branch; its claim and the labels of the   *)
(* issue (WorkTracker), for every set of adapters, claimants and states;   *)
(* the description of the item (ManagedSection), for every set of runs,    *)
(* documents and texts; and what its external agents reported              *)
(* (AgentBackend), for every provider, script and cut of the output.       *)
(***************************************************************************)
EXTENDS CodingRun, WorkTracker, ManagedSection, AgentBackend, WellFoundedInduction,
        FiniteSetTheorems, SequenceTheorems, TLAPS

\* A branch that does not exist is none of those that do; a run has a worktree.
CodingAssumption == NoBranch \notin SUBSET Works /\ MaxRestores \in Nat

--------------------------------------------------------------------------------
(* The inductive invariant *)

Branch == (SUBSET Works) \cup {NoBranch}
Aside == {"queued", "completed", "failed"}

Typed ==
    /\ git \in [remote : Branch, local : Branch, tracking : Branch]
    /\ tree \in [Runs -> [Paths -> [there : BOOLEAN, dirty : SUBSET Works]]]
    /\ coding \in [Runs -> [pc : Live \cup Aside \cup {"preparing", "parked", "interrupted"},
                            path : Paths, checkpoint : Branch, done : SUBSET Works]]
    /\ crashes \in Nat /\ rewrites \in Nat

\* The claim of the item: of its runs one is under way.
OneAtATime == \A r, s \in Runs : r # s /\ ~At(r, Aside) => At(s, Aside)

\* What origin/<branch> says of the remote stays true while nobody takes anything away.
TrackingHeld ==
    rewrites = 0 /\ git.tracking # NoBranch => git.remote # NoBranch /\ git.tracking \subseteq git.remote

\* On the way from the worktree into the branch, into the remote branch, into the checkpoint.
RunHeld(r) ==
    /\ At(r, Live) => git.local # NoBranch /\ commits(coding[r].checkpoint) \subseteq coding[r].done
    /\ At(r, {"working", "committing"}) => coding[r].done = git.local \cup here(r).dirty
    /\ At(r, {"pushing", "saving", "parking"}) => coding[r].done = git.local
    /\ At(r, {"queued"}) => coding[r].checkpoint = NoBranch
    /\ At(r, {"parking", "parked"}) => coding[r].checkpoint # NoBranch
    /\ At(r, {"failed"}) /\ crashes = 0 =>
         git.local # NoBranch /\ coding[r].done \subseteq git.local \cup here(r).dirty
    /\ rewrites = 0 =>
         /\ coding[r].checkpoint # NoBranch =>
              git.remote # NoBranch /\ coding[r].checkpoint \subseteq git.remote
         /\ At(r, {"saving", "parking"}) => git.remote # NoBranch /\ git.local \subseteq git.remote
         /\ At(r, {"parked"}) => /\ coding[r].done \subseteq git.remote
                                 /\ git.local # NoBranch => git.local \subseteq git.remote
RunsHeld == \A r \in Runs : RunHeld(r)

CodingInv == Typed /\ OneAtATime /\ TrackingHeld /\ RunsHeld

--------------------------------------------------------------------------------
(* Steps of one run *)

\* What a step may do to the branch: in the base clone it is there to stay and grows, as
\* long as the machine stays; and so it does in the remote, unless somebody rewrites it.
BranchGrows ==
    /\ crashes' = 0 =>
         /\ crashes = 0
         /\ git.local # NoBranch => git'.local # NoBranch /\ git.local \subseteq git'.local
    /\ rewrites' = 0 =>
         /\ rewrites = 0
         /\ git.remote # NoBranch => git'.remote # NoBranch /\ git.remote \subseteq git'.remote

\* The other runs stand aside while r takes a step.
LEMMA OthersKept ==
    ASSUME CodingInv, NEW s \in Runs, At(s, Aside), BranchGrows,
           coding'[s] = coding[s], tree'[s] = tree[s]
    PROVE  RunHeld(s)'
<1>1. RunHeld(s)
  BY DEF CodingInv, RunsHeld
<1>2. coding[s].pc \in Aside /\ coding'[s].pc = coding[s].pc
  BY DEF At
<1>3. here(s)' = here(s)
  BY DEF here
<1> QED
  BY <1>1, <1>2, <1>3 DEF RunHeld, BranchGrows, At, Aside, Live

\* A step of r leaves the other runs alone, the branch at least what it was, and r's own
\* work where it belongs.
LEMMA RunStepKeeps ==
    ASSUME CodingInv, NEW r \in Runs, Typed',
           \A s \in Runs \ {r} : At(s, Aside) /\ coding'[s] = coding[s] /\ tree'[s] = tree[s],
           BranchGrows, TrackingHeld', RunHeld(r)'
    PROVE  CodingInv'
<1>1. \A s \in Runs \ {r} : At(s, Aside)'
  BY DEF At
<1>2. OneAtATime'
  BY <1>1 DEF OneAtATime
<1>3. \A s \in Runs \ {r} : RunHeld(s)'
  BY OthersKept
<1>4. RunsHeld'
  BY <1>3 DEF RunsHeld
<1> QED
  BY <1>2, <1>4 DEF CodingInv

LEMMA OthersAside ==
    ASSUME CodingInv, NEW r \in Runs, ~At(r, Aside)
    PROVE  \A s \in Runs \ {r} : At(s, Aside)
BY DEF CodingInv, OneAtATime

\* What the invariant says of a run that is under way, with the types of its parts.
LEMMA RunFacts ==
    ASSUME CodingInv, NEW r \in Runs
    PROVE  /\ git \in [remote : Branch, local : Branch, tracking : Branch]
           /\ tree \in [Runs -> [Paths -> [there : BOOLEAN, dirty : SUBSET Works]]]
           /\ coding \in [Runs -> [pc : Live \cup Aside \cup {"preparing", "parked", "interrupted"},
                                   path : Paths, checkpoint : Branch, done : SUBSET Works]]
           /\ crashes \in Nat /\ rewrites \in Nat
           /\ coding[r].path \in Paths /\ here(r).dirty \subseteq Works
           /\ coding[r].done \subseteq Works /\ coding[r].checkpoint \in Branch
           /\ RunHeld(r) /\ TrackingHeld
<1>1. Typed /\ RunHeld(r) /\ TrackingHeld
  BY DEF CodingInv, RunsHeld
<1>2. coding[r] \in [pc : Live \cup Aside \cup {"preparing", "parked", "interrupted"},
                     path : Paths, checkpoint : Branch, done : SUBSET Works]
  BY <1>1 DEF Typed
<1>3. tree[r][coding[r].path] \in [there : BOOLEAN, dirty : SUBSET Works]
  BY <1>1, <1>2 DEF Typed
<1> QED
  BY <1>1, <1>2, <1>3 DEF Typed, here

\* A step that changes nothing but how far r has come.
LEMMA OnlyPcMoves ==
    ASSUME CodingInv, NEW r \in Runs, ~At(r, Aside),
           NEW pc \in Live \cup Aside \cup {"preparing", "parked", "interrupted"},
           coding' = goTo(r, pc), UNCHANGED <<git, tree, crashes, rewrites>>, RunHeld(r)'
    PROVE  CodingInv'
<1>1. Typed /\ TrackingHeld
  BY DEF CodingInv
<1>2. Typed'
  BY <1>1 DEF Typed, goTo
<1>3. \A s \in Runs \ {r} : coding'[s] = coding[s] /\ tree'[s] = tree[s]
  BY <1>1 DEF Typed, goTo
<1>4. TrackingHeld'
  BY <1>1 DEF TrackingHeld
<1>5. BranchGrows
  BY DEF BranchGrows
<1> QED
  BY <1>2, <1>3, <1>4, <1>5, OthersAside, RunStepKeeps

LEMMA PcOf ==
    ASSUME CodingInv, NEW r \in Runs, NEW pc, coding' = goTo(r, pc)
    PROVE  /\ coding'[r].pc = pc /\ coding'[r].path = coding[r].path
           /\ coding'[r].checkpoint = coding[r].checkpoint /\ coding'[r].done = coding[r].done
           /\ \A s \in Runs \ {r} : coding'[s] = coding[s]
BY DEF CodingInv, Typed, goTo

LEMMA GoToTyped ==
    ASSUME CodingInv, NEW r \in Runs,
           NEW pc \in Live \cup Aside \cup {"preparing", "parked", "interrupted"}, coding' = goTo(r, pc)
    PROVE  coding' \in [Runs -> [pc : Live \cup Aside \cup {"preparing", "parked", "interrupted"},
                                 path : Paths, checkpoint : Branch, done : SUBSET Works]]
<1> DEFINE Course == [pc : Live \cup Aside \cup {"preparing", "parked", "interrupted"},
                      path : Paths, checkpoint : Branch, done : SUBSET Works]
           next == [coding[r] EXCEPT !.pc = pc]
<1>1. coding \in [Runs -> Course]
  BY DEF CodingInv, Typed
<1>2. next \in Course
  BY <1>1
<1>3. coding' = [coding EXCEPT ![r] = next]
  BY DEF goTo
<1> HIDE DEF Course, next
<1>4. coding' \in [Runs -> Course]
  BY <1>1, <1>2, <1>3
<1> QED BY <1>4 DEF Course

LEMMA PcSteps ==
    ASSUME CodingAssumption, CodingInv, NEW r \in Runs, Suspend(r) \/ Park(r) \/ Refused(r)
    PROVE  CodingInv'
<1>1. RunHeld(r)
  BY RunFacts
<1>2. UNCHANGED <<git, tree, crashes, rewrites>>
  BY DEF Suspend, Park, Refused, Calm
<1>3. CASE Suspend(r)
  <2>1. At(r, {"working"}) /\ coding' = goTo(r, "committing")
    BY <1>3 DEF Suspend
  <2>2. RunHeld(r)'
    BY <1>1, <1>2, <2>1, PcOf DEF RunHeld, At, Live, here
  <2>3. ~At(r, Aside)
    BY <2>1 DEF At, Aside
  <2> QED
    BY <1>2, <2>1, <2>2, <2>3, OnlyPcMoves DEF Live
<1>4. CASE Park(r)
  <2>1. At(r, {"parking"}) /\ coding' = goTo(r, "parked")
    BY <1>4 DEF Park
  <2>2. RunHeld(r)'
    BY <1>1, <1>2, <2>1, PcOf DEF RunHeld, At, Live, here
  <2>3. ~At(r, Aside)
    BY <2>1 DEF At, Aside
  <2> QED
    BY <1>2, <2>1, <2>2, <2>3, OnlyPcMoves
<1>5. CASE Refused(r)
  <2>1. At(r, {"pushing"}) /\ coding' = goTo(r, "failed")
    BY <1>5 DEF Refused
  <2>2. RunHeld(r)'
    BY <1>1, <1>2, <2>1, PcOf DEF RunHeld, At, Live, here
  <2>3. ~At(r, Aside)
    BY <2>1 DEF At, Aside
  <2> QED
    BY <1>2, <2>1, <2>2, <2>3, OnlyPcMoves DEF Aside
<1> QED
  BY <1>3, <1>4, <1>5

--------------------------------------------------------------------------------
(* Commits and pushes *)

LEMMA Committed ==
    ASSUME CodingAssumption, CodingInv, NEW r \in Runs, At(r, Live), commit(r)
    PROVE  /\ git' \in [remote : Branch, local : Branch, tracking : Branch]
           /\ git'.local = git.local \cup here(r).dirty /\ git'.local # NoBranch
           /\ git'.remote = git.remote /\ git'.tracking = git.tracking
           /\ tree' \in [Runs -> [Paths -> [there : BOOLEAN, dirty : SUBSET Works]]]
           /\ \A s \in Runs \ {r} : tree'[s] = tree[s]
           /\ tree'[r][coding[r].path].dirty = {}
<1>1. git.local # NoBranch /\ git.local \in Branch
  BY RunFacts DEF RunHeld
<1>2. git.local \cup here(r).dirty \in SUBSET Works
  <2>1. here(r).dirty \in SUBSET Works
    BY RunFacts
  <2>2. git.local \in SUBSET Works
    BY <1>1 DEF Branch
  <2> QED
    BY <2>1, <2>2
<1>3. /\ git' \in [remote : Branch, local : Branch, tracking : Branch]
      /\ git'.local = git.local \cup here(r).dirty
      /\ git'.remote = git.remote /\ git'.tracking = git.tracking
  BY <1>2, RunFacts DEF commit, committed, Branch
<1>4. git'.local # NoBranch
  BY <1>2, <1>3 DEF CodingAssumption
<1>5. /\ tree' \in [Runs -> [Paths -> [there : BOOLEAN, dirty : SUBSET Works]]]
      /\ \A s \in Runs \ {r} : tree'[s] = tree[s]
      /\ tree'[r][coding[r].path].dirty = {}
  <2>1. tree' = [tree EXCEPT ![r][coding[r].path].dirty = {}]
    BY DEF commit, cleaned
  <2>2. /\ tree \in [Runs -> [Paths -> [there : BOOLEAN, dirty : SUBSET Works]]]
        /\ coding[r].path \in Paths
    BY RunFacts
  <2>3. tree[r][coding[r].path] \in [there : BOOLEAN, dirty : SUBSET Works]
    BY <2>2
  <2> QED
    BY <2>1, <2>2, <2>3
<1> QED
  BY <1>3, <1>4, <1>5

LEMMA Pushed ==
    ASSUME CodingInv, NEW r \in Runs, At(r, Live), fastForward, git' = pushed,
           UNCHANGED <<crashes, rewrites>>
    PROVE  /\ git' \in [remote : Branch, local : Branch, tracking : Branch]
           /\ git'.local = git.local /\ git'.remote = git.local /\ git'.local # NoBranch
           /\ BranchGrows /\ TrackingHeld'
<1>1. /\ git' \in [remote : Branch, local : Branch, tracking : Branch]
      /\ git'.local = git.local /\ git'.remote = git.local /\ git'.tracking = git.local
  BY RunFacts DEF pushed
<1>2. git.local # NoBranch
  BY RunFacts DEF RunHeld
<1>3. git.remote # NoBranch => git.remote \subseteq git.local
  BY DEF fastForward, commits
<1> QED
  BY <1>1, <1>2, <1>3 DEF BranchGrows, TrackingHeld

LEMMA EditStep ==
    ASSUME CodingAssumption, CodingInv, NEW r \in Runs, Edit(r)
    PROVE  CodingInv'
<1>1. At(r, {"working"}) /\ UNCHANGED <<git, crashes, rewrites>>
  BY DEF Edit, Calm
<1>2. PICK w \in Works :
        /\ tree' = [tree EXCEPT ![r][coding[r].path].dirty = @ \cup {w}]
        /\ coding' = [coding EXCEPT ![r].done = @ \cup {w}]
  BY DEF Edit
<1>3. /\ tree' \in [Runs -> [Paths -> [there : BOOLEAN, dirty : SUBSET Works]]]
      /\ tree'[r][coding[r].path].dirty = here(r).dirty \cup {w}
      /\ \A s \in Runs \ {r} : tree'[s] = tree[s]
  <2>1. tree[r][coding[r].path] \in [there : BOOLEAN, dirty : SUBSET Works]
    BY RunFacts
  <2> QED
    BY <1>2, <2>1, RunFacts DEF here
<1>4. /\ coding' \in [Runs -> [pc : Live \cup Aside \cup {"preparing", "parked", "interrupted"},
                               path : Paths, checkpoint : Branch, done : SUBSET Works]]
      /\ coding'[r].pc = coding[r].pc /\ coding'[r].path = coding[r].path
      /\ coding'[r].checkpoint = coding[r].checkpoint
      /\ coding'[r].done = coding[r].done \cup {w}
      /\ \A s \in Runs \ {r} : coding'[s] = coding[s]
  <2>1. coding[r].done \cup {w} \in SUBSET Works
    BY RunFacts
  <2> QED
    BY <1>2, <2>1, RunFacts
<1>5. Typed'
  BY <1>1, <1>3, <1>4, RunFacts DEF Typed
<1>6. BranchGrows /\ TrackingHeld'
  BY <1>1, RunFacts DEF BranchGrows, TrackingHeld
<1>7. RunHeld(r)'
  BY <1>1, <1>3, <1>4, RunFacts DEF RunHeld, At, Live, here
<1>8. ~At(r, Aside)
  BY <1>1 DEF At, Aside
<1> QED
  BY <1>3, <1>4, <1>5, <1>6, <1>7, <1>8, OthersAside, RunStepKeeps

LEMMA ActionSteps ==
    ASSUME CodingAssumption, CodingInv, NEW r \in Runs, CommitAction(r) \/ PushAction(r)
    PROVE  CodingInv'
<1>1. At(r, {"working"}) /\ At(r, Live) /\ ~At(r, Aside) /\ UNCHANGED <<coding, crashes, rewrites>>
  BY DEF CommitAction, PushAction, Calm, At, Live, Aside
<1>2. CASE CommitAction(r)
  <2>1. commit(r)
    BY <1>2 DEF CommitAction
  <2>2. Typed'
    BY <1>1, <2>1, Committed, RunFacts DEF Typed
  <2>3. BranchGrows /\ TrackingHeld'
    BY <1>1, <2>1, Committed, RunFacts DEF BranchGrows, TrackingHeld
  <2>4. RunHeld(r)'
    BY <1>1, <2>1, Committed, RunFacts DEF RunHeld, At, Live, here
  <2> QED
    BY <1>1, <2>1, <2>2, <2>3, <2>4, Committed, OthersAside, RunStepKeeps
<1>3. CASE PushAction(r)
  <2>1. fastForward /\ git' = pushed /\ UNCHANGED tree
    BY <1>3 DEF PushAction
  <2>2. Typed'
    BY <1>1, <2>1, Pushed, RunFacts DEF Typed
  <2>3. RunHeld(r)'
    <3>1. git.remote # NoBranch => git.remote \subseteq git.local
      BY <2>1 DEF fastForward, commits
    <3> QED
      BY <1>1, <2>1, <3>1, Pushed, RunFacts DEF RunHeld, At, Live, here
  <2> QED
    BY <1>1, <2>1, <2>2, <2>3, Pushed, OthersAside, RunStepKeeps
<1> QED
  BY <1>2, <1>3

LEMMA CheckpointSteps ==
    ASSUME CodingAssumption, CodingInv, NEW r \in Runs,
           CheckpointCommits(r) \/ CheckpointPushes(r) \/ CheckpointSaved(r)
    PROVE  CodingInv'
<1>1. At(r, Live) /\ ~At(r, Aside) /\ UNCHANGED <<crashes, rewrites>>
  BY DEF CheckpointCommits, CheckpointPushes, CheckpointSaved, Calm, At, Live, Aside
<1>2. git.local # NoBranch
  BY <1>1, RunFacts DEF RunHeld
<1>3. CASE CheckpointCommits(r) /\ here(r).dirty # {}
  <2>1. At(r, {"committing"}) /\ commit(r) /\ coding' = goTo(r, "pushing")
    BY <1>3 DEF CheckpointCommits
  <2>2. coding' \in [Runs -> [pc : Live \cup Aside \cup {"preparing", "parked", "interrupted"},
                               path : Paths, checkpoint : Branch, done : SUBSET Works]]
    BY <2>1, GoToTyped DEF Live
  <2>3. Typed'
    BY <1>1, <2>1, <2>2, Committed, RunFacts DEF Typed
  <2>4. BranchGrows /\ TrackingHeld'
    BY <1>1, <2>1, Committed, RunFacts DEF BranchGrows, TrackingHeld
  <2>5. RunHeld(r)'
    <3>1. /\ coding[r].done = git.local \cup here(r).dirty
          /\ commits(coding[r].checkpoint) \subseteq coding[r].done
          /\ rewrites = 0 /\ coding[r].checkpoint # NoBranch =>
               git.remote # NoBranch /\ coding[r].checkpoint \subseteq git.remote
      BY <2>1, RunFacts DEF RunHeld, At, Live
    <3>2. /\ coding'[r].pc = "pushing" /\ coding'[r].done = git'.local /\ git'.local # NoBranch
          /\ coding'[r].checkpoint = coding[r].checkpoint /\ coding'[r].done = coding[r].done
          /\ git'.remote = git.remote
      BY <1>1, <2>1, <3>1, Committed, PcOf
    <3> QED
      BY <1>1, <3>1, <3>2 DEF RunHeld, At, Live, commits
  <2> QED
    BY <1>1, <2>1, <2>3, <2>4, <2>5, Committed, PcOf, OthersAside, RunStepKeeps
<1>4. CASE CheckpointCommits(r) /\ here(r).dirty = {}
  <2>1. /\ At(r, {"committing"}) /\ UNCHANGED <<git, tree>>
        /\ coding' = goTo(r, IF hasUnpushedCommits THEN "pushing" ELSE "saving")
    BY <1>4 DEF CheckpointCommits
  <2>2. coding[r].done = git.local
    BY <1>4, <2>1, RunFacts DEF RunHeld, At
  <2>3. CASE hasUnpushedCommits
    <3>1. coding' = goTo(r, "pushing")
      BY <2>1, <2>3
    <3>2. RunHeld(r)'
      <4>1. /\ coding'[r].pc = "pushing" /\ coding'[r].checkpoint = coding[r].checkpoint
            /\ coding'[r].done = coding[r].done
        BY <3>1, PcOf
      <4> QED BY <1>1, <2>1, <2>2, <4>1, RunFacts DEF RunHeld, At, Live
    <3> QED
      BY <1>1, <2>1, <3>1, <3>2, OnlyPcMoves DEF Live
  <2>4. CASE ~hasUnpushedCommits
    <3>1. coding' = goTo(r, "saving")
      BY <2>1, <2>4
    <3>2. git.tracking # NoBranch /\ git.local \subseteq git.tracking
      BY <2>4 DEF hasUnpushedCommits, commits
    <3>3. rewrites = 0 => git.remote # NoBranch /\ git.local \subseteq git.remote
      BY <3>2, RunFacts DEF TrackingHeld
    <3>4. RunHeld(r)'
      <4>1. /\ coding'[r].pc = "saving" /\ coding'[r].checkpoint = coding[r].checkpoint
            /\ coding'[r].done = coding[r].done
        BY <3>1, PcOf
      <4> QED BY <1>1, <2>1, <2>2, <3>3, <4>1, RunFacts DEF RunHeld, At, Live
    <3> QED
      BY <1>1, <2>1, <3>1, <3>4, OnlyPcMoves DEF Live
  <2> QED
    BY <2>3, <2>4
<1>5. CASE CheckpointPushes(r)
  <2>1. At(r, {"pushing"}) /\ fastForward /\ git' = pushed /\ UNCHANGED tree /\ coding' = goTo(r, "saving")
    BY <1>5 DEF CheckpointPushes
  <2>2. coding' \in [Runs -> [pc : Live \cup Aside \cup {"preparing", "parked", "interrupted"},
                               path : Paths, checkpoint : Branch, done : SUBSET Works]]
    BY <2>1, GoToTyped DEF Live
  <2>3. Typed'
    BY <1>1, <2>1, <2>2, Pushed, RunFacts DEF Typed
  <2>4. RunHeld(r)'
    <3>1. git.remote # NoBranch => git.remote \subseteq git.local
      BY <2>1 DEF fastForward, commits
    <3>2. /\ coding'[r].pc = "saving" /\ coding'[r].checkpoint = coding[r].checkpoint
          /\ coding'[r].done = coding[r].done
      BY <2>1, PcOf
    <3> QED
      BY <1>1, <2>1, <3>1, <3>2, Pushed, RunFacts DEF RunHeld, At, Live
  <2> QED
    BY <1>1, <2>1, <2>3, <2>4, Pushed, PcOf, OthersAside, RunStepKeeps
<1>6. CASE CheckpointSaved(r)
  <2>1. /\ At(r, {"saving"}) /\ UNCHANGED <<git, tree>>
        /\ coding' = [coding EXCEPT ![r].checkpoint = git.local, ![r].pc = "parking"]
    BY <1>6 DEF CheckpointSaved
  <2>2. /\ coding' \in [Runs -> [pc : Live \cup Aside \cup {"preparing", "parked", "interrupted"},
                                 path : Paths, checkpoint : Branch, done : SUBSET Works]]
        /\ coding'[r].pc = "parking" /\ coding'[r].checkpoint = git.local
        /\ coding'[r].path = coding[r].path /\ coding'[r].done = coding[r].done
        /\ \A s \in Runs \ {r} : coding'[s] = coding[s]
    BY <2>1, RunFacts DEF Live
  <2>3. Typed'
    BY <1>1, <2>1, <2>2, RunFacts DEF Typed
  <2>4. BranchGrows /\ TrackingHeld'
    BY <1>1, <2>1, RunFacts DEF BranchGrows, TrackingHeld
  <2>5. coding[r].done = git.local /\ (rewrites = 0 => git.remote # NoBranch /\ git.local \subseteq git.remote)
    BY <2>1, RunFacts DEF RunHeld, At
  <2>6. RunHeld(r)'
    BY <1>1, <1>2, <2>1, <2>2, <2>5 DEF RunHeld, At, Live, here, commits
  <2> QED
    BY <1>1, <2>1, <2>2, <2>3, <2>4, <2>6, OthersAside, RunStepKeeps
<1> QED
  BY <1>3, <1>4, <1>5, <1>6 DEF CheckpointCommits

--------------------------------------------------------------------------------
(* Worktrees made and removed *)

LEMMA Fetched ==
    ASSUME CodingInv, NEW r \in Runs
    PROVE  /\ fetched \in [remote : Branch, local : Branch, tracking : Branch]
           /\ fetched.remote = git.remote /\ fetched.local = git.local /\ fetched.tracking = git.remote
BY RunFacts DEF fetched

LEMMA WorktreeAdded ==
    ASSUME CodingInv, NEW r \in Runs, NEW n \in Paths, addWorktree(r, n)
    PROVE  /\ tree' \in [Runs -> [Paths -> [there : BOOLEAN, dirty : SUBSET Works]]]
           /\ tree'[r][n].dirty = {}
           /\ \A s \in Runs \ {r} : tree'[s] = tree[s]
<1>1. Fresh \in [there : BOOLEAN, dirty : SUBSET Works] /\ Fresh.dirty = {}
  BY DEF Fresh
<1> QED
  BY <1>1, RunFacts DEF addWorktree

\* What a run knows of itself when it begins to work.
begins(r, n, head) == [coding EXCEPT ![r].pc = "working", ![r].path = n, ![r].done = head]

LEMMA Begun ==
    ASSUME CodingInv, NEW r \in Runs, NEW n \in Paths, NEW head \in SUBSET Works,
           coding' = begins(r, n, head)
    PROVE  /\ coding' \in [Runs -> [pc : Live \cup Aside \cup {"preparing", "parked", "interrupted"},
                                    path : Paths, checkpoint : Branch, done : SUBSET Works]]
           /\ coding'[r].pc = "working" /\ coding'[r].path = n /\ coding'[r].done = head
           /\ coding'[r].checkpoint = coding[r].checkpoint
           /\ \A s \in Runs \ {r} : coding'[s] = coding[s]
<1> DEFINE Course == [pc : Live \cup Aside \cup {"preparing", "parked", "interrupted"},
                      path : Paths, checkpoint : Branch, done : SUBSET Works]
           next == [coding[r] EXCEPT !.pc = "working", !.path = n, !.done = head]
<1>1. coding \in [Runs -> Course]
  BY RunFacts
<1>2. /\ next \in Course /\ next.pc = "working" /\ next.path = n /\ next.done = head
      /\ next.checkpoint = coding[r].checkpoint
  BY <1>1 DEF Live
<1> HIDE DEF Course
<1>3. coding' = [coding EXCEPT ![r] = next]
  BY <1>1 DEF begins, Course
<1> HIDE DEF next
<1>4. /\ coding' \in [Runs -> Course] /\ coding'[r] = next
      /\ \A s \in Runs \ {r} : coding'[s] = coding[s]
  BY <1>1, <1>2, <1>3
<1>5. /\ coding'[r].pc = "working" /\ coding'[r].path = n /\ coding'[r].done = head
      /\ coding'[r].checkpoint = coding[r].checkpoint
  BY <1>2, <1>4
<1> QED BY <1>4, <1>5 DEF Course

\* A run that has its worktree on a branch it starts from has done what the branch holds.
LEMMA Started ==
    ASSUME CodingAssumption, CodingInv, NEW r \in Runs, ~At(r, Live \cup {"failed"}),
           \A s \in Runs \ {r} : At(s, Aside),
           NEW n \in Paths, NEW head \in SUBSET Works, addWorktree(r, n),
           git' = [fetched EXCEPT !.local = head],
           coding' = begins(r, n, head),
           UNCHANGED <<crashes, rewrites>>,
           git.local # NoBranch => git.local \subseteq head,
           commits(coding[r].checkpoint) \subseteq head
    PROVE  CodingInv'
<1>1. /\ git' \in [remote : Branch, local : Branch, tracking : Branch]
      /\ git'.remote = git.remote /\ git'.local = head /\ git'.tracking = git.remote
  BY Fetched DEF Branch
<1>2. head # NoBranch
  BY DEF CodingAssumption
<1>3. /\ coding' \in [Runs -> [pc : Live \cup Aside \cup {"preparing", "parked", "interrupted"},
                               path : Paths, checkpoint : Branch, done : SUBSET Works]]
      /\ coding'[r].pc = "working" /\ coding'[r].path = n /\ coding'[r].done = head
      /\ coding'[r].checkpoint = coding[r].checkpoint
      /\ \A s \in Runs \ {r} : coding'[s] = coding[s]
  BY Begun
<1>4. Typed'
  BY <1>1, <1>3, WorktreeAdded, RunFacts DEF Typed
<1>5. BranchGrows /\ TrackingHeld'
  BY <1>1, <1>2 DEF BranchGrows, TrackingHeld
<1>6. RunHeld(r)'
  <2>1. rewrites = 0 /\ coding[r].checkpoint # NoBranch =>
          git.remote # NoBranch /\ coding[r].checkpoint \subseteq git.remote
    BY RunFacts DEF RunHeld
  <2>2. here(r)'.dirty = {}
    BY <1>3, WorktreeAdded DEF here
  <2> QED
    BY <1>1, <1>2, <1>3, <2>1, <2>2 DEF RunHeld, At, Live, commits
<1> QED
  BY <1>3, <1>4, <1>5, <1>6, WorktreeAdded, RunStepKeeps

\* A run that is not restored is left where it is, whatever was fetched or added for it.
LEMMA LeftAsItIs ==
    ASSUME CodingInv, NEW r \in Runs, ~At(r, Live \cup {"failed"}),
           \A s \in Runs \ {r} : At(s, Aside) /\ tree'[s] = tree[s],
           tree' \in [Runs -> [Paths -> [there : BOOLEAN, dirty : SUBSET Works]]],
           git' = fetched, NEW pc \in {coding[r].pc, "preparing"}, coding' = goTo(r, pc),
           UNCHANGED <<crashes, rewrites>>
    PROVE  CodingInv'
<1>1. coding' \in [Runs -> [pc : Live \cup Aside \cup {"preparing", "parked", "interrupted"},
                           path : Paths, checkpoint : Branch, done : SUBSET Works]]
  <2>1. coding[r].pc \in Live \cup Aside \cup {"preparing", "parked", "interrupted"}
    BY RunFacts
  <2> QED
    BY <2>1, RunFacts DEF goTo
<1>2. Typed'
  BY <1>1, Fetched, RunFacts DEF Typed
<1>3. BranchGrows /\ TrackingHeld'
  BY Fetched DEF BranchGrows, TrackingHeld
<1>4. RunHeld(r)'
  <2>1. /\ coding'[r].pc = pc /\ coding'[r].checkpoint = coding[r].checkpoint
        /\ coding'[r].done = coding[r].done
    BY PcOf
  <2>2. pc \notin Live \cup {"failed"}
    BY DEF At, Live
  <2> QED
    BY <2>1, <2>2, Fetched, RunFacts DEF RunHeld, At, Live
<1> QED
  BY <1>2, <1>3, <1>4, PcOf, RunStepKeeps

LEMMA WorkspacePrepared ==
    ASSUME CodingAssumption, CodingInv, NEW r \in Runs, ~At(r, Live \cup {"failed"}),
           \A s \in Runs \ {r} : At(s, Aside), coding[r].checkpoint = NoBranch,
           NEW pc \in {coding[r].pc, "preparing"}, prepareWorkspace(r, pc),
           UNCHANGED <<crashes, rewrites>>
    PROVE  CodingInv'
<1>1. CASE addable(r, 0)
  <2>1. 0 \in Paths
    BY DEF Paths, CodingAssumption
  <2>2. git.local = NoBranch /\ commits(coding[r].checkpoint) = {}
    BY <1>1 DEF addable, commits
  <2>3. /\ git' = [fetched EXCEPT !.local = {}] /\ addWorktree(r, 0)
        /\ coding' = begins(r, 0, {})
    BY <1>1 DEF prepareWorkspace, begins
  <2> QED
    BY <2>1, <2>2, <2>3, Started
<1>2. CASE ~addable(r, 0)
  <2>1. git' = fetched /\ coding' = goTo(r, pc) /\ UNCHANGED tree
    BY <1>2 DEF prepareWorkspace
  <2> QED
    BY <2>1, LeftAsItIs, RunFacts
<1> QED
  BY <1>1, <1>2

LEMMA PrepareStep ==
    ASSUME CodingAssumption, CodingInv, NEW r \in Runs, Prepare(r)
    PROVE  CodingInv'
<1>1. /\ At(r, {"queued"}) /\ prepareWorkspace(r, "preparing") /\ UNCHANGED <<crashes, rewrites>>
      /\ \A s \in Runs \ {r} : At(s, Aside)
  BY DEF Prepare, Calm, Aside
<1>2. coding[r].checkpoint = NoBranch /\ ~At(r, Live \cup {"failed"})
  BY <1>1, RunFacts DEF RunHeld, At, Live
<1> QED
  BY <1>1, <1>2, WorkspacePrepared

LEMMA ResumeStep ==
    ASSUME CodingAssumption, CodingInv, NEW r \in Runs, Resume(r)
    PROVE  CodingInv'
<1>1. /\ At(r, {"parked", "interrupted"}) /\ UNCHANGED <<crashes, rewrites>>
      /\ ~At(r, Aside) /\ ~At(r, Live \cup {"failed"})
  BY DEF Resume, Calm, At, Aside, Live
<1>2. \A s \in Runs \ {r} : At(s, Aside)
  BY <1>1, OthersAside
<1>3. CASE coding[r].checkpoint = NoBranch
  <2>1. prepareWorkspace(r, coding[r].pc)
    BY <1>3 DEF Resume, restoreWorkspaceIfNeeded
  <2> QED
    BY <1>1, <1>2, <1>3, <2>1, WorkspacePrepared
<1>4. CASE coding[r].checkpoint # NoBranch
  <2>1. restore(r)
    BY <1>4 DEF Resume, restoreWorkspaceIfNeeded
  <2>2. coding = goTo(r, coding[r].pc)
    BY RunFacts DEF goTo
  <2>3. CASE ~contained(r)
    <3>1. git' = fetched /\ UNCHANGED <<tree, coding>>
      BY <2>1, <2>3 DEF restore
    <3> QED
      BY <1>1, <1>2, <2>2, <3>1, LeftAsItIs, RunFacts
  <2>4. CASE contained(r)
    <3>1. PICK n \in freshWorktreePath(r) :
            /\ addWorktree(r, n)
            /\ IF mergeable
               THEN LET head == commits(git.local) \cup git.remote IN
                    /\ git' = [fetched EXCEPT !.local = head]
                    /\ coding' = begins(r, n, head)
               ELSE git' = fetched /\ UNCHANGED coding
      BY <2>1, <2>4 DEF restore, begins
    <3>2. n \in Paths
      BY DEF freshWorktreePath
    <3>3. CASE ~mergeable
      BY <1>1, <1>2, <2>2, <3>1, <3>2, <3>3, LeftAsItIs, WorktreeAdded
    <3>4. CASE mergeable
      <4> DEFINE head == commits(git.local) \cup git.remote
      <4>1. git.remote \in SUBSET Works /\ commits(git.local) \in SUBSET Works
        BY <2>4, RunFacts DEF contained, commits, Branch
      <4>2. /\ head \in SUBSET Works
            /\ git.local # NoBranch => git.local \subseteq head
            /\ commits(coding[r].checkpoint) \subseteq head
        BY <1>4, <2>4, <4>1 DEF contained, commits
      <4>3. /\ git' = [fetched EXCEPT !.local = head]
            /\ coding' = begins(r, n, head)
        BY <3>1, <3>4
      <4> HIDE DEF head
      <4> QED
        BY <1>1, <1>2, <3>1, <3>2, <4>2, <4>3, Started
    <3> QED
      BY <3>3, <3>4
  <2> QED
    BY <2>3, <2>4
<1> QED
  BY <1>3, <1>4

LEMMA FinalizeStep ==
    ASSUME CodingAssumption, CodingInv, NEW r \in Runs, Finalize(r)
    PROVE  CodingInv'
<1>1. At(r, {"working"}) /\ ~At(r, Aside) /\ UNCHANGED <<git, crashes, rewrites>>
  BY DEF Finalize, Calm, At, Aside
<1>2. PICK failed \in BOOLEAN :
        cleanup(r, failed) /\ coding' = goTo(r, IF failed THEN "failed" ELSE "completed")
  BY DEF Finalize
<1>3. CASE failed
  <2>1. coding' = goTo(r, "failed") /\ UNCHANGED tree
    BY <1>2, <1>3 DEF cleanup
  <2>3. /\ coding'[r].pc = "failed" /\ coding'[r].checkpoint = coding[r].checkpoint
        /\ coding'[r].done = coding[r].done /\ coding'[r].path = coding[r].path
    BY <2>1, PcOf
  <2>4. here(r)' = here(r)
    BY <2>1, <2>3 DEF here
  <2>2. RunHeld(r)'
    BY <1>1, <2>3, <2>4, RunFacts DEF RunHeld, At, Live
  <2> QED
    BY <1>1, <2>1, <2>2, OnlyPcMoves DEF Aside
<1>4. CASE ~failed
  <2>1. coding' = goTo(r, "completed") /\ tree' = [tree EXCEPT ![r][coding[r].path] = NoTree]
    BY <1>2, <1>4 DEF cleanup
  <2>2. coding' \in [Runs -> [pc : Live \cup Aside \cup {"preparing", "parked", "interrupted"},
                             path : Paths, checkpoint : Branch, done : SUBSET Works]]
    BY <2>1, GoToTyped DEF Aside
  <2>3. /\ tree' \in [Runs -> [Paths -> [there : BOOLEAN, dirty : SUBSET Works]]]
        /\ \A s \in Runs \ {r} : tree'[s] = tree[s]
    BY <2>1, RunFacts DEF NoTree
  <2>4. Typed'
    BY <1>1, <2>2, <2>3, RunFacts DEF Typed
  <2>5. BranchGrows /\ TrackingHeld'
    BY <1>1, RunFacts DEF BranchGrows, TrackingHeld
  <2>6. RunHeld(r)'
    BY <1>1, <2>1, PcOf, RunFacts DEF RunHeld, At, Live
  <2> QED
    BY <1>1, <2>1, <2>3, <2>4, <2>5, <2>6, PcOf, OthersAside, RunStepKeeps
<1> QED
  BY <1>3, <1>4

--------------------------------------------------------------------------------
(* The rest of the world *)

LEMMA CrashStep ==
    ASSUME CodingInv, CrashCoding
    PROVE  CodingInv'
<1>1. Typed /\ OneAtATime /\ TrackingHeld /\ RunsHeld
  BY DEF CodingInv
<1>2. /\ crashes' = crashes + 1 /\ rewrites' = rewrites
      /\ coding' = [r \in Runs |-> [coding[r] EXCEPT !.pc = IF @ \in Live THEN "interrupted" ELSE @]]
  BY DEF CrashCoding
<1>3. /\ git' \in [remote : Branch, local : Branch, tracking : Branch]
      /\ git'.remote = git.remote
      /\ git'.local = git.local \/ git'.local = NoBranch
      /\ git'.tracking = git.tracking \/ git'.tracking = NoBranch
      /\ tree' \in [Runs -> [Paths -> [there : BOOLEAN, dirty : SUBSET Works]]]
  <2>1. CASE UNCHANGED <<git, tree>>
    BY <1>1, <2>1 DEF Typed
  <2>2. CASE /\ git' = [git EXCEPT !.local = NoBranch, !.tracking = NoBranch]
             /\ tree' = [r \in Runs |-> [n \in Paths |-> NoTree]]
    <3>1. NoTree \in [there : BOOLEAN, dirty : SUBSET Works]
      BY DEF NoTree
    <3>2. tree' \in [Runs -> [Paths -> [there : BOOLEAN, dirty : SUBSET Works]]]
      BY <2>2, <3>1
    <3> QED
      BY <1>1, <2>2, <3>2 DEF Typed, Branch
  <2> QED
    BY <2>1, <2>2 DEF CrashCoding
<1>4. ASSUME NEW r \in Runs
      PROVE  /\ coding'[r] \in [pc : Live \cup Aside \cup {"preparing", "parked", "interrupted"},
                                path : Paths, checkpoint : Branch, done : SUBSET Works]
             /\ coding'[r].pc = IF coding[r].pc \in Live THEN "interrupted" ELSE coding[r].pc
             /\ coding'[r].checkpoint = coding[r].checkpoint /\ coding'[r].done = coding[r].done
  <2>1. coding[r] \in [pc : Live \cup Aside \cup {"preparing", "parked", "interrupted"},
                       path : Paths, checkpoint : Branch, done : SUBSET Works]
    BY <1>1 DEF Typed
  <2> QED
    BY <1>2, <2>1
<1>5. coding' \in [Runs -> [pc : Live \cup Aside \cup {"preparing", "parked", "interrupted"},
                           path : Paths, checkpoint : Branch, done : SUBSET Works]]
  <2>1. DOMAIN coding' = Runs /\ coding' = [r \in Runs |-> coding'[r]]
    BY <1>2
  <2> QED
    BY <1>4, <2>1
<1>6. Typed'
  BY <1>1, <1>2, <1>3, <1>5 DEF Typed
<1>7. OneAtATime'
  BY <1>1, <1>4 DEF OneAtATime, At, Aside, Live
<1>8. TrackingHeld'
  BY <1>1, <1>2, <1>3 DEF TrackingHeld
<1>9. RunsHeld'
  <2> SUFFICES ASSUME NEW r \in Runs PROVE RunHeld(r)'
    BY DEF RunsHeld
  <2>1. RunHeld(r)
    BY <1>1 DEF RunsHeld
  <2>2. coding'[r].pc \notin Live /\ crashes' # 0
    BY <1>1, <1>2, <1>4 DEF Typed, Live
  <2>3. coding'[r].pc \in {"queued", "parked"} => coding'[r].pc = coding[r].pc
    BY <1>4
  <2> QED
    BY <1>2, <1>3, <1>4, <2>1, <2>2, <2>3 DEF RunHeld, At, Live
<1> QED
  BY <1>6, <1>7, <1>8, <1>9 DEF CodingInv

LEMMA OthersSteps ==
    ASSUME CodingAssumption, CodingInv, SomebodyPushes \/ SomebodyRewrites
    PROVE  CodingInv'
<1>1. Typed /\ OneAtATime /\ TrackingHeld /\ RunsHeld
  BY DEF CodingInv
<1>2. UNCHANGED <<tree, coding, crashes>> /\ git.remote # NoBranch
  BY DEF SomebodyPushes, SomebodyRewrites, Calm
<1>3. /\ git' \in [remote : Branch, local : Branch, tracking : Branch]
      /\ git'.local = git.local /\ git'.tracking = git.tracking
      /\ rewrites' \in Nat
      /\ rewrites' = 0 => rewrites = 0 /\ git'.remote # NoBranch /\ git.remote \subseteq git'.remote
  <2>1. CASE SomebodyPushes
    <3>1. PICK w \in Works : git' = [git EXCEPT !.remote = @ \cup {w}]
      BY <2>1 DEF SomebodyPushes
    <3>2. git.remote \in SUBSET Works
      BY <1>1, <1>2 DEF Typed, Branch
    <3>3. git.remote \cup {w} \in SUBSET Works /\ git.remote \cup {w} # NoBranch
      BY <3>2 DEF CodingAssumption
    <3> QED
      BY <1>1, <2>1, <3>1, <3>3 DEF SomebodyPushes, Calm, Typed, Branch
  <2>2. CASE SomebodyRewrites
    <3>1. PICK other \in {NoBranch, {}} : git' = [git EXCEPT !.remote = other]
      BY <2>2 DEF SomebodyRewrites
    <3>2. rewrites' = rewrites + 1 /\ rewrites' # 0 /\ rewrites' \in Nat
      BY <1>1, <2>2 DEF SomebodyRewrites, Typed
    <3> QED
      BY <1>1, <3>1, <3>2 DEF Typed, Branch
  <2> QED
    BY <2>1, <2>2
<1>4. Typed'
  BY <1>1, <1>2, <1>3 DEF Typed
<1>5. OneAtATime'
  BY <1>1, <1>2 DEF OneAtATime, At
<1>6. TrackingHeld'
  BY <1>1, <1>3 DEF TrackingHeld
<1>7. RunsHeld'
  <2> SUFFICES ASSUME NEW r \in Runs PROVE RunHeld(r)'
    BY DEF RunsHeld
  <2>1. RunHeld(r)
    BY <1>1 DEF RunsHeld
  <2>2. here(r)' = here(r)
    BY <1>2 DEF here
  <2> QED
    BY <1>2, <1>3, <2>1, <2>2 DEF RunHeld, At
<1> QED
  BY <1>4, <1>5, <1>6, <1>7 DEF CodingInv

--------------------------------------------------------------------------------
(* The theorem *)

LEMMA InvAtFirst == CodingAssumption /\ CodingInit => CodingInv
<1> SUFFICES ASSUME CodingAssumption, CodingInit PROVE CodingInv
  OBVIOUS
<1>1. 0 \in Paths
  BY DEF Paths, CodingAssumption
<1>2. Typed
  BY <1>1 DEF CodingInit, Typed, NoTree, Branch, Aside
<1>3. \A r \in Runs : coding[r].pc = "queued" /\ coding[r].checkpoint = NoBranch
  BY DEF CodingInit
<1>4. OneAtATime
  BY <1>3 DEF OneAtATime, At, Aside
<1>5. TrackingHeld
  BY DEF CodingInit, TrackingHeld
<1>6. RunsHeld
  BY <1>3 DEF RunsHeld, RunHeld, At, Live
<1> QED
  BY <1>2, <1>4, <1>5, <1>6 DEF CodingInv

LEMMA InvStays == CodingAssumption /\ CodingInv /\ [CodingNext]_codingVars => CodingInv'
<1> SUFFICES ASSUME CodingAssumption, CodingInv, [CodingNext]_codingVars PROVE CodingInv'
  OBVIOUS
<1>1. CASE \E r \in Runs : CodingStep(r)
  <2>1. PICK r \in Runs : CodingStep(r)
    BY <1>1
  <2> QED
    BY <2>1, PrepareStep, EditStep, ActionSteps, PcSteps, CheckpointSteps, ResumeStep,
       FinalizeStep DEF CodingStep
<1>2. CASE CrashCoding \/ SomebodyPushes \/ SomebodyRewrites
  BY <1>2, CrashStep, OthersSteps
<1>3. CASE UNCHANGED codingVars
  BY <1>3 DEF codingVars, CodingInv, Typed, OneAtATime, TrackingHeld, RunsHeld, RunHeld, At, here
<1> QED
  BY <1>1, <1>2, <1>3 DEF CodingNext

LEMMA InvGives == CodingInv => WorkSurvives
<1> SUFFICES ASSUME CodingInv PROVE WorkSurvives
  OBVIOUS
<1>1. ASSUME NEW r \in Runs PROVE RunHeld(r)
  BY DEF CodingInv, RunsHeld
<1>2. ParkedWorkDurable
  BY <1>1 DEF ParkedWorkDurable, RunHeld, parked, At, commits
<1>3. ParkedRunRestorable
  BY <1>1 DEF ParkedRunRestorable, RunHeld, parked, At, contained, mergeable
<1>4. RestoredAtCheckpoint
  BY <1>1 DEF RestoredAtCheckpoint, RunHeld
<1>5. FailedWorkKept
  BY <1>1 DEF FailedWorkKept, RunHeld
<1> QED
  BY <1>2, <1>3, <1>4, <1>5 DEF WorkSurvives

\* The work of a run is in the remote branch while it is suspended, and its answer can
\* restore it there (unless somebody rewrote the branch); a run that goes on has
\* everything its checkpoint holds, and one that failed has left its work on disk: for any
\* number of runs of an item, of restarts on this or another machine, of restored worktrees.
THEOREM WorkIsSafe ==
    ASSUME CodingAssumption
    PROVE  CodingSpec => []WorkSurvives
<1>1. CodingInit => CodingInv
  BY InvAtFirst
<1>2. CodingInv /\ [CodingNext]_codingVars => CodingInv'
  BY InvStays
<1> QED
  BY <1>1, <1>2, InvGives, PTL DEF CodingSpec

--------------------------------------------------------------------------------
(***** Least and greatest *****************************************************)

LEMMA LessWellFounded ==
    /\ IsWellFoundedOn(OpToRel(<, Nat), Nat)
    /\ \A m, n \in Nat : m < n => <<m, n>> \in OpToRel(<, Nat)
<1>1. \A m, n \in Nat : m < n => <<m, n>> \in OpToRel(<, Nat)
  BY DEF OpToRel
<1> QED
  BY <1>1, NatLessThanWellFounded

LEMMA Least ==
    ASSUME NEW S, S \subseteq Nat, S # {}
    PROVE  Min(S) \in S /\ \A k \in S : Min(S) <= k
<1> DEFINE Less == OpToRel(<, Nat)
<1>1. IsWellFoundedOn(Less, Nat)
  BY LessWellFounded
<1>2. \A m, n \in Nat : m < n => <<m, n>> \in Less
  BY LessWellFounded
<1> HIDE DEF Less
<1>3. PICK x \in S : \A y \in S : ~(y < x)
  <2>1. \E x \in S : \A y \in S : ~(<<y, x>> \in Less)
    BY <1>1, WFMin, Zenon
  <2> QED BY <1>2, <2>1
<1>4. \E m \in S : \A k \in S : m <= k
  BY <1>3
<1> QED
  BY <1>4 DEF Min

LEMMA Greatest ==
    ASSUME NEW n \in Nat, NEW S, S \subseteq 1..n, S # {}
    PROVE  Max(S) \in S /\ \A k \in S : k <= Max(S)
<1> DEFINE Bounds == {b \in Nat : \A k \in S : k <= b}
           m == Min(Bounds)
<1>1. n \in Bounds
  OBVIOUS
<1>2. m \in Bounds /\ \A b \in Bounds : m <= b
  BY <1>1, Least
<1> HIDE DEF m
<1>3. m \in S
  <2>1. CASE m = 0
    <3>1. PICK k \in S : k \in 1..n
      OBVIOUS
    <3>2. k <= 0
      BY <1>2, <2>1
    <3> QED BY <3>1, <3>2
  <2>2. CASE m # 0
    <3>1. m - 1 \in Nat /\ m - 1 \notin Bounds
      BY <1>2, <2>2
    <3>2. PICK k \in S : ~(k <= m - 1)
      BY <3>1
    <3>3. k = m
      BY <1>2, <3>1, <3>2
    <3> QED BY <3>3
  <2> QED BY <2>1, <2>2
<1>4. \E x \in S : \A k \in S : k <= x
  BY <1>2, <1>3
<1> QED
  BY <1>4 DEF Max

--------------------------------------------------------------------------------
(***** The trackers ***********************************************************)

\* The labels of the workflow states are names of their own; a page is a number.
TrackerAssumption ==
    /\ StateLabels \in Seq(STRING) /\ {"claim", "user"} \cap Range(StateLabels) = {}
    /\ Page \in Nat

Labels == Range(StateLabels) \cup {"claim", "user"}
Ops == {"claim", "release", "transition"}
Places == {"idle", "first", "comments", "label", "labels", "marker", "comment", "post"}
Call == [op : Ops \cup {"none"}, at : Places, seen : SUBSET Labels, target : States, alone : BOOLEAN]
Comment == [kind : {"text", "claim", "release"}, who : Claimants \cup {People}]

Issue == [labels : SUBSET Labels, state : States, comments : Seq(Comment)]

TrackerTyped ==
    /\ issue \in Issue
    /\ item \in [Claimants -> SUBSET Labels]
    /\ call \in [Claimants -> Call]
    /\ \A c \in Claimants : call[c].at = "labels" => call[c].target \in Range(StateLabels)

\* The claim that was answered last is what the latest marker says.
GrantHeld ==
    adapter \in {"github", "projects"} /\ Len(issue.comments) <= Page
    /\ last[1].op = "claim" /\ last[1].outcome = "claimed"
        => findLatestClaimMarker(issue.comments) = [kind |-> "claim", who |-> last[1].who]

\* Whoever is alone is.
AloneMeansAlone ==
    \A c, d \in Claimants : c # d /\ call[c].alone => ~disturbs(call[d].op, call[c].op)

\* The state labels a transition has read, but for those it has removed, are those there
\* are while no other transition is under way.
SeenIsThere ==
    adapter = "github" =>
        \A c \in Claimants :
            call[c].op = "transition" /\ call[c].at = "labels" /\ call[c].alone =>
                \A l \in Range(StateLabels) : l \in issue.labels <=> l \in call[c].seen

TrackerInv == TrackerTyped /\ GrantHeld /\ ClaimRetryHeld /\ AloneMeansAlone /\ SeenIsThere

--------------------------------------------------------------------------------
(* Comments *)

LEMMA LatestOfAppended ==
    ASSUME NEW comments \in Seq(Comment), NEW m \in Comment
    PROVE  findLatestClaimMarker(Append(comments, m)) =
             IF isMarker(m) THEN m ELSE findLatestClaimMarker(comments)
<1> DEFINE new == Append(comments, m)
           n == Len(comments)
           before == {k \in DOMAIN comments : isMarker(comments[k])}
           after == {k \in DOMAIN new : isMarker(new[k])}
<1>1. n \in Nat /\ DOMAIN comments = 1..n /\ DOMAIN new = 1..(n + 1) /\ new[n + 1] = m
      /\ \A k \in 1..n : new[k] = comments[k]
  OBVIOUS
<1>2. before \subseteq 1..n /\ after \subseteq 1..(n + 1) /\ (n + 1) \in Nat
  BY <1>1
<1> HIDE DEF new, n
<1>3. CASE isMarker(m)
  <2>1. (n + 1) \in after
    BY <1>1, <1>3
  <2>2. Max(after) \in after /\ (n + 1) <= Max(after)
    BY <1>2, <2>1, Greatest
  <2>3. Max(after) = n + 1
    BY <1>1, <1>2, <2>2
  <2>4. findLatestClaimMarker(new) = m
    BY <1>1, <2>1, <2>3 DEF findLatestClaimMarker
  <2> QED BY <1>3, <2>4 DEF new
<1>4. CASE ~isMarker(m)
  <2>1. after = before
    <3>1. \A k \in 1..(n + 1) : k \in 1..n \/ k = n + 1
      BY <1>1
    <3>2. \A k \in 1..n : k \in 1..(n + 1)
      BY <1>1
    <3> QED BY <1>1, <1>4, <3>1, <3>2
  <2>2. CASE before = {}
    BY <1>4, <2>1, <2>2 DEF findLatestClaimMarker, new
  <2>3. CASE before # {}
    <3>1. Max(before) \in before
      BY <1>1, <1>2, <2>3, Greatest
    <3>2. new[Max(after)] = comments[Max(before)]
      BY <1>1, <2>1, <3>1
    <3> QED BY <1>4, <2>1, <2>3, <3>2 DEF findLatestClaimMarker, new
  <2> QED BY <2>2, <2>3
<1> QED
  BY <1>3, <1>4

\* The comments that fit a page are all there are.
LEMMA AllFetched ==
    ASSUME TrackerAssumption, NEW comments \in Seq(Comment), Len(comments) <= Page,
           adapter \in {"github", "projects"}
    PROVE  fetchComments(comments) = comments
<1>1. Len(comments) \in Nat /\ Page \in Nat
  BY DEF TrackerAssumption
<1>2. SubSeq(comments, 1, Len(comments)) = comments
  OBVIOUS
<1>3. Len(comments) < Page \/ Len(comments) = Page
  BY <1>1
<1>4. Len(comments) = Page => Len(comments) - Page + 1 = 1
  BY <1>1
<1> QED
  BY <1>1, <1>2, <1>3, <1>4 DEF fetchComments

--------------------------------------------------------------------------------
(* Requests *)

\* What a request may do to the issue.
Labelled == \E labels \in SUBSET Labels :
    setLabels(labels) /\ (adapter # "linear" /\ "user" \in issue.labels => "user" \in labels)
Commented(c) == \E kind \in {"claim", "release", "text"} : addComment(kind, c)
Writes(c) == issue' = issue \/ Labelled \/ (\E s \in States : setState(s)) \/ Commented(c)

\* The call goes on, or is answered.
GoesOn(c) ==
    /\ last' = last
    /\ \E entry \in Call :
         /\ call' = [call EXCEPT ![c] = entry]
         /\ entry.op = call[c].op /\ entry.target = call[c].target /\ entry.alone = call[c].alone
         /\ entry.at = "labels" => entry.target \in Range(StateLabels)
Answers(c) == \E outcome \in {"claimed", "already-claimed", "done", "error"} : answer(c, outcome)

LEMMA GotoGoesOn ==
    ASSUME TrackerTyped, NEW c \in Claimants, NEW where \in Places, where # "labels",
           goto(c, where), last' = last
    PROVE  GoesOn(c)
<1> DEFINE entry == [call[c] EXCEPT !.at = where]
<1>1. call[c] \in Call
  BY DEF TrackerTyped
<1>2. entry \in Call /\ entry.op = call[c].op /\ entry.target = call[c].target /\ entry.alone = call[c].alone
      /\ entry.at = where
  BY <1>1 DEF Call
<1>3. call' = [call EXCEPT ![c] = entry]
  BY DEF goto
<1> QED
  BY <1>2, <1>3 DEF GoesOn

LEMMA LabelsWritten ==
    ASSUME TrackerAssumption, TrackerTyped, NEW l \in Range(StateLabels) \cup {"claim"}
    PROVE  /\ setLabels(issue.labels \cup {l}) => Labelled
           /\ setLabels(issue.labels \ {l}) => Labelled
<1>1. issue.labels \subseteq Labels /\ l \in Labels /\ l # "user"
  BY DEF TrackerTyped, TrackerAssumption, Labels, Issue
<1>2. issue.labels \cup {l} \in SUBSET Labels /\ issue.labels \ {l} \in SUBSET Labels
  BY <1>1
<1> QED
  BY <1>1, <1>2 DEF Labelled

\* What the requests are put together from.
LEMMA Requested ==
    ASSUME TrackerAssumption, TrackerTyped, NEW c \in Claimants
    PROVE  /\ issue' = issue => Writes(c)
           /\ setLabels(issue.labels \cup {"claim"}) => Writes(c)
           /\ setLabels(issue.labels \ {"claim"}) => Writes(c)
           /\ setState(call[c].target) => Writes(c)
           /\ addComment("claim", c) => Writes(c)
           /\ addComment("release", c) => Writes(c)
           /\ addComment("text", c) => Writes(c)
           /\ last' = last =>
                /\ goto(c, "label") => GoesOn(c)
                /\ goto(c, "comments") => GoesOn(c)
                /\ goto(c, "comment") => GoesOn(c)
                /\ goto(c, "marker") => GoesOn(c)
                /\ goto(c, "post") => GoesOn(c)
           /\ answer(c, "claimed") => Answers(c)
           /\ answer(c, "already-claimed") => Answers(c)
           /\ answer(c, "done") => Answers(c)
           /\ answer(c, "error") => Answers(c)
<1>1. call[c].target \in States
  BY DEF TrackerTyped, Call, Issue
<1>2. /\ setLabels(issue.labels \cup {"claim"}) => Writes(c)
      /\ setLabels(issue.labels \ {"claim"}) => Writes(c)
  BY LabelsWritten DEF Writes
<1>3. /\ issue' = issue => Writes(c)
      /\ setState(call[c].target) => Writes(c)
      /\ addComment("claim", c) => Writes(c)
      /\ addComment("release", c) => Writes(c)
      /\ addComment("text", c) => Writes(c)
  BY <1>1 DEF Writes, Commented
<1>4. last' = last =>
        /\ goto(c, "label") => GoesOn(c)
        /\ goto(c, "comments") => GoesOn(c)
        /\ goto(c, "comment") => GoesOn(c)
        /\ goto(c, "marker") => GoesOn(c)
        /\ goto(c, "post") => GoesOn(c)
  <2>1. ASSUME NEW where \in {"label", "comments", "comment", "marker", "post"}, goto(c, where), last' = last
        PROVE  GoesOn(c)
    <3>1. where \in Places /\ where # "labels"
      BY DEF Places
    <3> QED BY <2>1, <3>1, GotoGoesOn
  <2> QED BY <2>1
<1>5. /\ answer(c, "claimed") => Answers(c)
      /\ answer(c, "already-claimed") => Answers(c)
      /\ answer(c, "done") => Answers(c)
      /\ answer(c, "error") => Answers(c)
  BY DEF Answers
<1> QED
  BY <1>2, <1>3, <1>4, <1>5

LEMMA GitHubRequests ==
    ASSUME TrackerAssumption, TrackerTyped, NEW c \in Claimants,
           \/ GitHubClaim(c) \/ GitHubRelease(c) \/ GitHubTransition(c)
    PROVE  Writes(c) /\ (GoesOn(c) \/ Answers(c))
<1>1. CASE GitHubClaim(c)
  BY <1>1, Requested DEF GitHubClaim, mapNetworkError
<1>2. CASE GitHubRelease(c)
  BY <1>2, Requested DEF GitHubRelease, mapNetworkError
<1>3. CASE GitHubTransition(c)
  <2> DEFINE others == (Range(StateLabels) \ {call[c].target}) \cap call[c].seen
             native == call[c].target \in {"open", "closed"}
  <2>1. /\ call[c].target \in States /\ issue.labels \in SUBSET Labels /\ call[c].seen \in SUBSET Labels
        /\ call[c] \in Call
    BY DEF TrackerTyped, Call, Issue
  <2>2. CASE call[c].at = "first" /\ native
    BY <1>3, <2>2, Requested DEF GitHubTransition, mapNetworkError
  <2>3. CASE call[c].at = "first" /\ ~native
    <3>1. /\ call' = [call EXCEPT ![c].at = "labels", ![c].seen = issue.labels]
          /\ UNCHANGED <<issue, last>>
      BY <1>3, <2>3 DEF GitHubTransition
    <3>2. call[c].target \in Range(StateLabels)
      BY <2>1, <2>3 DEF States
    <3>3. call' = [call EXCEPT ![c] = [call[c] EXCEPT !.at = "labels", !.seen = issue.labels]]
      BY <3>1
    <3>4. GoesOn(c)
      <4> DEFINE entry == [call[c] EXCEPT !.at = "labels", !.seen = issue.labels]
      <4>1. entry \in Call /\ entry.op = call[c].op /\ entry.target = call[c].target /\ entry.alone = call[c].alone
        BY <2>1 DEF Call, Places
      <4>2. call' = [call EXCEPT ![c] = entry] /\ last' = last
        BY <3>1, <3>3
      <4> HIDE DEF entry
      <4> QED BY <3>2, <4>1, <4>2 DEF GoesOn
    <3> QED BY <3>1, <3>4, Requested
  <2>4. CASE call[c].at = "labels" /\ others # {}
    <3>1. PICK l \in others :
            \/ /\ setLabels(issue.labels \ {l})
               /\ call' = [call EXCEPT ![c].seen = @ \ {l}]
               /\ UNCHANGED last
            \/ mapNetworkError(c, setLabels(issue.labels \ {l}))
      BY <1>3, <2>4 DEF GitHubTransition
    <3>2. setLabels(issue.labels \ {l}) => Writes(c)
      BY LabelsWritten DEF Writes
    <3>3. CASE mapNetworkError(c, setLabels(issue.labels \ {l}))
      BY <3>2, <3>3, Requested DEF mapNetworkError
    <3>4. CASE setLabels(issue.labels \ {l}) /\ call' = [call EXCEPT ![c].seen = @ \ {l}] /\ UNCHANGED last
      <4> DEFINE entry == [call[c] EXCEPT !.seen = @ \ {l}]
      <4>1. entry \in Call /\ entry.op = call[c].op /\ entry.target = call[c].target /\ entry.alone = call[c].alone
            /\ entry.at = call[c].at
        BY <2>1 DEF Call
      <4>4. entry.at = "labels" => entry.target \in Range(StateLabels)
        BY <4>1 DEF TrackerTyped
      <4>2. call' = [call EXCEPT ![c] = entry]
        BY <3>4
      <4>3. GoesOn(c)
        BY <3>4, <4>1, <4>2, <4>4 DEF GoesOn
      <4> QED BY <3>2, <3>4, <4>3
    <3> QED BY <3>1, <3>3, <3>4
  <2>5. CASE call[c].at = "labels" /\ others = {}
    <3>1. call[c].target \in Range(StateLabels)
      BY <2>5 DEF TrackerTyped
    <3>2. setLabels(issue.labels) => Writes(c)
      BY <2>1 DEF Writes, Labelled
    <3>3. setLabels(issue.labels \cup {call[c].target}) => Writes(c)
      BY <3>1, LabelsWritten DEF Writes
    <3>4. CASE call[c].target \in call[c].seen
      BY <1>3, <2>5, <3>2, <3>3, <3>4, Requested DEF GitHubTransition, mapNetworkError
    <3>5. CASE call[c].target \notin call[c].seen
      BY <1>3, <2>5, <3>2, <3>3, <3>5, Requested DEF GitHubTransition, mapNetworkError
    <3> QED BY <3>4, <3>5
  <2> QED BY <1>3, <2>2, <2>3, <2>4, <2>5 DEF GitHubTransition
<1> QED
  BY <1>1, <1>2, <1>3

LEMMA ProjectsRequests ==
    ASSUME TrackerAssumption, TrackerTyped, NEW c \in Claimants,
           \/ ProjectsClaim(c) \/ ProjectsRelease(c) \/ ProjectsTransition(c)
    PROVE  Writes(c) /\ (GoesOn(c) \/ Answers(c))
BY Requested DEF ProjectsClaim, ProjectsRelease, ProjectsTransition, mapNetworkError

LEMMA JiraRequests ==
    ASSUME TrackerAssumption, TrackerTyped, NEW c \in Claimants,
           \/ JiraClaim(c) \/ JiraRelease(c) \/ JiraTransition(c)
    PROVE  Writes(c) /\ (GoesOn(c) \/ Answers(c))
BY Requested DEF JiraClaim, JiraRelease, JiraTransition, mapNetworkError

LEMMA LinearRequests ==
    ASSUME TrackerAssumption, TrackerTyped, NEW c \in Claimants, adapter = "linear",
           \/ LinearClaim(c) \/ LinearRelease(c) \/ LinearTransition(c)
    PROVE  Writes(c) /\ (GoesOn(c) \/ Answers(c))
<1>1. call[c].seen \subseteq Labels /\ issue.labels \in SUBSET Labels
  BY DEF TrackerTyped, Call, Issue
<1>2. call[c].seen \cup {"claim"} \in SUBSET Labels /\ call[c].seen \ {"claim"} \in SUBSET Labels
  BY <1>1 DEF Labels
<1>3. /\ setLabels(call[c].seen \cup {"claim"}) => Writes(c)
      /\ setLabels(call[c].seen \ {"claim"}) => Writes(c)
  BY <1>2 DEF Labelled, Writes
<1>4. (call' = [call EXCEPT ![c].at = "label", ![c].seen = issue.labels] /\ last' = last) => GoesOn(c)
  <2>1. SUFFICES ASSUME call' = [call EXCEPT ![c].at = "label", ![c].seen = issue.labels], last' = last
                 PROVE  GoesOn(c)
    OBVIOUS
  <2>2. call' = [call EXCEPT ![c] = [call[c] EXCEPT !.at = "label", !.seen = issue.labels]]
    BY <2>1
  <2> DEFINE entry == [call[c] EXCEPT !.at = "label", !.seen = issue.labels]
  <2>3. entry \in Call /\ entry.op = call[c].op /\ entry.target = call[c].target /\ entry.alone = call[c].alone
        /\ entry.at = "label"
    BY <1>1 DEF TrackerTyped, Call, Places
  <2>4. call' = [call EXCEPT ![c] = entry] /\ last' = last
    BY <2>1, <2>2
  <2> HIDE DEF entry
  <2> QED BY <2>3, <2>4 DEF GoesOn
<1>5. CASE LinearClaim(c)
  BY <1>3, <1>4, <1>5, Requested DEF LinearClaim, mapNetworkError
<1>6. CASE LinearRelease(c)
  BY <1>3, <1>4, <1>6, Requested DEF LinearRelease, mapNetworkError
<1>7. CASE LinearTransition(c)
  BY <1>7, Requested DEF LinearTransition, mapNetworkError
<1> QED
  BY <1>5, <1>6, <1>7

LEMMA RequestIs ==
    ASSUME TrackerAssumption, TrackerTyped, NEW c \in Claimants, Request(c)
    PROVE  Writes(c) /\ (GoesOn(c) \/ Answers(c)) /\ UNCHANGED <<adapter, item, begun>>
BY GitHubRequests, ProjectsRequests, JiraRequests, LinearRequests, Requested DEF Request

--------------------------------------------------------------------------------
(* What the steps keep *)

LEMMA IssueAfter ==
    ASSUME TrackerTyped
    PROVE  /\ \A labels \in SUBSET Labels : setLabels(labels) =>
                /\ issue' \in Issue /\ issue'.comments = issue.comments /\ issue'.labels = labels
                /\ issue'.state = issue.state
           /\ \A s \in States : setState(s) =>
                /\ issue' \in Issue /\ issue'.comments = issue.comments /\ issue'.labels = issue.labels
                /\ issue'.state = s
           /\ \A kind \in {"claim", "release", "text"}, who \in Claimants \cup {People} :
                addComment(kind, who) =>
                  /\ issue' \in Issue /\ issue'.labels = issue.labels /\ issue'.state = issue.state
                  /\ issue'.comments = Append(issue.comments, [kind |-> kind, who |-> who])
<1>1. issue \in Issue /\ issue.comments \in Seq(Comment)
  BY DEF TrackerTyped, Issue
<1>2. \A kind \in {"claim", "release", "text"}, who \in Claimants \cup {People} :
        addComment(kind, who) =>
          /\ issue' \in Issue /\ issue'.labels = issue.labels /\ issue'.state = issue.state
          /\ issue'.comments = Append(issue.comments, [kind |-> kind, who |-> who])
  <2> SUFFICES ASSUME NEW kind \in {"claim", "release", "text"}, NEW who \in Claimants \cup {People},
                      addComment(kind, who)
               PROVE  /\ issue' \in Issue /\ issue'.labels = issue.labels /\ issue'.state = issue.state
                      /\ issue'.comments = Append(issue.comments, [kind |-> kind, who |-> who])
    OBVIOUS
  <2> DEFINE new == Append(issue.comments, [kind |-> kind, who |-> who])
  <2>1. issue' = [issue EXCEPT !.comments = new]
    BY DEF addComment
  <2>2. [kind |-> kind, who |-> who] \in Comment
    BY DEF Comment
  <2>3. new \in Seq(Comment)
    BY <1>1, <2>2
  <2> HIDE DEF new
  <2>4. issue' \in Issue /\ issue'.labels = issue.labels /\ issue'.state = issue.state
        /\ issue'.comments = new
    BY <1>1, <2>1, <2>3 DEF Issue
  <2> QED BY <2>4 DEF new
<1>3. \A labels \in SUBSET Labels : setLabels(labels) =>
        /\ issue' \in Issue /\ issue'.comments = issue.comments /\ issue'.labels = labels
        /\ issue'.state = issue.state
  BY <1>1 DEF setLabels, Issue
<1>4. \A s \in States : setState(s) =>
        /\ issue' \in Issue /\ issue'.comments = issue.comments /\ issue'.labels = issue.labels
        /\ issue'.state = s
  BY <1>1 DEF setState, Issue
<1> QED
  BY <1>2, <1>3, <1>4

LEMMA WrittenTyped ==
    ASSUME TrackerTyped, NEW c \in Claimants, Writes(c)
    PROVE  /\ issue' \in Issue
           /\ adapter # "linear" /\ "user" \in issue.labels => "user" \in issue'.labels
<1>1. CASE issue' = issue
  BY <1>1 DEF TrackerTyped
<1>2. CASE Labelled
  BY <1>2, IssueAfter DEF Labelled
<1>3. ASSUME NEW s \in States, setState(s)
      PROVE  issue' \in Issue /\ issue'.labels = issue.labels
  BY <1>3, IssueAfter
<1>4. CASE Commented(c)
  BY <1>4, IssueAfter DEF Commented
<1> QED
  BY <1>1, <1>2, <1>3, <1>4 DEF Writes

LEMMA Answered ==
    ASSUME TrackerTyped, NEW c \in Claimants, NEW outcome, answer(c, outcome)
    PROVE  /\ call' \in [Claimants -> Call] /\ idle(c)'
           /\ \A d \in Claimants : d # c => call'[d] = call[d]
           /\ \A d \in Claimants : call'[d].at = "labels" => d # c
           /\ last'[1].who = c /\ last'[1].op = call[c].op /\ last'[1].outcome = outcome
           /\ last'[2] = last[1]
<1>1. Idle \in Call /\ Idle.op = "none" /\ Idle.at = "idle"
  BY DEF Idle, Call, States, Places
<1>2. call' = [call EXCEPT ![c] = Idle]
  BY DEF answer
<1>3. call' \in [Claimants -> Call] /\ call'[c] = Idle /\ \A d \in Claimants : d # c => call'[d] = call[d]
  BY <1>1, <1>2 DEF TrackerTyped
<1>4. /\ last'[1].who = c /\ last'[1].op = call[c].op /\ last'[1].outcome = outcome
      /\ last'[2] = last[1]
  BY DEF answer
<1> QED
  BY <1>1, <1>3, <1>4 DEF idle

LEMMA WentOn ==
    ASSUME TrackerTyped, NEW c \in Claimants, GoesOn(c)
    PROVE  /\ call' \in [Claimants -> Call] /\ last' = last
           /\ \A d \in Claimants : d # c => call'[d] = call[d]
           /\ call'[c].op = call[c].op /\ call'[c].target = call[c].target /\ call'[c].alone = call[c].alone
           /\ call'[c].at = "labels" => call'[c].target \in Range(StateLabels)
BY DEF GoesOn, TrackerTyped

LEMMA RequestTyped ==
    ASSUME TrackerAssumption, TrackerInv, NEW c \in Claimants, Request(c)
    PROVE  TrackerTyped' /\ AloneMeansAlone'
<1>1. TrackerTyped /\ AloneMeansAlone
  BY DEF TrackerInv
<1>2. Writes(c) /\ (GoesOn(c) \/ Answers(c)) /\ UNCHANGED <<adapter, item, begun>>
  BY <1>1, RequestIs
<1>3. issue' \in Issue
  BY <1>1, <1>2, WrittenTyped
<1>4. CASE GoesOn(c)
  <2>1. TrackerTyped'
    BY <1>1, <1>2, <1>3, <1>4, WentOn DEF TrackerTyped
  <2>2. AloneMeansAlone'
    BY <1>1, <1>4, WentOn DEF AloneMeansAlone
  <2> QED BY <2>1, <2>2
<1>5. CASE Answers(c)
  <2>1. PICK outcome : answer(c, outcome)
    BY <1>5 DEF Answers
  <2>2. TrackerTyped'
    BY <1>1, <1>2, <1>3, <2>1, Answered DEF TrackerTyped
  <2>3. AloneMeansAlone'
    BY <1>1, <2>1, Answered DEF AloneMeansAlone, idle, disturbs
  <2> QED BY <2>2, <2>3
<1> QED
  BY <1>2, <1>4, <1>5

--------------------------------------------------------------------------------
(* Claims *)

LEMMA LatestTyped ==
    ASSUME NEW comments \in Seq(Comment)
    PROVE  findLatestClaimMarker(comments) \in Comment
<1> DEFINE markers == {k \in DOMAIN comments : isMarker(comments[k])}
<1>1. NoMarker \in Comment
  BY DEF NoMarker, Comment
<1>2. markers # {} => Max(markers) \in markers
  <2>1. Len(comments) \in Nat /\ markers \subseteq 1..Len(comments)
    OBVIOUS
  <2> QED BY <2>1, Greatest
<1> QED
  BY <1>1, <1>2 DEF findLatestClaimMarker

\* A marker is written with the answer of the call.
MarkedBy(c) ==
    \/ last' = last /\ issue'.comments = issue.comments
    \/ \E outcome \in {"done", "error"} : answer(c, outcome)
    \/ answer(c, "claimed") /\ addComment("claim", c)
    \/ issue' = issue /\ heldBy(c) /\ answer(c, "claimed")
    \/ issue' = issue /\ ~heldBy(c) /\ answer(c, "already-claimed")

LEMMA ClaimsAndMarkers ==
    ASSUME TrackerAssumption, TrackerTyped, NEW c \in Claimants, Request(c),
           adapter \in {"github", "projects"}, Len(issue.comments) <= Page
    PROVE  MarkedBy(c)
<1>2. \A l \in Range(StateLabels) \cup {"claim"} :
        /\ setLabels(issue.labels \cup {l}) => issue'.comments = issue.comments
        /\ setLabels(issue.labels \ {l}) => issue'.comments = issue.comments
  <2>1. \A l \in Range(StateLabels) \cup {"claim"} :
          /\ issue.labels \cup {l} \in SUBSET Labels /\ issue.labels \ {l} \in SUBSET Labels
    BY DEF TrackerTyped, Issue, Labels
  <2> QED BY <2>1, IssueAfter
<1>3. /\ setLabels(issue.labels \cup {"claim"}) => issue'.comments = issue.comments
      /\ setLabels(issue.labels \ {"claim"}) => issue'.comments = issue.comments
  BY <1>2
<1>4. /\ answer(c, "done") => MarkedBy(c)
      /\ answer(c, "error") => MarkedBy(c)
      /\ (issue'.comments = issue.comments /\ last' = last) => MarkedBy(c)
      /\ (issue' = issue /\ last' = last) => MarkedBy(c)
      /\ (answer(c, "claimed") /\ addComment("claim", c)) => MarkedBy(c)
      /\ (issue' = issue /\ heldBy(c) /\ answer(c, "claimed")) => MarkedBy(c)
      /\ (issue' = issue /\ ~heldBy(c) /\ answer(c, "already-claimed")) => MarkedBy(c)
  BY DEF MarkedBy
<1>5. CASE GitHubClaim(c)
  BY <1>3, <1>4, <1>5 DEF GitHubClaim, mapNetworkError
<1>6. CASE GitHubRelease(c)
  BY <1>3, <1>4, <1>6 DEF GitHubRelease, mapNetworkError
<1>7. CASE GitHubTransition(c)
  <2>1. \A l \in Range(StateLabels) : (setLabels(issue.labels \ {l}) /\ last' = last) => MarkedBy(c)
    BY <1>2, <1>4
  <2>2. \/ answer(c, "done") \/ answer(c, "error")
        \/ issue' = issue /\ last' = last
        \/ \E l \in Range(StateLabels) : setLabels(issue.labels \ {l}) /\ last' = last
    BY <1>7 DEF GitHubTransition, mapNetworkError
  <2> QED BY <1>4, <2>1, <2>2
<1>8. CASE ProjectsClaim(c)
  <2> DEFINE marker == findLatestClaimMarker(fetchComments(issue.comments))
  <2>1. marker \in Comment
    BY AllFetched, LatestTyped DEF TrackerTyped, Issue
  <2>2. heldBy(c) <=> marker.kind = "claim" /\ marker.who = c
    BY <2>1 DEF heldBy, Comment
  <2> HIDE DEF marker
  <2> QED BY <1>4, <1>8, <2>2 DEF ProjectsClaim, mapNetworkError, marker
<1>9. CASE ProjectsRelease(c)
  BY <1>4, <1>9 DEF ProjectsRelease, mapNetworkError
<1>10. CASE ProjectsTransition(c)
  BY <1>4, <1>10 DEF ProjectsTransition, mapNetworkError
<1>11. CASE issue' = issue /\ answer(c, "error")
  BY <1>4, <1>11
<1>12. adapter # "jira" /\ adapter # "linear"
  OBVIOUS
<1> QED
  BY <1>12, <1>5, <1>6, <1>7, <1>8, <1>9, <1>10, <1>11 DEF Request

LEMMA RequestKeepsGrants ==
    ASSUME TrackerAssumption, TrackerInv, NEW c \in Claimants, Request(c), TrackerTyped'
    PROVE  GrantHeld' /\ ClaimRetryHeld'
<1>1. TrackerTyped /\ GrantHeld /\ ClaimRetryHeld /\ adapter' = adapter
  BY RequestIs DEF TrackerInv
<1>2. SUFFICES ASSUME adapter \in {"github", "projects"}, Len(issue'.comments) <= Page
               PROVE  GrantHeld' /\ ClaimRetryHeld'
  BY <1>1 DEF GrantHeld, ClaimRetryHeld
<1>3. Len(issue.comments) <= Len(issue'.comments)
  <2>1. issue' = issue => Len(issue.comments) <= Len(issue'.comments)
    BY <1>1 DEF TrackerTyped, Issue
  <2>2. Labelled => Len(issue.comments) <= Len(issue'.comments)
    BY <1>1, IssueAfter DEF Labelled, TrackerTyped, Issue
  <2>3. \A s \in States : setState(s) => Len(issue.comments) <= Len(issue'.comments)
    BY <1>1, IssueAfter DEF TrackerTyped, Issue
  <2>4. Commented(c) => Len(issue.comments) <= Len(issue'.comments)
    <3>1. SUFFICES ASSUME NEW kind \in {"claim", "release", "text"}, addComment(kind, c)
                   PROVE  Len(issue.comments) <= Len(issue'.comments)
      BY DEF Commented
    <3>2. issue'.comments = Append(issue.comments, [kind |-> kind, who |-> c])
      BY <1>1, <3>1, IssueAfter
    <3>3. issue.comments \in Seq(Comment)
      BY <1>1 DEF TrackerTyped, Issue
    <3> QED BY <3>2, <3>3
  <2>5. Writes(c)
    BY <1>1, RequestIs
  <2> QED BY <2>1, <2>2, <2>3, <2>4, <2>5 DEF Writes
<1>4. issue.comments \in Seq(Comment) /\ issue'.comments \in Seq(Comment)
      /\ Len(issue.comments) \in Nat /\ Len(issue'.comments) \in Nat /\ Page \in Nat
  BY <1>1 DEF TrackerTyped, Issue, TrackerAssumption
<1>5. Len(issue.comments) <= Page
  BY <1>2, <1>3, <1>4
<1>6. fetchComments(issue.comments) = issue.comments
  BY <1>2, <1>4, <1>5, AllFetched
<1>7. CASE last' = last /\ issue'.comments = issue.comments
  BY <1>1, <1>2, <1>5, <1>7 DEF GrantHeld, ClaimRetryHeld
<1>8. ASSUME NEW outcome \in {"done", "error"}, answer(c, outcome) PROVE GrantHeld' /\ ClaimRetryHeld'
  <2>1. last'[1].outcome = outcome
    BY <1>1, <1>8, Answered
  <2> QED BY <2>1 DEF GrantHeld, ClaimRetryHeld
<1>9. CASE answer(c, "claimed") /\ addComment("claim", c)
  <2>1. last'[1].outcome = "claimed" /\ last'[1].who = c
    BY <1>1, <1>9, Answered
  <2> DEFINE m == [kind |-> "claim", who |-> c]
  <2>2. issue'.comments = Append(issue.comments, m)
    BY <1>1, <1>9, IssueAfter
  <2>3. m \in Comment /\ isMarker(m)
    BY DEF Comment, isMarker
  <2> HIDE DEF m
  <2>4. findLatestClaimMarker(issue'.comments) = m
    BY <1>4, <2>2, <2>3, LatestOfAppended
  <2> QED BY <2>1, <2>4 DEF GrantHeld, ClaimRetryHeld, m
<1>10. CASE issue' = issue /\ heldBy(c) /\ answer(c, "claimed")
  <2>1. last'[1].outcome = "claimed" /\ last'[1].who = c
    BY <1>1, <1>10, Answered
  <2> QED BY <1>6, <1>10, <2>1 DEF GrantHeld, ClaimRetryHeld, heldBy
<1>11. CASE issue' = issue /\ ~heldBy(c) /\ answer(c, "already-claimed")
  <2>1. last'[1].outcome = "already-claimed" /\ last'[1].who = c /\ last'[2] = last[1]
    BY <1>1, <1>11, Answered
  <2>2. ~(last[1].op = "claim" /\ last[1].outcome = "claimed" /\ last[1].who = c)
    BY <1>1, <1>2, <1>5, <1>6, <1>11 DEF GrantHeld, heldBy
  <2> QED BY <2>1, <2>2 DEF GrantHeld, ClaimRetryHeld
<1> QED
  BY <1>1, <1>2, <1>5, <1>7, <1>8, <1>9, <1>10, <1>11, ClaimsAndMarkers DEF MarkedBy

--------------------------------------------------------------------------------
(* Transitions *)

\* A GitHub transition that goes on reads the labels, or removes one it has read.
LEMMA LabelsRead ==
    ASSUME TrackerTyped, NEW c \in Claimants, Request(c), adapter = "github",
           call'[c].op = "transition", call'[c].at = "labels"
    PROVE  \/ issue' = issue /\ call'[c].seen = issue.labels
           \/ /\ call[c].op = "transition" /\ call[c].at = "labels"
              /\ \E l \in Range(StateLabels) :
                   issue'.labels = issue.labels \ {l} /\ call'[c].seen = call[c].seen \ {l}
<1>1. issue \in Issue /\ call[c] \in Call /\ call \in [Claimants -> Call]
  BY DEF TrackerTyped
<1>2. \A outcome : ~answer(c, outcome)
  BY Answered
<1>3. ASSUME NEW where, goto(c, where) PROVE call'[c].at = where /\ call'[c].op = call[c].op
  BY <1>1, <1>3 DEF goto, Call
<1>4. \A applied : ~mapNetworkError(c, applied)
  BY <1>2 DEF mapNetworkError
<1>5. ~GitHubClaim(c) /\ ~GitHubRelease(c)
  BY <1>2, <1>3, <1>4 DEF GitHubClaim, GitHubRelease, mapNetworkError
<1>6. call[c].op = "transition" /\ GitHubTransition(c)
  BY <1>2, <1>5 DEF Request
<1>7. CASE call' = [call EXCEPT ![c].at = "labels", ![c].seen = issue.labels] /\ issue' = issue
  <2>1. call'[c].seen = issue.labels
    BY <1>1, <1>7 DEF Call
  <2> QED BY <1>7, <2>1
<1>8. ASSUME call[c].at = "labels",
             NEW l \in Range(StateLabels), setLabels(issue.labels \ {l}),
             call' = [call EXCEPT ![c].seen = @ \ {l}]
      PROVE  issue'.labels = issue.labels \ {l} /\ call'[c].seen = call[c].seen \ {l}
  BY <1>1, <1>8 DEF setLabels, Call, Issue
<1> QED
  BY <1>2, <1>6, <1>7, <1>8 DEF GitHubTransition, mapNetworkError

\* Claims and releases leave the labels of the states alone.
LEMMA StatesSpared ==
    ASSUME TrackerAssumption, TrackerTyped, NEW c \in Claimants, Request(c), adapter = "github",
           call[c].op # "transition", NEW l \in Range(StateLabels)
    PROVE  l \in issue'.labels <=> l \in issue.labels
<1>1. issue.labels \in SUBSET Labels /\ l # "claim" /\ "claim" \in Labels
  BY DEF TrackerTyped, Issue, Labels, TrackerAssumption
<1>2. ASSUME setLabels(issue.labels \cup {"claim"}) \/ setLabels(issue.labels \ {"claim"})
      PROVE  issue'.labels \in {issue.labels \cup {"claim"}, issue.labels \ {"claim"}}
  <2>1. issue.labels \cup {"claim"} \in SUBSET Labels /\ issue.labels \ {"claim"} \in SUBSET Labels
    BY <1>1
  <2> QED BY <1>2, <2>1, IssueAfter
<1>3. ASSUME NEW kind \in {"claim", "release"}, addComment(kind, c) PROVE issue'.labels = issue.labels
  BY <1>3, IssueAfter
<1>4. issue' = issue \/ issue'.labels \in {issue.labels, issue.labels \cup {"claim"}, issue.labels \ {"claim"}}
  BY <1>2, <1>3 DEF Request, GitHubClaim, GitHubRelease, mapNetworkError
<1> QED
  BY <1>1, <1>4

LEMMA RequestKeepsSeen ==
    ASSUME TrackerAssumption, TrackerInv, NEW c \in Claimants, Request(c), TrackerTyped'
    PROVE  SeenIsThere'
<1>1. TrackerTyped /\ AloneMeansAlone /\ SeenIsThere /\ adapter' = adapter /\ ~idle(c)
  BY RequestIs DEF TrackerInv, Request
<1>2. Writes(c) /\ (GoesOn(c) \/ Answers(c))
  BY <1>1, RequestIs
<1>3. SUFFICES ASSUME adapter = "github", NEW d \in Claimants,
                      call'[d].op = "transition", call'[d].at = "labels", call'[d].alone,
                      NEW l \in Range(StateLabels)
               PROVE  l \in issue'.labels <=> l \in call'[d].seen
  BY <1>1 DEF SeenIsThere
<1>4. CASE d # c
  <2>1. call'[d] = call[d]
    BY <1>1, <1>2, <1>4, WentOn, Answered DEF Answers
  <2>2. call[c].op # "transition"
    BY <1>1, <1>3, <1>4, <2>1 DEF AloneMeansAlone, disturbs
  <2>3. l \in issue'.labels <=> l \in issue.labels
    BY <1>1, <1>3, <2>2, StatesSpared
  <2> QED BY <1>1, <1>3, <2>1, <2>3 DEF SeenIsThere
<1>5. CASE d = c
  <2>1. CASE issue' = issue /\ call'[c].seen = issue.labels
    BY <1>5, <2>1
  <2>2. ASSUME call[c].op = "transition", call[c].at = "labels",
               NEW m \in Range(StateLabels),
               issue'.labels = issue.labels \ {m}, call'[c].seen = call[c].seen \ {m}
        PROVE  l \in issue'.labels <=> l \in call'[c].seen
    <3>1. call[c].alone
      <4>1. ~idle(c)'
        BY <1>3, <1>5 DEF idle
      <4>2. GoesOn(c)
        BY <1>1, <1>2, <4>1, Answered DEF Answers
      <4> QED BY <1>1, <1>3, <1>5, <4>2, WentOn
    <3>2. l \in issue.labels <=> l \in call[c].seen
      BY <1>1, <1>3, <2>2, <3>1 DEF SeenIsThere
    <3> QED BY <2>2, <3>2
  <2> QED BY <1>1, <1>3, <1>5, <2>1, <2>2, LabelsRead
<1> QED
  BY <1>4, <1>5

--------------------------------------------------------------------------------
(* The other steps *)

LEMMA BeginKeeps ==
    ASSUME TrackerAssumption, TrackerInv, NEW c \in Claimants,
           NEW op \in Ops, NEW target \in States, Begin(c, op, target)
    PROVE  TrackerInv'
<1> DEFINE quiet == \A d \in Claimants : ~disturbs(call[d].op, op)
           mine == [op |-> op, at |-> "first", target |-> target, alone |-> quiet,
                    seen |-> IF op = "claim" THEN item[c] ELSE {}]
           other(d) == [call[d] EXCEPT !.alone = @ /\ ~disturbs(op, call[d].op)]
<1>1. TrackerTyped /\ GrantHeld /\ ClaimRetryHeld /\ UNCHANGED <<adapter, issue, item, last>>
  BY DEF TrackerInv, Begin
<1>2. call' = [d \in Claimants |-> IF d # c THEN other(d) ELSE mine] /\ idle(c)
  BY DEF Begin
<1>3. mine \in Call
  <2>1. item[c] \in SUBSET Labels /\ quiet \in BOOLEAN
    BY <1>1 DEF TrackerTyped
  <2> HIDE DEF quiet
  <2> QED BY <2>1 DEF Call, Ops, Places
<1>4. \A d \in Claimants : /\ other(d) \in Call /\ other(d).at = call[d].at
                           /\ other(d).alone => call[d].alone /\ ~disturbs(op, call[d].op)
                           /\ other(d).target = call[d].target /\ other(d).op = call[d].op
                           /\ other(d).seen = call[d].seen
  <2> SUFFICES ASSUME NEW d \in Claimants
               PROVE  /\ other(d) \in Call /\ other(d).at = call[d].at
                      /\ other(d).alone => call[d].alone /\ ~disturbs(op, call[d].op)
                      /\ other(d).target = call[d].target /\ other(d).op = call[d].op
                      /\ other(d).seen = call[d].seen
    OBVIOUS
  <2>1. call[d] \in Call /\ (call[d].alone /\ ~disturbs(op, call[d].op)) \in BOOLEAN
    BY <1>1 DEF TrackerTyped
  <2> DEFINE still == call[d].alone /\ ~disturbs(op, call[d].op)
  <2>2. other(d) = [call[d] EXCEPT !.alone = still]
    OBVIOUS
  <2>3. still \in BOOLEAN /\ (still => call[d].alone /\ ~disturbs(op, call[d].op))
    BY <2>1
  <2> HIDE DEF still, other
  <2> QED BY <2>1, <2>2, <2>3 DEF Call
<1>5. mine.at = "first" /\ (mine.alone <=> quiet) /\ mine.op = op
  OBVIOUS
<1> HIDE DEF mine, other, quiet
<1>6. /\ call' \in [Claimants -> Call] /\ call'[c] = mine
      /\ \A d \in Claimants : d # c => call'[d] = other(d)
  BY <1>2, <1>3, <1>4
<1>7. TrackerTyped'
  BY <1>1, <1>4, <1>5, <1>6 DEF TrackerTyped
<1>8. GrantHeld' /\ ClaimRetryHeld'
  BY <1>1 DEF GrantHeld, ClaimRetryHeld
<1>9. AloneMeansAlone'
  <2>1. SUFFICES ASSUME NEW d \in Claimants, NEW e \in Claimants, d # e, call'[d].alone
                 PROVE  ~disturbs(call'[e].op, call'[d].op)
    BY DEF AloneMeansAlone
  <2>2. AloneMeansAlone
    BY DEF TrackerInv
  <2>3. CASE d = c
    <3>1. quiet /\ call'[d].op = op /\ call'[e].op = call[e].op
      BY <1>4, <1>5, <1>6, <2>1, <2>3
    <3> QED BY <3>1 DEF quiet
  <2>4. CASE e = c
    <3>1. ~disturbs(op, call[d].op) /\ call'[d].op = call[d].op /\ call'[e].op = op
      BY <1>4, <1>5, <1>6, <2>1, <2>4
    <3> QED BY <3>1
  <2>5. CASE d # c /\ e # c
    <3>1. call[d].alone /\ call'[d].op = call[d].op /\ call'[e].op = call[e].op
      BY <1>4, <1>6, <2>1, <2>5
    <3> QED BY <2>1, <2>2, <3>1 DEF AloneMeansAlone
  <2> QED BY <2>3, <2>4, <2>5
<1>10. SeenIsThere'
  <2>1. SeenIsThere
    BY DEF TrackerInv
  <2>2. \A d \in Claimants : call'[d].at = "labels" /\ call'[d].alone =>
          call[d].alone /\ call'[d].at = call[d].at /\ call'[d].op = call[d].op
          /\ call'[d].seen = call[d].seen
    BY <1>4, <1>5, <1>6
  <2> QED BY <1>1, <2>1, <2>2 DEF SeenIsThere
<1> QED
  BY <1>7, <1>8, <1>9, <1>10 DEF TrackerInv

LEMMA DiscoverKeeps ==
    ASSUME TrackerInv, NEW c \in Claimants, Discover(c)
    PROVE  TrackerInv'
<1>1. TrackerTyped' 
  <2>1. issue.labels \in SUBSET Labels
    BY DEF TrackerInv, TrackerTyped, Issue
  <2> QED BY <2>1 DEF TrackerInv, TrackerTyped, Discover
<1>2. UNCHANGED <<adapter, issue, call, last>>
  BY DEF Discover
<1> QED
  BY <1>1, <1>2 DEF TrackerInv, GrantHeld, ClaimRetryHeld, AloneMeansAlone, SeenIsThere, disturbs

LEMMA PeopleKeep ==
    ASSUME TrackerAssumption, TrackerInv, PeopleAct
    PROVE  TrackerInv' /\ ("user" \in issue.labels => "user" \in issue'.labels)
<1>1. TrackerTyped /\ UNCHANGED <<adapter, item, call, last>>
  BY DEF TrackerInv, PeopleAct
<1>2. issue.labels \cup {"user"} \in SUBSET Labels
  BY <1>1 DEF TrackerTyped, Issue, Labels
<1>3. /\ issue' \in Issue
      /\ issue'.labels = issue.labels \/ issue'.labels = issue.labels \cup {"user"}
      /\ \/ issue'.comments = issue.comments
         \/ issue'.comments = Append(issue.comments, [kind |-> "text", who |-> People])
  BY <1>1, <1>2, IssueAfter DEF PeopleAct, States
<1>4. TrackerTyped' /\ AloneMeansAlone'
  BY <1>1, <1>3 DEF TrackerInv, TrackerTyped, AloneMeansAlone
<1>5. SeenIsThere'
  <2>1. \A l \in Range(StateLabels) : l \in issue'.labels <=> l \in issue.labels
    BY <1>3 DEF TrackerAssumption
  <2> QED BY <1>1, <2>1 DEF TrackerInv, SeenIsThere
<1>6. GrantHeld' /\ ClaimRetryHeld'
  <2> DEFINE m == [kind |-> "text", who |-> People]
  <2>1. issue.comments \in Seq(Comment) /\ m \in Comment /\ ~isMarker(m)
    BY <1>1 DEF TrackerTyped, Issue, Comment, isMarker
  <2>2. issue'.comments = issue.comments \/ issue'.comments = Append(issue.comments, m)
    BY <1>3
  <2> HIDE DEF m
  <2>3. findLatestClaimMarker(issue'.comments) = findLatestClaimMarker(issue.comments)
    BY <2>1, <2>2, LatestOfAppended
  <2>4. /\ Len(issue'.comments) >= Len(issue.comments)
        /\ Len(issue.comments) \in Nat /\ Len(issue'.comments) \in Nat
    BY <2>1, <2>2
  <2>5. Len(issue'.comments) <= Page => Len(issue.comments) <= Page
    BY <2>4 DEF TrackerAssumption
  <2> QED BY <1>1, <2>3, <2>5 DEF TrackerInv, GrantHeld, ClaimRetryHeld
<1> QED
  BY <1>3, <1>4, <1>5, <1>6 DEF TrackerInv

LEMMA TrackerNext ==
    ASSUME TrackerAssumption, TrackerInv, [Next]_vars
    PROVE  TrackerInv'
<1>1. ASSUME NEW c \in Claimants, Request(c) PROVE TrackerInv'
  BY <1>1, RequestTyped, RequestKeepsGrants, RequestKeepsSeen DEF TrackerInv
<1>2. ASSUME NEW c \in Claimants, NEW op \in Ops, NEW target \in States, Begin(c, op, target)
      PROVE  TrackerInv'
  BY <1>2, BeginKeeps
<1>3. CASE UNCHANGED vars
  BY <1>3 DEF vars, TrackerInv, TrackerTyped, GrantHeld, ClaimRetryHeld, AloneMeansAlone, SeenIsThere, disturbs
<1>4. "open" \in States /\ {"claim", "release"} \subseteq Ops /\ "transition" \in Ops
  BY DEF States, Ops
<1> QED
  BY <1>1, <1>2, <1>3, <1>4, DiscoverKeeps, PeopleKeep DEF Next

LEMMA TrackerInit ==
    ASSUME TrackerAssumption, Init
    PROVE  TrackerInv
<1>1. Idle \in Call /\ Idle.op = "none" /\ Idle.at = "idle"
  BY DEF Idle, Call, States, Places
<1>2. issue \in Issue /\ call = [c \in Claimants |-> Idle] /\ item = [c \in Claimants |-> issue.labels]
  <2>1. <<>> \in Seq(Comment)
    OBVIOUS
  <2> HIDE DEF Comment
  <2> QED BY <2>1 DEF Init, Issue, Labels, States
<1>3. TrackerTyped
  BY <1>1, <1>2 DEF TrackerTyped, Issue
<1>4. last[1].op = "none"
  BY DEF Init
<1> QED
  BY <1>1, <1>2, <1>3, <1>4 DEF TrackerInv, GrantHeld, ClaimRetryHeld, AloneMeansAlone, SeenIsThere, disturbs

LEMMA TrackerInvariant ==
    ASSUME TrackerAssumption
    PROVE  Spec => []TrackerInv
<1>1. Init => TrackerInv
  BY TrackerInit
<1>2. TrackerInv /\ [Next]_vars => TrackerInv'
  BY TrackerNext
<1> QED
  BY <1>1, <1>2, PTL DEF Spec

\* ClaimRetryHeld: of the marker adapters, a claim that is repeated right after it was
\* granted, no other call overlapping either, is granted again, whoever claims and
\* whatever people write in between, while the comments fit a page.
THEOREM RetriesAreGranted ==
    ASSUME TrackerAssumption
    PROVE  Spec => []ClaimRetryHeld
<1>1. TrackerInv => ClaimRetryHeld
  BY DEF TrackerInv
<1> QED
  BY <1>1, TrackerInvariant, PTL

\* Linear's requests lose a label only by writing back what was read without it.
LEMMA LostByWriteBack ==
    ASSUME TrackerAssumption, TrackerTyped, NEW c \in Claimants, Request(c), adapter = "linear",
           "user" \in issue.labels, "user" \notin issue'.labels
    PROVE  /\ call[c].op \in {"claim", "release"} /\ call[c].at = "label"
           /\ "user" \notin call[c].seen /\ call'[c] # call[c]
<1>1. /\ issue \in Issue /\ call[c] \in Call /\ call \in [Claimants -> Call] /\ ~idle(c)
      /\ call[c].seen \subseteq Labels
  BY DEF TrackerTyped, Request, Call
<1>2. issue' # issue
  OBVIOUS
<1>3. \A kind \in {"claim", "release"} : ~addComment(kind, c)
  BY IssueAfter
<1>4. ~setState(call[c].target)
  BY <1>1, IssueAfter DEF Call
<1>5. /\ setLabels(call[c].seen \cup {"claim"}) => "user" \notin call[c].seen
      /\ setLabels(call[c].seen \ {"claim"}) => "user" \notin call[c].seen
  <2>1. /\ call[c].seen \cup {"claim"} \in SUBSET Labels
        /\ call[c].seen \ {"claim"} \in SUBSET Labels
    BY <1>1 DEF Labels
  <2> QED BY <2>1, IssueAfter
<1>6. \A outcome : answer(c, outcome) => call'[c] # call[c]
  BY <1>1, Answered DEF idle
<1>7. call[c].at = "label" /\ goto(c, "marker") => call'[c] # call[c]
  <2>1. goto(c, "marker") => call'[c].at = "marker"
    BY <1>1 DEF goto, Call
  <2> QED BY <2>1
<1>8. CASE call[c].op = "claim" /\ LinearClaim(c)
  BY <1>2, <1>3, <1>5, <1>6, <1>7, <1>8 DEF LinearClaim, mapNetworkError
<1>9. CASE call[c].op = "release" /\ LinearRelease(c)
  BY <1>2, <1>5, <1>6, <1>9 DEF LinearRelease, mapNetworkError
<1>10. ~LinearTransition(c)
  BY <1>2, <1>4 DEF LinearTransition, mapNetworkError
<1> QED
  BY <1>2, <1>8, <1>9, <1>10 DEF Request

\* ForeignLabelsKept: whatever requests of any adapter are answered or fail half-way, a
\* label people have put on the issue is lost only to a claim or release of Linear's that
\* writes back the set it read before the label was there.
THEOREM ForeignLabelsAreKept ==
    ASSUME TrackerAssumption
    PROVE  Spec => ForeignLabelsKept
<1> DEFINE Kept ==
        "user" \in issue.labels /\ "user" \notin issue'.labels
        => /\ adapter = "linear"
           /\ \E c \in Claimants :
                /\ call[c].op \in {"claim", "release"} /\ call[c].at = "label"
                /\ "user" \notin call[c].seen /\ call'[c] # call[c]
<1>1. TrackerInv /\ [Next]_vars => [Kept]_vars
  <2>1. SUFFICES ASSUME TrackerInv, Next, "user" \in issue.labels, "user" \notin issue'.labels
                 PROVE  Kept
    OBVIOUS
  <2>2. ASSUME NEW c \in Claimants, Request(c) PROVE Kept
    <3>1. adapter = "linear"
      BY <2>1, <2>2, RequestIs, WrittenTyped DEF TrackerInv
    <3> QED BY <2>1, <2>2, <3>1, LostByWriteBack DEF TrackerInv
  <2>3. ~PeopleAct
    BY <2>1, PeopleKeep
  <2> QED BY <2>1, <2>2, <2>3 DEF Next, Begin, Discover
<1> QED
  BY <1>1, TrackerInvariant, PTL DEF Spec, ForeignLabelsKept

\* The step a transition is reported done with.
LEMMA DoneIsReached ==
    ASSUME TrackerAssumption, TrackerInv, NEW c \in Claimants, Request(c),
           call[c].op = "transition", call[c].alone, call[c].target # "open", answer(c, "done")
    PROVE  \/ resolveIssueState(issue)' = call[c].target
           \/ call[c].target # "closed" /\ issue'.state = "closed"
<1>1. /\ TrackerTyped /\ SeenIsThere /\ adapter' = adapter
      /\ issue \in Issue /\ call[c] \in Call /\ call[c].target \in States
  BY RequestIs DEF TrackerInv, TrackerTyped, Call
<1>2. ~answer(c, "error") /\ \A where : ~goto(c, where)
  <2>1. ~answer(c, "error")
    BY DEF answer
  <2>2. ASSUME NEW where, goto(c, where) PROVE FALSE
    <3>1. call'[c].op = call[c].op
      BY <1>1, <2>2 DEF goto, TrackerTyped, Call
    <3>2. idle(c)'
      BY <1>1, Answered
    <3> QED BY <3>1, <3>2 DEF idle
  <2> QED BY <2>1, <2>2
<1>3. \A applied : ~mapNetworkError(c, applied)
  BY <1>2 DEF mapNetworkError
<1>4. setState(call[c].target) => issue'.state = call[c].target
  BY <1>1, IssueAfter
<1>5. CASE adapter # "github"
  <2>1. setState(call[c].target)
    BY <1>2, <1>3, <1>5 DEF Request, ProjectsTransition, JiraTransition, LinearTransition
  <2> QED BY <1>1, <1>4, <1>5, <2>1 DEF resolveIssueState
<1>6. CASE adapter = "github"
  <2> DEFINE others == (Range(StateLabels) \ {call[c].target}) \cap call[c].seen
             native == call[c].target \in {"open", "closed"}
  <2>1. GitHubTransition(c)
    BY <1>2, <1>6 DEF Request
  <2>2. CASE call[c].at = "first" /\ native
    <3>1. setState(call[c].target)
      BY <1>3, <2>1, <2>2 DEF GitHubTransition
    <3>2. issue'.state = "closed" /\ call[c].target = "closed"
      BY <1>4, <2>2, <3>1
    <3> QED BY <3>2 DEF resolveIssueState
  <2>3. CASE call[c].at = "labels" /\ others = {}
    <3>1. setLabels(IF call[c].target \in call[c].seen THEN issue.labels
                    ELSE issue.labels \cup {call[c].target})
      BY <1>3, <2>1, <2>3 DEF GitHubTransition
    <3>2. call[c].target \in Range(StateLabels)
      BY <1>1, <2>3 DEF TrackerTyped
    <3>3. \A l \in Range(StateLabels) : l \in issue.labels <=> l \in call[c].seen
      BY <1>1, <1>6, <2>3 DEF SeenIsThere
    <3>4. issue'.labels = issue.labels \cup {call[c].target}
      <4>1. /\ issue.labels \in SUBSET Labels
            /\ issue.labels \cup {call[c].target} \in SUBSET Labels
        BY <1>1, <3>2 DEF Issue, Labels
      <4>2. CASE call[c].target \in call[c].seen
        BY <1>1, <3>1, <3>2, <3>3, <4>1, <4>2, IssueAfter
      <4>3. CASE call[c].target \notin call[c].seen
        BY <1>1, <3>1, <4>1, <4>3, IssueAfter
      <4> QED BY <4>2, <4>3
    <3>5. \A l \in Range(StateLabels) : l \in issue'.labels <=> l = call[c].target
      BY <2>3, <3>2, <3>3, <3>4
    <3>6. resolveIssueState(issue') = call[c].target \/ issue'.state = "closed"
      <4> DEFINE present == {k \in DOMAIN StateLabels : StateLabels[k] \in issue'.labels}
      <4>1. /\ DOMAIN StateLabels \subseteq Nat
            /\ \A k \in DOMAIN StateLabels : StateLabels[k] \in Range(StateLabels)
            /\ \E k \in DOMAIN StateLabels : StateLabels[k] = call[c].target
        BY <3>2 DEF TrackerAssumption, Range
      <4>2. present # {} /\ present \subseteq Nat
        BY <3>5, <4>1
      <4>3. Min(present) \in present
        BY <4>2, Least
      <4>4. StateLabels[Min(present)] = call[c].target
        BY <3>5, <4>1, <4>3
      <4> QED BY <1>6, <4>2, <4>4 DEF resolveIssueState
    <3>7. resolveIssueState(issue') = resolveIssueState(issue)'
      BY <1>1 DEF resolveIssueState
    <3>8. CASE issue'.state = "closed"
      BY <3>8 DEF resolveIssueState
    <3> QED BY <3>6, <3>7, <3>8
  <2>4. ASSUME call' = [call EXCEPT ![c].at = "labels", ![c].seen = issue.labels] PROVE FALSE
    <3>1. call'[c].op = call[c].op
      BY <1>1, <2>4 DEF TrackerTyped, Call
    <3>2. idle(c)'
      BY <1>1, Answered
    <3> QED BY <3>1, <3>2 DEF idle
  <2>5. ASSUME NEW l, call' = [call EXCEPT ![c].seen = @ \ {l}] PROVE FALSE
    <3>1. call'[c].op = call[c].op
      BY <1>1, <2>5 DEF TrackerTyped, Call
    <3>2. idle(c)'
      BY <1>1, Answered
    <3> QED BY <3>1, <3>2 DEF idle
  <2> QED BY <1>3, <2>1, <2>2, <2>3, <2>4, <2>5 DEF GitHubTransition
<1> QED
  BY <1>5, <1>6

\* TransitionReached: a transition that is reported done and overlapped with no other one
\* has left the issue in the state asked for; of the state labels of GitHub only the
\* target's is left, so that it is the first configured of those present.
THEOREM TransitionsAreReached ==
    ASSUME TrackerAssumption
    PROVE  Spec => TransitionReached
<1> DEFINE Reached ==
        \A c \in Claimants :
          (/\ call[c].op = "transition" /\ call[c].alone /\ call[c].target # "open"
           /\ idle(c)' /\ last'[1].outcome = "done" /\ last' # last)
          => \/ resolveIssueState(issue)' = call[c].target
             \/ call[c].target # "closed" /\ issue'.state = "closed"
<1>1. TrackerInv /\ [Next]_vars => [Reached]_vars
  <2>1. SUFFICES ASSUME TrackerInv, Next, NEW c \in Claimants,
                        call[c].op = "transition", call[c].alone, call[c].target # "open",
                        idle(c)', last'[1].outcome = "done", last' # last
                 PROVE  \/ resolveIssueState(issue)' = call[c].target
                        \/ call[c].target # "closed" /\ issue'.state = "closed"
    OBVIOUS
  <2>2. TrackerTyped
    BY <2>1 DEF TrackerInv
  <2>3. PICK d \in Claimants : Request(d)
    BY <2>1 DEF Next, Begin, Discover, PeopleAct
  <2>4. PICK outcome : answer(d, outcome)
    BY <2>1, <2>2, <2>3, RequestIs, WentOn DEF Answers
  <2>5. outcome = "done" /\ d = c
    BY <2>1, <2>2, <2>4, Answered DEF idle
  <2> QED BY <2>1, <2>3, <2>4, <2>5, DoneIsReached
<1> QED
  BY <1>1, TrackerInvariant, PTL DEF Spec, TransitionReached

--------------------------------------------------------------------------------
(***** The managed section ****************************************************)

\* What people write quotes no delimiter; a description is a sequence of strings.
SectionAssumption ==
    /\ Texts \subseteq STRING /\ Texts \cap Delimiters = {}
    /\ Documents \subseteq Seq(STRING)

Pieces == Texts \cup Delimiters \cup Range(Status) \cup UNION {Range(d) : d \in Documents}

SectionTyped ==
    /\ body \in Seq(Pieces) /\ latest \in Seq(Pieces) /\ edits \in Nat
    /\ update \in [Writers -> [at : {"idle", "read", "write", "comment"}, base : Seq(Pieces),
                               content : Seq(Pieces)]]
    /\ reported \in [Writers -> {"none", "applied", "refused", "failed"}]
    /\ flagged \in BOOLEAN

\* What is written is put into a description that was read whole, by what a run or a
\* document writes; while nobody has edited it and no document quotes a delimiter, every
\* description there is has its section or none.
Quoting == edits > 0 \/ \E d \in Documents : Delimiters \cap Range(d) # {}
CallsHeld ==
    \A r \in Writers :
        /\ update[r].at = "write" => applies(update[r].base)
        /\ update[r].at # "idle" => update[r].content \in {Status} \cup Documents
        /\ reported[r] = "refused" => flagged
        /\ update[r].at = "comment" => Quoting

SectionInv ==
    /\ SectionTyped /\ HumanTextKept /\ WrittenIsRead /\ CallsHeld
    /\ ~applies(body) => Quoting

LEMMA PlaceIs ==
    ASSUME NEW b \in Seq(Pieces), NEW marker, at(b, marker) # {}
    PROVE  /\ indexOf(b, marker) \in at(b, marker)
           /\ \A j \in at(b, marker) : indexOf(b, marker) <= j
           /\ at(b, marker) \subseteq 1..Len(b)
<1>1. at(b, marker) \subseteq Nat /\ at(b, marker) \subseteq 1..Len(b)
  BY DEF at
<1>2. \E m \in at(b, marker) : \A k \in at(b, marker) : m <= k
  BY <1>1, Least
<1> QED
  BY <1>1, <1>2 DEF indexOf

LEMMA DelimitersAre ==
    /\ Delimiters = {BeginDelimiter, EndDelimiter} /\ BeginDelimiter # EndDelimiter
    /\ BeginDelimiter \in Pieces /\ EndDelimiter \in Pieces
BY DEF BeginDelimiter, EndDelimiter, Delimiters, Pieces

\* The description a write leaves.
Whole(before, content, after) ==
    before \o (<<BeginDelimiter>> \o content \o <<EndDelimiter>>) \o after

LEMMA UpsertIs ==
    ASSUME NEW b \in Seq(Pieces), NEW content \in Seq(Pieces), applies(b)
    PROVE  \E before, after \in Seq(Pieces) :
             /\ upsertManagedSection(b, content) = Whole(before, content, after)
             /\ Delimiters \cap Range(before) = {} /\ Delimiters \cap Range(after) = {}
             /\ outside(b) \subseteq Range(before) \cup Range(after)
<1> DEFINE section == <<BeginDelimiter>> \o content \o <<EndDelimiter>>
<1>0. section \in Seq(Pieces) /\ Delimiters = {BeginDelimiter, EndDelimiter} /\ BeginDelimiter # EndDelimiter
  BY DelimitersAre
<1> HIDE DEF section
<1>1. CASE blank(b)
  <2>1. upsertManagedSection(b, content) = b \o section
    BY <1>1 DEF upsertManagedSection, section
  <2>2. b \o section = b \o section \o <<>>
    BY <1>0
  <2>3. Delimiters \cap Range(b) = {} /\ Delimiters \cap Range(<<>>) = {}
    BY <1>0, <1>1 DEF blank, at, Range
  <2>4. outside(b) \subseteq Range(b)
    BY DEF outside
  <2>5. <<>> \in Seq(Pieces)
    OBVIOUS
  <2>6. upsertManagedSection(b, content) = Whole(b, content, <<>>)
    BY <2>1, <2>2 DEF section, Whole
  <2> QED BY <2>3, <2>4, <2>5, <2>6
<1>2. CASE ~blank(b)
  <2> DEFINE i == indexOf(b, BeginDelimiter)
             j == indexOf(b, EndDelimiter)
             before == SubSeq(b, 1, i - 1)
             after == SubSeq(b, j + 1, Len(b))
  <2>1. paired(b) /\ ~duplicated(b)
    BY <1>2 DEF applies
  <2>2. /\ at(b, BeginDelimiter) # {} /\ at(b, EndDelimiter) # {} /\ i < j
        /\ i \in 1..Len(b) /\ j \in 1..Len(b)
        /\ \A k \in at(b, BeginDelimiter) : i <= k
        /\ \A k \in at(b, EndDelimiter) : j <= k
    BY <2>1, PlaceIs DEF paired
  <2>3. \A k \in at(b, EndDelimiter) : k = j
    <3>1. IsFiniteSet(at(b, EndDelimiter))
      <4>1. at(b, EndDelimiter) \subseteq 1..Len(b)
        BY <2>2, PlaceIs
      <4>2. Len(b) \in Int /\ 1 \in Int
        OBVIOUS
      <4>3. IsFiniteSet(1..Len(b))
        BY <4>2, FS_Interval
      <4> QED BY <4>1, <4>3, FS_Subset
    <3>2. Cardinality(at(b, EndDelimiter)) = 1
      <4>1. Cardinality(at(b, EndDelimiter)) \in Nat /\ Cardinality(at(b, EndDelimiter)) # 0
        BY <2>2, <3>1, FS_CardinalityType, FS_EmptySet
      <4> QED BY <2>1, <4>1 DEF duplicated
    <3>3. PICK x : at(b, EndDelimiter) = {x}
      BY <3>1, <3>2, FS_Singleton
    <3>4. j \in at(b, EndDelimiter)
      BY <2>2, PlaceIs
    <3> QED BY <3>3, <3>4
  <2>4. \A k \in at(b, BeginDelimiter) : k = i
    <3>1. IsFiniteSet(at(b, BeginDelimiter))
      <4>1. at(b, BeginDelimiter) \subseteq 1..Len(b)
        BY <2>2, PlaceIs
      <4>2. Len(b) \in Int /\ 1 \in Int
        OBVIOUS
      <4>3. IsFiniteSet(1..Len(b))
        BY <4>2, FS_Interval
      <4> QED BY <4>1, <4>3, FS_Subset
    <3>2. Cardinality(at(b, BeginDelimiter)) = 1
      <4>1. Cardinality(at(b, BeginDelimiter)) \in Nat /\ Cardinality(at(b, BeginDelimiter)) # 0
        BY <2>2, <3>1, FS_CardinalityType, FS_EmptySet
      <4> QED BY <2>1, <4>1 DEF duplicated
    <3>3. PICK x : at(b, BeginDelimiter) = {x}
      BY <3>1, <3>2, FS_Singleton
    <3>4. i \in at(b, BeginDelimiter)
      BY <2>2, PlaceIs
    <3> QED BY <3>3, <3>4
  <2> HIDE DEF i, j
  <2>5. /\ before \in Seq(Pieces) /\ Len(before) = i - 1 /\ \A k \in 1..(i - 1) : before[k] = b[k]
        /\ after \in Seq(Pieces) /\ Len(after) = Len(b) - j /\ \A k \in 1..(Len(b) - j) : after[k] = b[j + k]
    BY <2>2
  <2>6. DOMAIN before = 1..(i - 1) /\ DOMAIN after = 1..(Len(b) - j)
    BY <2>5
  <2> HIDE DEF before, after
  <2>7. Delimiters \cap Range(before) = {}
    <3>1. SUFFICES ASSUME NEW k \in 1..(i - 1), b[k] \in Delimiters PROVE FALSE
      BY <2>5, <2>6 DEF Range
    <3>2. k \in 1..Len(b) /\ k # i /\ k # j
      BY <2>2
    <3>3. k \in at(b, BeginDelimiter) \/ k \in at(b, EndDelimiter)
      BY <1>0, <3>1, <3>2 DEF at
    <3> QED BY <2>3, <2>4, <3>2, <3>3
  <2>8. Delimiters \cap Range(after) = {}
    <3>1. SUFFICES ASSUME NEW k \in 1..(Len(b) - j), b[j + k] \in Delimiters PROVE FALSE
      BY <2>5, <2>6 DEF Range
    <3>2. (j + k) \in 1..Len(b) /\ (j + k) # i /\ (j + k) # j
      BY <2>2
    <3>3. (j + k) \in at(b, BeginDelimiter) \/ (j + k) \in at(b, EndDelimiter)
      BY <1>0, <3>1, <3>2 DEF at
    <3> QED BY <2>3, <2>4, <3>2, <3>3
  <2>9. outside(b) \subseteq Range(before) \cup Range(after)
    <3>1. SUFFICES ASSUME NEW k \in 1..Len(b), k < i \/ k > j PROVE b[k] \in Range(before) \cup Range(after)
      BY <2>1 DEF outside, i, j
    <3>2. CASE k < i
      <4>1. k \in 1..(i - 1)
        BY <2>2, <3>2
      <4> QED BY <2>5, <2>6, <4>1 DEF Range
    <3>3. CASE k > j
      <4>1. (k - j) \in 1..(Len(b) - j) /\ j + (k - j) = k
        BY <2>2, <3>3
      <4> QED BY <2>5, <2>6, <4>1 DEF Range
    <3> QED BY <3>1, <3>2, <3>3
  <2>10. upsertManagedSection(b, content) = Whole(before, content, after)
    BY <1>2 DEF upsertManagedSection, before, after, Whole, i, j
  <2> QED BY <2>5, <2>7, <2>8, <2>9, <2>10
<1> QED
  BY <1>1, <1>2

LEMMA Joined ==
    ASSUME NEW s \in Seq(Pieces), NEW u \in Seq(Pieces)
    PROVE  /\ s \o u \in Seq(Pieces) /\ Len(s \o u) = Len(s) + Len(u)
           /\ \A k \in 1..Len(s) : (s \o u)[k] = s[k]
           /\ \A k \in 1..Len(u) : (s \o u)[Len(s) + k] = u[k]
OBVIOUS

LEMMA PiecesOf ==
    ASSUME NEW s \in Seq(Pieces)
    PROVE  /\ DOMAIN s = 1..Len(s) /\ Len(s) \in Nat
           /\ \A x : x \in Range(s) <=> \E k \in 1..Len(s) : s[k] = x
BY DEF Range

LEMMA Cut ==
    ASSUME NEW s \in Seq(Pieces), NEW f \in 1..(Len(s) + 1), NEW l \in 0..Len(s), f <= l + 1
    PROVE  /\ SubSeq(s, f, l) \in Seq(Pieces) /\ Len(SubSeq(s, f, l)) = l - f + 1
           /\ \A k \in 1..(l - f + 1) : SubSeq(s, f, l)[k] = s[f + k - 1]
OBVIOUS

\* What is written is read back, keeps what is outside, and leaves one section.
LEMMA WrittenWhole ==
    ASSUME NEW before \in Seq(Pieces), NEW content \in Seq(Pieces), NEW after \in Seq(Pieces),
           Delimiters \cap Range(before) = {}, Delimiters \cap Range(after) = {},
           NEW b, b = Whole(before, content, after)
    PROVE  /\ b \in Seq(Pieces)
           /\ Range(before) \cup Range(after) \subseteq Range(b)
           /\ Delimiters \cap Range(content) = {} =>
                readManagedSection(b) = content /\ applies(b)
<1> DEFINE p == Len(before)
           n == Len(content)
           q == Len(after)
<1>0. /\ Delimiters = {BeginDelimiter, EndDelimiter} /\ BeginDelimiter # EndDelimiter
      /\ BeginDelimiter \in Pieces /\ EndDelimiter \in Pieces
  BY DelimitersAre
<1>1. p \in Nat /\ n \in Nat /\ q \in Nat
  OBVIOUS
<1>2. /\ b \in Seq(Pieces) /\ Len(b) = p + n + q + 2
      /\ \A k \in 1..p : b[k] = before[k]
      /\ b[p + 1] = BeginDelimiter
      /\ \A k \in 1..n : b[p + 1 + k] = content[k]
      /\ b[p + n + 2] = EndDelimiter
      /\ \A k \in 1..q : b[p + n + 2 + k] = after[k]
  <2> DEFINE opened == <<BeginDelimiter>> \o content
             section == opened \o <<EndDelimiter>>
             headed == before \o section
  <2>1. /\ <<BeginDelimiter>> \in Seq(Pieces) /\ Len(<<BeginDelimiter>>) = 1
        /\ <<EndDelimiter>> \in Seq(Pieces) /\ Len(<<EndDelimiter>>) = 1
    BY <1>0
  <2>2. /\ opened \in Seq(Pieces) /\ Len(opened) = 1 + n
        /\ opened[1] = BeginDelimiter
        /\ \A k \in 1..n : opened[1 + k] = content[k]
    BY <2>1
  <2> HIDE DEF opened
  <2>3. /\ section \in Seq(Pieces) /\ Len(section) = Len(opened) + 1
        /\ \A k \in 1..Len(opened) : section[k] = opened[k]
        /\ \A k \in 1..1 : section[Len(opened) + k] = <<EndDelimiter>>[k]
    BY <2>1, <2>2, Joined
  <2>4. b = headed \o after
    BY DEF opened, Whole
  <2> HIDE DEF section
  <2> HIDE DEF p, n, q
  <2>5. /\ headed \in Seq(Pieces) /\ Len(headed) = p + Len(section)
        /\ \A k \in 1..p : headed[k] = before[k]
        /\ \A k \in 1..Len(section) : headed[p + k] = section[k]
    BY <2>3, Joined DEF p
  <2> HIDE DEF headed
  <2>6. /\ b \in Seq(Pieces) /\ Len(b) = Len(headed) + q
        /\ \A k \in 1..Len(headed) : b[k] = headed[k]
        /\ \A k \in 1..q : b[Len(headed) + k] = after[k]
    <3>1. /\ headed \o after \in Seq(Pieces) /\ Len(headed \o after) = Len(headed) + q
          /\ \A k \in 1..Len(headed) : (headed \o after)[k] = headed[k]
          /\ \A k \in 1..q : (headed \o after)[Len(headed) + k] = after[k]
      BY <2>5, Joined, Zenon DEF q
    <3> QED BY <2>4, <3>1, Zenon
  <2>7. /\ Len(opened) = n + 1 /\ Len(section) = n + 2 /\ Len(headed) = p + n + 2
        /\ Len(b) = p + n + q + 2
    BY <1>1, <2>2, <2>3, <2>5, <2>6
  <2>8. /\ \A k \in 1..p : k \in 1..(p + n + 2)
        /\ \A k \in 1..(n + 2) : (p + k) \in 1..(p + n + 2)
        /\ \A k \in 1..n : (1 + k) \in 1..(n + 1) /\ (1 + k) \in 1..(n + 2) /\ p + (1 + k) = p + 1 + k
        /\ 1 \in 1..(n + 1) /\ 1 \in 1..(n + 2) /\ 1 \in 1..1
        /\ (n + 2) \in 1..(n + 2) /\ p + (n + 2) = p + n + 2 /\ n + 1 + 1 = n + 2
    BY <1>1
  <2>9. \A k \in 1..p : b[k] = before[k]
    BY <2>5, <2>6, <2>7, <2>8
  <2>10. \A k \in 1..(n + 2) : b[p + k] = section[k]
    BY <2>5, <2>6, <2>7, <2>8
  <2>11. section[1] = BeginDelimiter /\ \A k \in 1..n : section[1 + k] = content[k]
    BY <2>2, <2>3, <2>7, <2>8
  <2>12. section[n + 2] = EndDelimiter
    <3>1. section[Len(opened) + 1] = <<EndDelimiter>>[1]
      BY <2>3, <2>8
    <3>2. Len(opened) + 1 = n + 2
      BY <2>7, <2>8
    <3> QED BY <3>1, <3>2
  <2>13. \A k \in 1..n : b[p + 1 + k] = content[k]
    <3> SUFFICES ASSUME NEW k \in 1..n PROVE b[p + 1 + k] = content[k]
      OBVIOUS
    <3>1. b[p + (1 + k)] = section[1 + k]
      BY <2>8, <2>10
    <3> QED BY <2>8, <2>11, <3>1
  <2>14. b[p + 1] = BeginDelimiter /\ b[p + n + 2] = EndDelimiter
    <3>1. b[p + 1] = section[1] /\ b[p + (n + 2)] = section[n + 2]
      BY <2>8, <2>10
    <3> QED BY <2>8, <2>11, <2>12, <3>1
  <2>15. \A k \in 1..q : b[p + n + 2 + k] = after[k]
    BY <2>6, <2>7
  <2> QED BY <2>6, <2>7, <2>9, <2>13, <2>14, <2>15
<1>5. /\ DOMAIN b = 1..Len(b)
      /\ \A x : x \in Range(b) <=> \E k \in 1..Len(b) : b[k] = x
      /\ \A x : x \in Range(before) <=> \E k \in 1..p : before[k] = x
      /\ \A x : x \in Range(after) <=> \E k \in 1..q : after[k] = x
      /\ \A x : x \in Range(content) <=> \E k \in 1..n : content[k] = x
  BY <1>2, PiecesOf
<1> HIDE DEF p, n, q
<1>3. Range(before) \cup Range(after) \subseteq Range(b)
  <2>1. \A k \in 1..p : k \in 1..Len(b)
    BY <1>1, <1>2
  <2>2. \A k \in 1..q : (p + n + 2 + k) \in 1..Len(b)
    BY <1>1, <1>2
  <2>3. ASSUME NEW x \in Range(before) PROVE x \in Range(b)
    <3>1. PICK k \in 1..p : before[k] = x
      BY <1>5, <2>3
    <3>2. b[k] = x /\ k \in 1..Len(b)
      BY <1>2, <2>1, <3>1
    <3> QED BY <1>5, <3>2
  <2>4. ASSUME NEW x \in Range(after) PROVE x \in Range(b)
    <3>1. PICK k \in 1..q : after[k] = x
      BY <1>5, <2>4
    <3>2. b[p + n + 2 + k] = x /\ (p + n + 2 + k) \in 1..Len(b)
      BY <1>2, <2>2, <3>1
    <3> QED BY <1>5, <3>2
  <2> QED BY <2>3, <2>4
<1>4. ASSUME Delimiters \cap Range(content) = {}
      PROVE  readManagedSection(b) = content /\ applies(b)
  <2>1. /\ \A k \in 1..p : before[k] \notin Delimiters
        /\ \A k \in 1..n : content[k] \notin Delimiters
        /\ \A k \in 1..q : after[k] \notin Delimiters
    BY <1>4, <1>5
  <2>2. \A k \in 1..Len(b) : \/ k \in 1..p
                             \/ k = p + 1
                             \/ \E l \in 1..n : k = p + 1 + l
                             \/ k = p + n + 2
                             \/ \E l \in 1..q : k = p + n + 2 + l
    <3>1. SUFFICES ASSUME NEW k \in 1..Len(b), k \notin 1..p, k # p + 1, k # p + n + 2,
                          ~\E l \in 1..n : k = p + 1 + l
                   PROVE  \E l \in 1..q : k = p + n + 2 + l
      OBVIOUS
    <3>2. k > p + 1
      BY <1>1, <3>1
    <3>3. k > p + n + 1
      <4>1. SUFFICES ASSUME k <= p + n + 1 PROVE FALSE
        BY <1>1
      <4>2. (k - p - 1) \in 1..n /\ k = p + 1 + (k - p - 1)
        BY <1>1, <3>2, <4>1
      <4> QED BY <3>1, <4>2
    <3>4. (k - p - n - 2) \in 1..q /\ k = p + n + 2 + (k - p - n - 2)
      <4>1. k <= p + n + q + 2
        BY <1>1, <1>2, <3>1
      <4> QED BY <1>1, <3>1, <3>3, <4>1
    <3> QED BY <3>4
  <2>3. \A k \in 1..Len(b) : b[k] \in Delimiters => k = p + 1 \/ k = p + n + 2
    <3> SUFFICES ASSUME NEW k \in 1..Len(b), b[k] \in Delimiters, k # p + 1, k # p + n + 2
                 PROVE  FALSE
      OBVIOUS
    <3>1. \/ k \in 1..p
          \/ \E l \in 1..n : k = p + 1 + l
          \/ \E l \in 1..q : k = p + n + 2 + l
      BY <2>2
    <3>2. k \notin 1..p
      BY <1>2, <2>1
    <3>3. ASSUME NEW l \in 1..n, k = p + 1 + l PROVE FALSE
      BY <1>2, <2>1, <3>3
    <3>4. ASSUME NEW l \in 1..q, k = p + n + 2 + l PROVE FALSE
      BY <1>2, <2>1, <3>4
    <3> QED BY <3>1, <3>2, <3>3, <3>4
  <2>4. DOMAIN b = 1..Len(b) /\ (p + 1) \in 1..Len(b) /\ (p + n + 2) \in 1..Len(b) /\ p + 1 < p + n + 2
    BY <1>1, <1>2, <1>5
  <2>5. at(b, BeginDelimiter) = {p + 1} /\ at(b, EndDelimiter) = {p + n + 2}
    BY <1>0, <1>2, <2>3, <2>4 DEF at
  <2>6. indexOf(b, BeginDelimiter) = p + 1 /\ indexOf(b, EndDelimiter) = p + n + 2
    <3>1. at(b, BeginDelimiter) # {} /\ at(b, EndDelimiter) # {} /\ b \in Seq(Pieces)
      BY <1>2, <2>5
    <3>2. indexOf(b, BeginDelimiter) \in at(b, BeginDelimiter)
          /\ indexOf(b, EndDelimiter) \in at(b, EndDelimiter)
      BY <3>1, PlaceIs
    <3> QED BY <2>5, <3>2
  <2>7. paired(b)
    BY <2>4, <2>5, <2>6 DEF paired
  <2>8. ~duplicated(b)
    <3>1. Cardinality({p + 1}) = 1 /\ Cardinality({p + n + 2}) = 1
      BY FS_Singleton
    <3>2. ~(1 > 1)
      OBVIOUS
    <3> QED BY <3>2, <2>5, <3>1 DEF duplicated
  <2>9. SubSeq(b, p + 2, p + n + 1) = content
    <3> DEFINE s == SubSeq(b, p + 2, p + n + 1)
    <3>1. s \in Seq(Pieces) /\ Len(s) = n /\ \A k \in 1..n : s[k] = b[p + 1 + k]
      <4>1. /\ Len(b) \in Nat /\ (p + n + 1) \in 0..Len(b) /\ (p + 2) \in 1..(Len(b) + 1)
            /\ (p + n + 1) - (p + 2) + 1 = n
        BY <1>1, <1>2
      <4>2. /\ s \in Seq(Pieces) /\ Len(s) = (p + n + 1) - (p + 2) + 1
            /\ \A k \in 1..((p + n + 1) - (p + 2) + 1) : s[k] = b[(p + 2) + k - 1]
        <5> HIDE DEF s
        <5>1. (p + 2) <= (p + n + 1) + 1
          BY <1>1
        <5> QED BY <1>2, <4>1, <5>1, Cut DEF s
      <4>3. \A k \in 1..n : (p + 2) + k - 1 = p + 1 + k
        BY <1>1
      <4> QED BY <4>1, <4>2, <4>3
    <3>2. Len(content) = n
      BY DEF n
    <3> HIDE DEF s
    <3>3. \A k \in 1..n : s[k] = content[k]
      BY <1>2, <3>1
    <3>4. s = content
      BY <3>1, <3>2, <3>3
    <3> QED BY <3>4 DEF s
  <2>10. (p + 1) + 1 = p + 2 /\ (p + n + 2) - 1 = p + n + 1
    BY <1>1
  <2>11. readManagedSection(b) = content
    BY <2>6, <2>7, <2>9, <2>10 DEF readManagedSection
  <2> QED BY <2>7, <2>8, <2>11 DEF applies
<1> QED
  BY <1>2, <1>3, <1>4

\* What is written is a sequence of pieces.
LEMMA ContentIs ==
    ASSUME SectionAssumption, NEW content \in {Status} \cup Documents
    PROVE  /\ content \in Seq(Pieces)
           /\ Delimiters \cap Range(content) # {} => Quoting
<1>1. CASE content = Status
  <2>1. Status \in Seq(Pieces)
    BY DEF Status, Pieces, Range
  <2>2. Delimiters \cap Range(Status) = {}
    BY DEF Status, Delimiters, BeginDelimiter, EndDelimiter, Range
  <2> QED BY <1>1, <2>1, <2>2
<1>2. CASE content \in Documents
  <2>1. Range(content) \subseteq Pieces
    BY <1>2 DEF Pieces
  <2>2. content \in Seq(STRING)
    BY <1>2 DEF SectionAssumption
  <2>3. /\ Len(content) \in Nat /\ content = [k \in 1..Len(content) |-> content[k]]
        /\ DOMAIN content = 1..Len(content)
    BY <2>2
  <2>4. \A k \in 1..Len(content) : content[k] \in Pieces
    BY <2>1, <2>3 DEF Range
  <2>5. content \in Seq(Pieces)
    BY <2>3, <2>4
  <2> QED BY <1>2, <2>5 DEF Quoting
<1> QED
  BY <1>1, <1>2

\* The description is written.
LEMMA Stored ==
    ASSUME SectionAssumption, SectionInv, NEW r \in Writers, update[r].at = "write", stores(r)
    PROVE  /\ body' \in Seq(Pieces) /\ latest' \in Seq(Pieces)
           /\ HumanTextKept' /\ WrittenIsRead'
           /\ ~applies(body') => Quoting
<1> DEFINE b == update[r].base
           content == update[r].content
<1>1. /\ b \in Seq(Pieces) /\ applies(b) /\ content \in {Status} \cup Documents
      /\ body' = upsertManagedSection(b, content)
      /\ kept' \subseteq outside(b) /\ latest' = content
  BY DEF SectionInv, SectionTyped, CallsHeld, stores
<1>2. content \in Seq(Pieces) /\ (Delimiters \cap Range(content) # {} => Quoting)
  BY <1>1, ContentIs
<1> HIDE DEF b, content
<1>3. PICK before, after \in Seq(Pieces) :
        /\ upsertManagedSection(b, content) = Whole(before, content, after)
        /\ Delimiters \cap Range(before) = {} /\ Delimiters \cap Range(after) = {}
        /\ outside(b) \subseteq Range(before) \cup Range(after)
  BY <1>1, <1>2, UpsertIs
<1>4. /\ body' \in Seq(Pieces) /\ Range(before) \cup Range(after) \subseteq Range(body')
      /\ Delimiters \cap Range(content) = {} => readManagedSection(body') = content /\ applies(body')
  <2>1. body' = Whole(before, content, after)
    BY <1>1, <1>3
  <2> QED BY <1>2, <1>3, <2>1, WrittenWhole
<1>5. HumanTextKept'
  BY <1>1, <1>3, <1>4 DEF HumanTextKept
<1>6. WrittenIsRead'
  BY <1>1, <1>4 DEF WrittenIsRead
<1> QED
  BY <1>1, <1>2, <1>4, <1>5, <1>6

LEMMA NoUpdateIs ==
    /\ NoUpdate \in [at : {"idle", "read", "write", "comment"}, base : Seq(Pieces), content : Seq(Pieces)]
    /\ NoUpdate.at = "idle"
BY DEF NoUpdate

LEMMA SectionInitial ==
    ASSUME SectionAssumption, SectionInit
    PROVE  SectionInv
<1>1. body \in Seq(Pieces) /\ applies(body)
  <2>1. CASE body = <<>>
    BY <2>1 DEF applies, blank, at
  <2>2. ASSUME NEW x \in Texts, body = <<x>> PROVE body \in Seq(Pieces) /\ applies(body)
    <3>1. x \in Pieces /\ x # BeginDelimiter /\ x # EndDelimiter
      BY DEF SectionAssumption, Delimiters, Pieces
    <3>2. DOMAIN body = {1} /\ body[1] = x
      BY <2>2
    <3> QED BY <2>2, <3>1, <3>2 DEF applies, blank, at
  <2> QED BY <2>1, <2>2 DEF SectionInit
<1>2. SectionTyped
  <2>1. update \in [Writers -> [at : {"idle", "read", "write", "comment"}, base : Seq(Pieces),
                               content : Seq(Pieces)]]
    BY NoUpdateIs DEF SectionInit
  <2>2. reported \in [Writers -> {"none", "applied", "refused", "failed"}]
    BY DEF SectionInit
  <2>3. latest \in Seq(Pieces)
    BY DEF SectionInit
  <2> QED BY <1>1, <2>1, <2>2, <2>3 DEF SectionTyped, SectionInit
<1>3. HumanTextKept /\ WrittenIsRead
  BY DEF HumanTextKept, WrittenIsRead, SectionInit, outside
<1>4. CallsHeld
  BY DEF CallsHeld, SectionInit, NoUpdate
<1> QED
  BY <1>1, <1>2, <1>3, <1>4 DEF SectionInv

\* A call that ends, and what the others hold.
LEMMA Returned ==
    ASSUME SectionTyped, CallsHeld, NEW r \in Writers, NEW how \in {"applied", "refused", "failed"},
           returns(r, how), edits' = edits, flagged => flagged', how = "refused" => flagged'
    PROVE  /\ update' \in [Writers -> [at : {"idle", "read", "write", "comment"},
                                       base : Seq(Pieces), content : Seq(Pieces)]]
           /\ reported' \in [Writers -> {"none", "applied", "refused", "failed"}]
           /\ CallsHeld'
<1>1. NoUpdate \in [at : {"idle", "read", "write", "comment"}, base : Seq(Pieces), content : Seq(Pieces)]
      /\ NoUpdate.at = "idle"
  BY NoUpdateIs
<1>2. update' = [update EXCEPT ![r] = NoUpdate] /\ reported' = [reported EXCEPT ![r] = how]
  BY DEF returns
<1>3. /\ update' \in [Writers -> [at : {"idle", "read", "write", "comment"},
                                  base : Seq(Pieces), content : Seq(Pieces)]]
      /\ reported' \in [Writers -> {"none", "applied", "refused", "failed"}]
      /\ update'[r] = NoUpdate /\ reported'[r] = how
      /\ \A s \in Writers : s # r => update'[s] = update[s] /\ reported'[s] = reported[s]
  BY <1>1, <1>2 DEF SectionTyped
<1>4. CallsHeld'
  BY <1>1, <1>3 DEF CallsHeld, Quoting
<1> QED
  BY <1>3, <1>4

LEMMA SectionStep ==
    ASSUME SectionAssumption, SectionInv, [SectionNext]_sectionVars
    PROVE  SectionInv'
<1> DEFINE Update == [at : {"idle", "read", "write", "comment"}, base : Seq(Pieces),
                      content : Seq(Pieces)]
<1>0. /\ SectionTyped /\ HumanTextKept /\ WrittenIsRead /\ CallsHeld
      /\ ~applies(body) => Quoting
      /\ update \in [Writers -> Update]
  BY DEF SectionInv, SectionTyped
<1>1. ASSUME NEW r \in Writers, Start(r) PROVE SectionInv'
  <2>1. PICK content \in {Status} \cup Documents :
          update' = [update EXCEPT ![r] = [NoUpdate EXCEPT !.at = "read", !.content = content]]
    BY <1>1 DEF Start
  <2> DEFINE entry == [NoUpdate EXCEPT !.at = "read", !.content = content]
  <2>2. content \in Seq(Pieces)
    BY ContentIs
  <2>3. entry \in Update /\ entry.at = "read" /\ entry.content = content
    BY <2>2, NoUpdateIs
  <2>4. update' = [update EXCEPT ![r] = entry]
        /\ UNCHANGED <<body, reported, kept, latest, flagged, edits>>
    BY <1>1, <2>1 DEF Start
  <2> HIDE DEF entry
  <2>5. /\ update' \in [Writers -> Update] /\ update'[r] = entry
        /\ \A s \in Writers : s # r => update'[s] = update[s]
    BY <1>0, <2>3, <2>4
  <2>6. SectionTyped'
    BY <1>0, <2>4, <2>5 DEF SectionTyped
  <2>7. CallsHeld'
    BY <1>0, <2>3, <2>4, <2>5 DEF CallsHeld, Quoting
  <2>8. HumanTextKept' /\ WrittenIsRead' /\ (~applies(body') => Quoting')
    BY <1>0, <2>4 DEF HumanTextKept, WrittenIsRead, Quoting
  <2> QED BY <2>6, <2>7, <2>8 DEF SectionInv
<1>2. ASSUME NEW r \in Writers, getDescription(r) PROVE SectionInv'
  <2> DEFINE place == IF applies(body) THEN "write" ELSE "comment"
             entry == [update[r] EXCEPT !.base = body, !.at = place]
  <2>2. place \in {"write", "comment"} /\ (place = "write" => applies(body))
        /\ (place = "comment" => Quoting)
    BY <1>0
  <2>3. update' = [update EXCEPT ![r] = entry]
        /\ UNCHANGED <<body, reported, kept, latest, flagged, edits>> /\ update[r].at = "read"
    BY <1>2 DEF getDescription
  <2> HIDE DEF place
  <2>4. entry \in Update /\ entry.at = place /\ entry.content = update[r].content /\ entry.base = body
    BY <1>0, <2>2 DEF SectionTyped
  <2> HIDE DEF entry
  <2>5. /\ update' \in [Writers -> Update] /\ update'[r] = entry
        /\ \A s \in Writers : s # r => update'[s] = update[s]
    BY <1>0, <2>3, <2>4
  <2>6. SectionTyped'
    BY <1>0, <2>3, <2>5 DEF SectionTyped
  <2>7. CallsHeld'
    BY <1>0, <2>2, <2>3, <2>4, <2>5 DEF CallsHeld, Quoting
  <2>8. HumanTextKept' /\ WrittenIsRead' /\ (~applies(body') => Quoting')
    BY <1>0, <2>3 DEF HumanTextKept, WrittenIsRead, Quoting
  <2> QED BY <2>6, <2>7, <2>8 DEF SectionInv
<1>3. ASSUME NEW r \in Writers, NEW how \in {"applied", "refused", "failed"}, returns(r, how),
             flagged' \in BOOLEAN, flagged => flagged', how = "refused" => flagged', edits' = edits,
             \/ UNCHANGED <<body, kept, latest>>
             \/ update[r].at = "write" /\ stores(r)
      PROVE  SectionInv'
  <2>1. /\ update' \in [Writers -> Update]
        /\ reported' \in [Writers -> {"none", "applied", "refused", "failed"}]
        /\ CallsHeld'
    BY <1>0, <1>3, Returned
  <2>2. CASE UNCHANGED <<body, kept, latest>>
    <3>1. SectionTyped'
      BY <1>0, <1>3, <2>1, <2>2 DEF SectionTyped
    <3>2. HumanTextKept' /\ WrittenIsRead' /\ (~applies(body') => Quoting')
      BY <1>0, <1>3, <2>2 DEF HumanTextKept, WrittenIsRead, Quoting
    <3> QED BY <2>1, <3>1, <3>2 DEF SectionInv
  <2>3. CASE update[r].at = "write" /\ stores(r)
    <3>1. /\ body' \in Seq(Pieces) /\ latest' \in Seq(Pieces) /\ HumanTextKept' /\ WrittenIsRead'
          /\ ~applies(body') => Quoting
      BY <2>3, Stored
    <3>2. SectionTyped' /\ (Quoting => Quoting')
      BY <1>0, <1>3, <2>1, <3>1 DEF SectionTyped, Quoting
    <3> QED BY <2>1, <3>1, <3>2 DEF SectionInv
  <2> QED BY <1>3, <2>2, <2>3
<1>4. ASSUME NEW r \in Writers, updateDescription(r) \/ comment(r) \/ RequestFails(r) PROVE SectionInv'
  <2>1. flagged \in BOOLEAN
    BY <1>0 DEF SectionTyped
  <2>2. CASE updateDescription(r)
    BY <1>3, <2>1, <2>2 DEF updateDescription
  <2>3. CASE comment(r)
    BY <1>3, <2>1, <2>3 DEF comment
  <2>4. CASE RequestFails(r)
    <3>1. returns(r, "failed") /\ edits' = edits
      BY <2>4 DEF RequestFails
    <3>2. \/ flagged' = flagged /\ UNCHANGED <<body, kept, latest>>
          \/ flagged' = flagged /\ update[r].at = "write" /\ stores(r)
          \/ flagged' = TRUE /\ UNCHANGED <<body, kept, latest>>
      BY <2>4 DEF RequestFails
    <3> QED BY <1>3, <2>1, <3>1, <3>2
  <2> QED BY <1>4, <2>2, <2>3, <2>4
<1>5. CASE PeopleEdit
  <2>1. /\ edits' = edits + 1 /\ kept' = outside(body') /\ latest' = <<>>
        /\ UNCHANGED <<update, reported, flagged>>
    BY <1>5 DEF PeopleEdit
  <2>2. body' \in Seq(Pieces)
    <3>1. body \in Seq(Pieces) /\ Len(body) \in Nat
      BY <1>0 DEF SectionTyped
    <3>2. ASSUME NEW i \in 1..(Len(body) + 1), NEW piece \in Texts \cup Delimiters
          PROVE  InsertAt(body, i, piece) \in Seq(Pieces)
      <4>1. piece \in Pieces
        BY DEF Pieces
      <4>2. SubSeq(body, 1, i - 1) \in Seq(Pieces) /\ SubSeq(body, i, Len(body)) \in Seq(Pieces)
        BY <3>1
      <4> QED BY <4>1, <4>2 DEF InsertAt
    <3>3. ASSUME NEW i \in 1..Len(body)
          PROVE  RemoveAt(body, i) \in Seq(Pieces)
      <4>1. SubSeq(body, 1, i - 1) \in Seq(Pieces) /\ SubSeq(body, i + 1, Len(body)) \in Seq(Pieces)
        BY <3>1
      <4> QED BY <4>1 DEF RemoveAt
    <3> QED BY <1>5, <3>1, <3>2, <3>3 DEF PeopleEdit
  <2>3. SectionTyped' /\ edits' > 0
    BY <1>0, <2>1, <2>2 DEF SectionTyped
  <2>4. HumanTextKept' /\ WrittenIsRead'
    BY <2>1 DEF HumanTextKept, WrittenIsRead, outside
  <2>5. CallsHeld' /\ Quoting'
    BY <1>0, <2>1, <2>3 DEF CallsHeld, Quoting
  <2> QED BY <2>3, <2>4, <2>5 DEF SectionInv
<1>6. CASE UNCHANGED sectionVars
  <2>1. SectionTyped' /\ CallsHeld'
    BY <1>0, <1>6 DEF sectionVars, SectionTyped, CallsHeld, Quoting
  <2>2. HumanTextKept' /\ WrittenIsRead' /\ (~applies(body') => Quoting')
    BY <1>0, <1>6 DEF sectionVars, HumanTextKept, WrittenIsRead, Quoting
  <2> QED BY <2>1, <2>2 DEF SectionInv
<1> QED
  BY <1>1, <1>2, <1>4, <1>5, <1>6 DEF SectionNext

LEMMA SectionInvariant ==
    ASSUME SectionAssumption
    PROVE  SectionSpec => []SectionInv
<1>1. SectionInit => SectionInv
  BY SectionInitial
<1>2. SectionInv /\ [SectionNext]_sectionVars => SectionInv'
  BY SectionStep
<1> QED
  BY <1>1, <1>2, PTL DEF SectionSpec

\* HumanTextKept: what people have outside of the section stays in the description, when
\* a run writes the section, when it refuses to, and when a request fails.
THEOREM HumanTextIsKept ==
    ASSUME SectionAssumption
    PROVE  SectionSpec => []HumanTextKept
<1>1. SectionInv => HumanTextKept
  BY DEF SectionInv
<1> QED
  BY <1>1, SectionInvariant, PTL

\* WrittenIsRead: the checkpoint or document that was written last is what is read back
\* until people edit the description, unless it quotes a delimiter itself.
THEOREM WhatIsWrittenIsRead ==
    ASSUME SectionAssumption
    PROVE  SectionSpec => []WrittenIsRead
<1>1. SectionInv => WrittenIsRead
  BY DEF SectionInv
<1> QED
  BY <1>1, SectionInvariant, PTL

\* RefusalFlagged: a refusal has left a comment for a human, and what is refused is a
\* description people have edited, or one a document with a delimiter was written to.
THEOREM RefusalsAreFlagged ==
    ASSUME SectionAssumption
    PROVE  SectionSpec => []RefusalFlagged
<1>1. SectionInv => RefusalFlagged
  BY DEF SectionInv, RefusalFlagged, CallsHeld, SectionTyped, Quoting
<1> QED
  BY <1>1, SectionInvariant, PTL

--------------------------------------------------------------------------------
(***** Sequences of sequences ***************************************************)

\* The recursion of FlattenSeq has a solution.
LEMMA FlattenExists ==
    ASSUME NEW s, NEW n \in Nat \ {0}
    PROVE  \E f : f = [i \in 1..n |-> IF i = 1 THEN s[i] ELSE f[i - 1] \o s[i]]
<1> DEFINE Solves(f, m) == f = [i \in 1..m |-> IF i = 1 THEN s[i] ELSE f[i - 1] \o s[i]]
           Bad == {m \in Nat : m # 0 /\ \A f : ~Solves(f, m)}
<1>1. SUFFICES ASSUME \A f : ~Solves(f, n) PROVE FALSE
  <2> HIDE DEF Solves
  <2>1. \E f : Solves(f, n)
    BY <1>1
  <2> QED BY <2>1 DEF Solves
<1>2. n \in Bad /\ Bad \subseteq Nat
  BY <1>1
<1>3. PICK m : m \in Bad /\ \A k \in Bad : m <= k
  <2> HIDE DEF Bad
  <2> QED BY <1>2, Least
<1>4. m \in Nat /\ m # 0 /\ \A f : ~Solves(f, m)
  <2> HIDE DEF Solves
  <2> QED BY <1>3
<1>5. m # 1
  <2>1. Solves([i \in 1..1 |-> s[i]], 1)
    OBVIOUS
  <2> HIDE DEF Solves
  <2> QED BY <1>4, <2>1
<1>6. m - 1 \in Nat /\ m - 1 # 0 /\ ~(m <= m - 1)
  BY <1>4, <1>5
<1>7. m - 1 \notin Bad
  <2> HIDE DEF Bad
  <2> QED BY <1>3, <1>6
<1>8. PICK f : Solves(f, m - 1)
  <2> HIDE DEF Solves
  <2> QED BY <1>6, <1>7
<1>9. \A i \in 1..(m - 1) : f[i] = IF i = 1 THEN s[i] ELSE f[i - 1] \o s[i]
  BY <1>8
<1>10. Solves([i \in 1..m |-> IF i = m THEN f[m - 1] \o s[m] ELSE f[i]], m)
  <2> DEFINE g == [i \in 1..m |-> IF i = m THEN f[m - 1] \o s[m] ELSE f[i]]
  <2>1. ASSUME NEW i \in 1..m
        PROVE  g[i] = IF i = 1 THEN s[i] ELSE g[i - 1] \o s[i]
    <3>1. CASE i = m
      <4>0. m - 1 \in 1..m /\ m - 1 # m
        BY <1>4, <1>6
      <4>1. g[i] = f[m - 1] \o s[m]
        BY <3>1
      <4>2. g[m - 1] = f[m - 1]
        BY <4>0
      <4> QED BY <1>5, <3>1, <4>1, <4>2
    <3>2. CASE i # m
      <4>1. i \in 1..(m - 1)
        BY <1>4, <3>2
      <4>2. g[i] = f[i] /\ (i # 1 => i - 1 \in 1..m /\ i - 1 # m)
        BY <1>4, <3>2, <4>1
      <4>3. i # 1 => g[i - 1] = f[i - 1]
        BY <4>2
      <4> QED BY <1>9, <4>1, <4>2, <4>3
    <3> QED BY <3>1, <3>2
  <2> QED BY <2>1
<1> HIDE DEF Solves
<1> QED
  BY <1>4, <1>10

\* Pairs of a sequence stand in a relation.
Sorted(r, R) == \A k, l \in DOMAIN r : k < l => <<r[k], r[l]>> \in R

LEMMA SortedConcat ==
    ASSUME NEW T, NEW r \in Seq(T), NEW t \in Seq(T), NEW R, Sorted(r, R), Sorted(t, R),
           \A k \in DOMAIN r, l \in DOMAIN t : <<r[k], t[l]>> \in R
    PROVE  Sorted(r \o t, R)
<1>1. /\ DOMAIN r = 1..Len(r) /\ Len(r) \in Nat /\ DOMAIN t = 1..Len(t) /\ Len(t) \in Nat
      /\ DOMAIN (r \o t) = 1..(Len(r) + Len(t))
      /\ \A k \in 1..Len(r) : (r \o t)[k] = r[k]
      /\ \A k \in (Len(r) + 1)..(Len(r) + Len(t)) : (r \o t)[k] = t[k - Len(r)]
  OBVIOUS
<1> SUFFICES ASSUME NEW k \in 1..(Len(r) + Len(t)), NEW l \in 1..(Len(r) + Len(t)), k < l
             PROVE  <<(r \o t)[k], (r \o t)[l]>> \in R
  BY <1>1 DEF Sorted
<1>2. CASE l <= Len(r)
  <2>1. k \in DOMAIN r /\ l \in DOMAIN r /\ (r \o t)[k] = r[k] /\ (r \o t)[l] = r[l]
    BY <1>1, <1>2
  <2> QED BY <2>1 DEF Sorted
<1>3. CASE k <= Len(r) /\ Len(r) < l
  <2>1. l - Len(r) \in DOMAIN t /\ k \in DOMAIN r
    BY <1>1, <1>3
  <2>2. (r \o t)[l] = t[l - Len(r)] /\ (r \o t)[k] = r[k]
    BY <1>1, <1>3
  <2> QED BY <2>1, <2>2
<1>4. CASE Len(r) < k
  <2>1. k - Len(r) \in DOMAIN t /\ l - Len(r) \in DOMAIN t /\ k - Len(r) < l - Len(r)
    BY <1>1, <1>4
  <2>2. (r \o t)[l] = t[l - Len(r)] /\ (r \o t)[k] = t[k - Len(r)]
    BY <1>1, <1>4
  <2> QED BY <2>1, <2>2 DEF Sorted
<1>5. l <= Len(r) \/ (k <= Len(r) /\ Len(r) < l) \/ Len(r) < k
  BY <1>1
<1> QED
  BY <1>2, <1>3, <1>4, <1>5

LEMMA RangeConcat ==
    ASSUME NEW T, NEW r \in Seq(T), NEW t \in Seq(T)
    PROVE  Range(r \o t) = Range(r) \cup Range(t)
<1>1. /\ DOMAIN r = 1..Len(r) /\ Len(r) \in Nat /\ DOMAIN t = 1..Len(t) /\ Len(t) \in Nat
      /\ DOMAIN (r \o t) = 1..(Len(r) + Len(t))
      /\ \A k \in 1..Len(r) : (r \o t)[k] = r[k]
      /\ \A k \in (Len(r) + 1)..(Len(r) + Len(t)) : (r \o t)[k] = t[k - Len(r)]
  OBVIOUS
<1>2. ASSUME NEW x \in Range(r \o t) PROVE x \in Range(r) \cup Range(t)
  <2>1. PICK k \in 1..(Len(r) + Len(t)) : x = (r \o t)[k]
    BY <1>1 DEF Range
  <2>2. CASE k <= Len(r)
    BY <1>1, <2>1, <2>2 DEF Range
  <2>3. CASE ~(k <= Len(r))
    <3>1. k - Len(r) \in DOMAIN t /\ x = t[k - Len(r)]
      BY <1>1, <2>1, <2>3
    <3> QED BY <3>1 DEF Range
  <2> QED BY <2>2, <2>3
<1>3. ASSUME NEW x \in Range(r) PROVE x \in Range(r \o t)
  BY <1>1 DEF Range
<1>4. ASSUME NEW x \in Range(t) PROVE x \in Range(r \o t)
  <2>1. PICK l \in DOMAIN t : x = t[l]
    BY DEF Range
  <2>2. Len(r) + l \in DOMAIN (r \o t) /\ (r \o t)[Len(r) + l] = t[l]
    BY <1>1
  <2> QED BY <2>1, <2>2 DEF Range
<1> QED
  BY <1>2, <1>3, <1>4

\* What a flattened sequence has, and in which order.
LEMMA Flattened ==
    ASSUME NEW T, NEW s \in Seq(Seq(T)), NEW R,
           \A i \in DOMAIN s : Sorted(s[i], R),
           \A i, j \in DOMAIN s : i < j => \A x \in Range(s[i]), y \in Range(s[j]) : <<x, y>> \in R
    PROVE  /\ FlattenSeq(s) \in Seq(T)
           /\ Range(FlattenSeq(s)) = UNION {Range(s[i]) : i \in DOMAIN s}
           /\ Sorted(FlattenSeq(s), R)
<1>1. DOMAIN s = 1..Len(s) /\ Len(s) \in Nat /\ \A i \in 1..Len(s) : s[i] \in Seq(T)
  OBVIOUS
<1>2. CASE Len(s) = 0
  <2>1. s = <<>> /\ FlattenSeq(s) = s
    BY <1>1, <1>2 DEF FlattenSeq
  <2>2. <<>> \in Seq(T) /\ Range(<<>>) = {} /\ Sorted(<<>>, R) /\ DOMAIN s = {}
    BY <2>1 DEF Range, Sorted
  <2> QED BY <2>1, <2>2
<1>3. CASE Len(s) # 0
  <2> DEFINE Solves(g) == g = [i \in 1..Len(s) |-> IF i = 1 THEN s[i] ELSE g[i - 1] \o s[i]]
  <2>0. \E g : Solves(g)
    <3>1. Len(s) \in Nat \ {0}
      BY <1>1, <1>3
    <3> QED BY <3>1, FlattenExists
  <2>1. PICK f : Solves(f) /\ FlattenSeq(s) = f[Len(s)]
    <3>1. FlattenSeq(s) = (CHOOSE g : Solves(g))[Len(s)]
      BY <1>3 DEF FlattenSeq
    <3>2. Solves(CHOOSE g : Solves(g))
      <4> HIDE DEF Solves
      <4> QED BY <2>0
    <3> HIDE DEF Solves
    <3> QED BY <3>1, <3>2
  <2> DEFINE Good(m) == /\ f[m] \in Seq(T)
                        /\ Range(f[m]) = UNION {Range(s[i]) : i \in 1..m}
                        /\ Sorted(f[m], R)
             Bad == {m \in 1..Len(s) : ~Good(m)}
  <2>2. SUFFICES Bad = {}
    <3>0. Len(s) \in 1..Len(s)
      BY <1>1, <1>3
    <3>1. Good(Len(s))
      <4> HIDE DEF Good
      <4> QED BY <2>2, <3>0
    <3> QED BY <1>1, <2>1, <3>1
  <2>3. SUFFICES ASSUME Bad # {} PROVE FALSE
    OBVIOUS
  <2>4. PICK m : m = Min(Bad)
    OBVIOUS
  <2>5. m \in Bad /\ \A k \in Bad : m <= k
    <3>1. Bad \subseteq Nat
      BY <1>1
    <3> HIDE DEF Bad
    <3> QED BY <2>3, <2>4, <3>1, Least
  <2>6. m \in 1..Len(s)
    BY <2>5
  <2>7. CASE m = 1
    <3>1. f[1] = s[1] /\ 1..1 = {1}
      BY <2>1, <2>6, <2>7
    <3>2. Good(1)
      BY <1>1, <2>6, <2>7, <3>1
    <3> QED BY <2>5, <2>7, <3>2
  <2>8. CASE m # 1
    <3>0. m \in Nat /\ m - 1 \in 1..Len(s) /\ ~(m <= m - 1)
      BY <1>1, <2>6, <2>8
    <3>1. m - 1 \in 1..Len(s) /\ f[m] = f[m - 1] \o s[m]
      BY <2>1, <2>6, <2>8, <3>0
    <3>2. m - 1 \notin Bad
      <4> HIDE DEF Bad
      <4> QED BY <2>5, <3>0
    <3>3. Good(m - 1)
      BY <3>1, <3>2
    <3>4. s[m] \in Seq(T) /\ Sorted(s[m], R)
      BY <1>1, <2>6
    <3>5. \A k \in DOMAIN f[m - 1], l \in DOMAIN s[m] : <<f[m - 1][k], s[m][l]>> \in R
      <4> TAKE k \in DOMAIN f[m - 1], l \in DOMAIN s[m]
      <4>1. f[m - 1][k] \in Range(f[m - 1]) /\ s[m][l] \in Range(s[m])
        BY DEF Range
      <4>2. PICK i \in 1..(m - 1) : f[m - 1][k] \in Range(s[i])
        BY <3>3, <4>1
      <4>3. i \in DOMAIN s /\ m \in DOMAIN s /\ i < m
        BY <1>1, <2>6
      <4> QED BY <4>1, <4>2, <4>3
    <3>6. f[m] \in Seq(T) /\ Sorted(f[m], R)
      <4>1. PICK r : r = f[m - 1]
        OBVIOUS
      <4>2. PICK t : t = s[m]
        OBVIOUS
      <4>3. /\ r \in Seq(T) /\ t \in Seq(T) /\ Sorted(r, R) /\ Sorted(t, R) /\ f[m] = r \o t
            /\ \A k \in DOMAIN r, l \in DOMAIN t : <<r[k], t[l]>> \in R
        BY <3>1, <3>3, <3>4, <3>5, <4>1, <4>2
      <4>4. Sorted(r \o t, R)
        BY <4>3, SortedConcat
      <4> QED BY <4>3, <4>4
    <3>7. Range(f[m]) = Range(f[m - 1]) \cup Range(s[m])
      BY <3>1, <3>3, <3>4, RangeConcat
    <3>8. 1..m = (1..(m - 1)) \cup {m}
      BY <1>1, <2>6
    <3>9. Range(f[m]) = UNION {Range(s[i]) : i \in 1..m}
      BY <3>3, <3>7, <3>8
    <3> QED BY <2>5, <3>6, <3>9
  <2> QED BY <2>7, <2>8
<1> QED
  BY <1>2, <1>3

--------------------------------------------------------------------------------
(***** An agent in a process of its own *****************************************)

\* The scripts are what agents print; a turn can only fail in codex's.
BackendAssumption ==
    /\ Providers \subseteq {"codex", "copilot", "claude-code"}
    /\ \A p \in Providers : \A s \in Scripts[p] :
         /\ s \in Seq(STRING)
         /\ p # "codex" => "turn.failed" \notin Range(s)

Outcomes == {"GOAL_COMPLETED", "BUDGET_EXHAUSTED", "CANCELLED", "FATAL_FAILURE"}
OutputTypes == {"agent.turn.started", "agent.usage", "agent.text", "agent.tool.started",
                "agent.tool.completed"}
Output == [type : OutputTypes, line : Nat]
Event == [type : OutputTypes \cup {"agent.started", "agent.completed"}, line : Nat \cup Outcomes]

\* A line is handled when its end was read; Copilot's output has none.
handled == IF provider = "codex" THEN pipe.read \div 3 ELSE pipe.read

\* The outputs among some events: in the order of their lines, none of a later line, and
\* each what is told of its line, with all that is told of the lines so far.
Outs(s) == {i \in DOMAIN s : s[i].type # "agent.started" /\ s[i].type # "agent.completed"}
LineOrder(s) == \A i, j \in Outs(s) : i < j => s[i].line <= s[j].line
UpTo(s, m) == \A i \in Outs(s) : s[i].line \in Nat /\ s[i].line <= m
Reported(s, m) ==
    /\ \A i \in Outs(s) : s[i].line \in 1..m /\ s[i] \in Range(translated(s[i].line))
    /\ \A n \in 1..m : Range(translated(n)) \subseteq Range(s)

LineBefore == {p \in Output \X Output : p[1].line <= p[2].line}

LEMMA KindsTold == \A kind : typesOf(kind) \in Seq(OutputTypes)
<1> TAKE kind
<1> DEFINE one == {"turn", "message", "warning", "item.started", "item.completed", "user", "usage",
                   "success", "error_max_turns", "error_during_execution"}
<1>1. CASE kind \in {"message", "warning"}
  <2>1. typesOf(kind) = <<"agent.text">>
    BY <1>1 DEF typesOf
  <2> QED BY <2>1 DEF OutputTypes
<1>2. CASE kind \in {"item.completed", "user"}
  <2>1. typesOf(kind) = <<"agent.tool.completed">>
    BY <1>2 DEF typesOf
  <2> QED BY <2>1 DEF OutputTypes
<1>3. CASE kind = "turn"
  <2>1. typesOf(kind) = <<"agent.turn.started">>
    BY <1>3 DEF typesOf
  <2> QED BY <2>1 DEF OutputTypes
<1>4. CASE kind = "item.started"
  <2>1. typesOf(kind) = <<"agent.tool.started">>
    BY <1>4 DEF typesOf
  <2> QED BY <2>1 DEF OutputTypes
<1>5. CASE kind = "assistant"
  <2>1. typesOf(kind) = <<"agent.turn.started", "agent.text", "agent.tool.started">>
    BY <1>5 DEF typesOf
  <2> QED BY <2>1 DEF OutputTypes
<1>6. CASE kind \in {"usage", "success", "error_max_turns", "error_during_execution"}
  <2>1. typesOf(kind) = <<"agent.usage">>
    BY <1>6 DEF typesOf
  <2> QED BY <2>1 DEF OutputTypes
<1>7. CASE kind \notin one \cup {"assistant"}
  <2>1. typesOf(kind) = <<>>
    BY <1>7 DEF typesOf
  <2> QED BY <2>1
<1> QED
  BY <1>1, <1>2, <1>3, <1>4, <1>5, <1>6, <1>7

LEMMA Translation ==
    ASSUME NEW i \in Nat
    PROVE  /\ translated(i) \in Seq(Output)
           /\ \A k \in DOMAIN translated(i) : translated(i)[k].line = i
           /\ Sorted(translated(i), LineBefore)
<1>1. PICK types \in Seq(OutputTypes) : translated(i) = [k \in DOMAIN types |-> event(types[k], i)]
  BY KindsTold DEF translated
<1>2. DOMAIN types = 1..Len(types) /\ Len(types) \in Nat /\ \A k \in DOMAIN types : types[k] \in OutputTypes
  OBVIOUS
<1>3. \A k \in DOMAIN types : event(types[k], i) \in Output /\ event(types[k], i).line = i
  BY <1>2 DEF event, Output
<1>4. translated(i) \in Seq(Output) /\ \A k \in DOMAIN translated(i) : translated(i)[k].line = i
  BY <1>1, <1>2, <1>3
<1>5. \A k \in DOMAIN translated(i) : translated(i)[k] \in Output
  BY <1>4
<1> QED
  BY <1>4, <1>5 DEF Sorted, LineBefore

\* What is told of the lines from one to another.
Told(ev, a, b) ==
    /\ ev \in Seq(Output) /\ Sorted(ev, LineBefore)
    /\ Range(ev) = UNION {Range(translated(n)) : n \in (a + 1)..b}

LEMMA EventsOfInterval ==
    ASSUME NEW a \in Nat, NEW b \in Nat, a <= b
    PROVE  Told(eventsOf(interval(a, b)), a, b)
<1> DEFINE s == [k \in 1..(b - a) |-> translated(a + k)]
<1>0. b - a \in Nat
  OBVIOUS
<1>1. DOMAIN interval(a, b) = 1..(b - a) /\ \A k \in 1..(b - a) : interval(a, b)[k] = a + k
  BY DEF interval
<1>2. eventsOf(interval(a, b)) = FlattenSeq(s)
  BY <1>1 DEF eventsOf
<1>3. \A k \in 1..(b - a) : a + k \in Nat
  OBVIOUS
<1>4. \A k \in 1..(b - a) : s[k] = translated(a + k) /\ s[k] \in Seq(Output)
  BY <1>3, Translation
<1>5. s \in Seq(Seq(Output)) /\ DOMAIN s = 1..(b - a)
  BY <1>0, <1>4
<1>6. \A k \in DOMAIN s : Sorted(s[k], LineBefore)
  BY <1>3, <1>5, Translation
<1>7. \A k \in 1..(b - a) : \A x \in Range(s[k]) : x.line = a + k /\ x \in Output
  <2>1. \A n \in Nat : \A x \in Range(translated(n)) : x.line = n /\ x \in Output
    <3> SUFFICES ASSUME NEW n \in Nat, NEW x \in Range(translated(n)) PROVE x.line = n /\ x \in Output
      OBVIOUS
    <3>1. PICK k \in DOMAIN translated(n) : x = translated(n)[k]
      BY DEF Range
    <3>2. translated(n) \in Seq(Output) /\ translated(n)[k].line = n
      BY Translation
    <3>3. translated(n)[k] \in Output
      BY <3>2
    <3> QED BY <3>1, <3>2, <3>3
  <2> QED BY <1>3, <1>4, <2>1
<1>8. \A k, l \in DOMAIN s : k < l => \A x \in Range(s[k]), y \in Range(s[l]) : <<x, y>> \in LineBefore
  <2> SUFFICES ASSUME NEW k \in 1..(b - a), NEW l \in 1..(b - a), k < l,
                      NEW x \in Range(s[k]), NEW y \in Range(s[l])
               PROVE  <<x, y>> \in LineBefore
    BY <1>5
  <2> HIDE DEF s
  <2>1. x.line = a + k /\ x \in Output /\ y.line = a + l /\ y \in Output
    BY <1>7
  <2>2. x.line <= y.line
    BY <2>1
  <2> QED BY <2>1, <2>2 DEF LineBefore
<1>9. (a + 1)..b = {a + k : k \in 1..(b - a)}
  <2>1. ASSUME NEW n \in (a + 1)..b PROVE n \in {a + k : k \in 1..(b - a)}
    <3>1. n - a \in 1..(b - a) /\ n = a + (n - a)
      OBVIOUS
    <3> QED BY <3>1
  <2> QED BY <2>1
<1>10. UNION {Range(s[k]) : k \in DOMAIN s} = UNION {Range(translated(n)) : n \in (a + 1)..b}
  <2>1. DOMAIN s = 1..(b - a) /\ \A k \in 1..(b - a) : s[k] = translated(a + k)
    BY <1>4, <1>5
  <2>2. UNION {Range(s[k]) : k \in DOMAIN s} = UNION {Range(translated(a + k)) : k \in 1..(b - a)}
    BY <2>1
  <2>3. UNION {Range(translated(a + k)) : k \in 1..(b - a)}
          = UNION {Range(translated(n)) : n \in {a + k : k \in 1..(b - a)}}
    BY Zenon
  <2> QED BY <1>9, <2>2, <2>3
<1> HIDE DEF s
<1>11. /\ FlattenSeq(s) \in Seq(Output)
       /\ Range(FlattenSeq(s)) = UNION {Range(s[k]) : k \in DOMAIN s}
       /\ Sorted(FlattenSeq(s), LineBefore)
  BY <1>5, <1>6, <1>8, Flattened
<1> QED
  BY <1>2, <1>10, <1>11 DEF Told

LEMMA ToldOne == ASSUME NEW n \in Nat PROVE Told(translated(n + 1), n, n + 1)
<1>1. n + 1 \in Nat /\ (n + 1)..(n + 1) = {n + 1}
  OBVIOUS
<1> QED
  BY <1>1, Translation DEF Told

\* An event that is no output adds none.
LEMMA OutsMarked ==
    ASSUME NEW s \in Seq(Event), NEW x \in Event, x.type \in {"agent.started", "agent.completed"}
    PROVE  /\ Append(s, x) \in Seq(Event)
           /\ Outs(Append(s, x)) = Outs(s) /\ \A i \in Outs(s) : Append(s, x)[i] = s[i]
           /\ LineOrder(s) => LineOrder(Append(s, x))
           /\ \A m : UpTo(s, m) => UpTo(Append(s, x), m)
           /\ \A m : Reported(s, m) => Reported(Append(s, x), m)
<1>1. /\ Append(s, x) \in Seq(Event) /\ DOMAIN s = 1..Len(s) /\ Len(s) \in Nat
      /\ DOMAIN Append(s, x) = 1..(Len(s) + 1) /\ Append(s, x)[Len(s) + 1] = x
      /\ \A i \in 1..Len(s) : Append(s, x)[i] = s[i]
  OBVIOUS
<1>2. Outs(Append(s, x)) = Outs(s) /\ \A i \in Outs(s) : Append(s, x)[i] = s[i]
  BY <1>1 DEF Outs
<1>3. Range(s) \subseteq Range(Append(s, x))
  BY <1>1 DEF Range
<1> QED
  BY <1>1, <1>2, <1>3 DEF LineOrder, UpTo, Reported

\* Outputs of later lines go on with those before.
LEMMA OutsGrown ==
    ASSUME NEW s \in Seq(Event), NEW m \in Nat, NEW m2 \in Nat, m <= m2, NEW ev \in Seq(Output),
           Sorted(ev, LineBefore), \A x \in Range(ev) : m <= x.line /\ x.line <= m2,
           LineOrder(s), UpTo(s, m)
    PROVE  s \o ev \in Seq(Event) /\ LineOrder(s \o ev) /\ UpTo(s \o ev, m2)
<1> DEFINE all == s \o ev
<1>1. /\ DOMAIN s = 1..Len(s) /\ Len(s) \in Nat /\ DOMAIN ev = 1..Len(ev) /\ Len(ev) \in Nat
      /\ DOMAIN all = 1..(Len(s) + Len(ev))
      /\ \A i \in 1..Len(s) : all[i] = s[i]
      /\ \A i \in (Len(s) + 1)..(Len(s) + Len(ev)) : all[i] = ev[i - Len(s)]
  OBVIOUS
<1>2. ev \in Seq(Event) /\ all \in Seq(Event)
  <2>1. Output \subseteq Event
    BY DEF Output, Event
  <2> QED BY <2>1, <1>1
<1> HIDE DEF all
<1>3. \A k \in DOMAIN ev : ev[k] \in Output /\ ev[k] \in Range(ev)
  BY <1>1 DEF Range
<1>4. \A k \in DOMAIN ev : ev[k].line \in Nat /\ m <= ev[k].line /\ ev[k].line <= m2
  BY <1>3 DEF Output
<1>5. \A i \in Outs(all) : \/ i \in Outs(s) /\ i <= Len(s) /\ all[i] = s[i]
                           \/ i - Len(s) \in DOMAIN ev /\ all[i] = ev[i - Len(s)] /\ i > Len(s)
  BY <1>1 DEF Outs
<1>6. UpTo(all, m2)
  <2>1. \A i \in Outs(s) : s[i].line \in Nat /\ s[i].line <= m2
    BY DEF UpTo
  <2>2. \A i \in Outs(all) : all[i].line \in Nat /\ all[i].line <= m2
    BY <1>4, <1>5, <2>1
  <2> QED BY <2>2 DEF UpTo
<1>7. \A k, l \in DOMAIN ev : k < l => ev[k].line <= ev[l].line
  BY DEF Sorted, LineBefore
<1>8. LineOrder(all)
  <2> SUFFICES ASSUME NEW i \in Outs(all), NEW j \in Outs(all), i < j
               PROVE  all[i].line <= all[j].line
    BY DEF LineOrder
  <2>0. i \in Nat /\ j \in Nat
    BY <1>1 DEF Outs
  <2>1. CASE j <= Len(s)
    <3>1. i \in Outs(s) /\ j \in Outs(s) /\ all[i] = s[i] /\ all[j] = s[j]
      BY <1>1, <1>5, <2>0, <2>1
    <3> QED BY <3>1 DEF LineOrder
  <2>2. CASE i <= Len(s) /\ ~(j <= Len(s))
    <3>1. all[i] = s[i] /\ i \in Outs(s) /\ j - Len(s) \in DOMAIN ev /\ all[j] = ev[j - Len(s)]
      BY <1>1, <1>5, <2>0, <2>2
    <3>2. s[i].line \in Nat /\ s[i].line <= m
      BY <3>1 DEF UpTo
    <3> QED BY <1>4, <3>1, <3>2
  <2>3. CASE ~(i <= Len(s))
    <3>1. /\ i - Len(s) \in DOMAIN ev /\ all[i] = ev[i - Len(s)]
          /\ j - Len(s) \in DOMAIN ev /\ all[j] = ev[j - Len(s)] /\ i - Len(s) < j - Len(s)
      BY <1>1, <1>5, <2>0, <2>3
    <3> QED BY <1>7, <3>1
  <2> QED BY <2>1, <2>2, <2>3
<1> QED
  BY <1>2, <1>6, <1>8 DEF all

\* What is told of the next lines goes on with the report.
LEMMA ReportGrown ==
    ASSUME NEW s \in Seq(Event), NEW m \in Nat, NEW m2 \in Nat, m <= m2, NEW ev, Told(ev, m, m2),
           LineOrder(s), UpTo(s, m), Reported(s, m)
    PROVE  s \o ev \in Seq(Event) /\ LineOrder(s \o ev) /\ UpTo(s \o ev, m2) /\ Reported(s \o ev, m2)
<1>1. ev \in Seq(Output) /\ Sorted(ev, LineBefore)
  BY DEF Told
<1>2. \A x \in Range(ev) : x.line \in (m + 1)..m2 /\ x \in Range(translated(x.line))
  <2> SUFFICES ASSUME NEW x \in Range(ev) PROVE x.line \in (m + 1)..m2 /\ x \in Range(translated(x.line))
    OBVIOUS
  <2>1. PICK n \in (m + 1)..m2 : x \in Range(translated(n))
    BY DEF Told
  <2>2. x.line = n
    <3>1. n \in Nat
      OBVIOUS
    <3> QED BY <2>1, <3>1, Translation DEF Range
  <2> QED BY <2>1, <2>2
<1>3. s \o ev \in Seq(Event) /\ LineOrder(s \o ev) /\ UpTo(s \o ev, m2)
  <2>1. \A x \in Range(ev) : m <= x.line /\ x.line <= m2
    BY <1>2
  <2> QED BY <1>1, <2>1, OutsGrown
<1>4. Range(s \o ev) = Range(s) \cup Range(ev)
  <2>1. ev \in Seq(Event)
    <3>1. Output \subseteq Event
      BY DEF Output, Event
    <3> QED BY <1>1, <3>1
  <2> QED BY <2>1, RangeConcat
<1>5. ASSUME NEW n \in 1..m2 PROVE Range(translated(n)) \subseteq Range(s \o ev)
  <2>1. CASE n <= m
    BY <1>4, <2>1 DEF Reported
  <2>2. CASE ~(n <= m)
    <3>1. n \in (m + 1)..m2
      BY <2>2
    <3> QED BY <1>4, <3>1 DEF Told
  <2> QED BY <2>1, <2>2
<1>6. ASSUME NEW i \in Outs(s \o ev)
      PROVE  (s \o ev)[i].line \in 1..m2 /\ (s \o ev)[i] \in Range(translated((s \o ev)[i].line))
  <2>1. /\ DOMAIN s = 1..Len(s) /\ Len(s) \in Nat /\ DOMAIN ev = 1..Len(ev) /\ Len(ev) \in Nat
        /\ DOMAIN (s \o ev) = 1..(Len(s) + Len(ev))
        /\ \A k \in 1..Len(s) : (s \o ev)[k] = s[k]
        /\ \A k \in (Len(s) + 1)..(Len(s) + Len(ev)) : (s \o ev)[k] = ev[k - Len(s)]
    BY <1>1
  <2>2. CASE i <= Len(s)
    <3>1. (s \o ev)[i] = s[i] /\ i \in Outs(s)
      BY <2>1, <2>2 DEF Outs
    <3> QED BY <3>1 DEF Reported
  <2>3. CASE ~(i <= Len(s))
    <3>1. i - Len(s) \in DOMAIN ev /\ (s \o ev)[i] = ev[i - Len(s)]
      BY <2>1, <2>3 DEF Outs
    <3>2. ev[i - Len(s)] \in Range(ev)
      BY <3>1 DEF Range
    <3> QED BY <1>2, <3>1, <3>2
  <2> QED BY <2>2, <2>3
<1> QED
  BY <1>3, <1>5, <1>6 DEF Reported

--------------------------------------------------------------------------------
(* The inductive invariant *)

Child == [state : {"none", "unspawned", "runs", "closing", "exited", "closed"},
          code : {"none", "0", "1", "signal", "error"}, heir : BOOLEAN]
Queue == [events : Seq(Event), closed : BOOLEAN, taken : Nat]

BackendTyped ==
    /\ provider \in Providers /\ script \in Scripts[provider] /\ script \in Seq(STRING)
    /\ child \in Child
    /\ pipe \in [printed : Nat, read : Nat] /\ pipe.read <= pipe.printed
    /\ pipe.printed <= IF isProcess THEN 3 * Len(script) ELSE Len(script)
    /\ known \in [failed : BOOLEAN, message : Nat]
    /\ {cancelRequested, timedOut, aborted} \subseteq BOOLEAN
    /\ queue \in Queue /\ queue.taken <= Len(queue.events)
    /\ result \in Outcomes \cup {"pending", "rejected"}
    /\ step \in {"resolving", "running", "draining", "succeeded", "failed"}

\* What a process may still do: none before it is started, and none when it is closed.
Phases ==
    /\ cancelRequested => aborted
    /\ step = "resolving" => child.state = "none"
    /\ child.state = "none" => result = "pending" /\ pipe = Unread
    /\ child.state \in {"none", "unspawned", "closed"} => ~child.heir
    /\ child.state = "closed" => result # "pending"
    /\ isProcess => /\ result # "pending" => child.state \in {"exited", "closed"}
                    /\ child.state = "closed" => pipe.read = pipe.printed
                    /\ result = "GOAL_COMPLETED" => child.state = "closed"
                    /\ child.state # "closing"
    /\ ~isProcess => /\ result # "pending" => child.state = "closed"
                     /\ child.state \notin {"exited", "unspawned"} /\ ~child.heir
    /\ child.code = "0" => /\ child.state \in {"exited", "closed"} /\ ~child.heir
                           /\ pipe.printed >= 3 * Len(script) - 1

\* The last event, and no other, is the end of an agent.
NoEnd(s) == \A i \in DOMAIN s : s[i].type # "agent.completed"
Ended(s, outcome) ==
    /\ s # <<>> /\ s[Len(s)].type = "agent.completed" /\ s[Len(s)].line = outcome
    /\ \A i \in DOMAIN s : i # Len(s) => s[i].type # "agent.completed"
OneEnd ==
    /\ queue.closed <=> over
    /\ result \in Outcomes => Ended(queue.events, result)
    /\ result \notin Outcomes => NoEnd(queue.events)

\* What the provider knows of the lines it has handled.
Handled ==
    provider = "codex" => \A i \in 1..(pipe.read \div 3) :
        /\ script[i] = "turn.failed" => known.failed
        /\ script[i] = "message" => i <= known.message

Reports ==
    /\ LineOrder(queue.events)
    /\ ~queue.closed => UpTo(queue.events, handled)
    /\ provider # "copilot" =>
         /\ ~queue.closed => Reported(queue.events, handled)
         /\ \E m \in Nat : Reported(queue.events, m)
    /\ provider = "codex" /\ result = "GOAL_COMPLETED" =>
         /\ Reported(queue.events, Len(script))
         /\ \A i \in DOMAIN script : script[i] = "message" => i <= known.message

StepTells ==
    /\ step = "succeeded" => queue.closed /\ queue.taken = Len(queue.events)
    /\ step = "failed" => \/ child.state = "none" \/ result = "rejected"
                          \/ queue.closed /\ queue.taken = Len(queue.events)

BackInv ==
    /\ BackendTyped /\ Phases /\ OneEnd
    /\ Handled /\ OutcomeTruthful
    /\ Reports /\ StepTells

--------------------------------------------------------------------------------
(* What a step does to the queue *)

LEMMA Killed ==
    ASSUME child \in Child
    PROVE  /\ kill \in Child /\ kill.heir = child.heir
           /\ child.state # "runs" => kill = child
           /\ child.state = "runs" /\ isProcess => kill.state = "exited" /\ kill.code = "signal"
           /\ child.state = "runs" /\ ~isProcess => kill.state = "closing" /\ kill.code = child.code
<1>1. CASE child.state = "runs" /\ isProcess
  <2> DEFINE c == [child EXCEPT !.state = "exited", !.code = "signal"]
  <2>1. kill = c
    BY <1>1 DEF kill
  <2>2. c \in Child /\ c.state = "exited" /\ c.code = "signal" /\ c.heir = child.heir
    BY DEF Child
  <2> HIDE DEF c
  <2> QED BY <1>1, <2>1, <2>2
<1>2. CASE child.state = "runs" /\ ~isProcess
  BY <1>2 DEF kill, Child
<1>3. CASE child.state # "runs"
  BY <1>3 DEF kill
<1> QED
  BY <1>1, <1>2, <1>3

LEMMA QueuePushed ==
    ASSUME queue \in Queue, NEW ev \in Seq(Event)
    PROVE  /\ push(ev) \in Queue
           /\ push(ev).closed = queue.closed /\ push(ev).taken = queue.taken
           /\ queue.closed => push(ev) = queue
           /\ ~queue.closed => push(ev).events = queue.events \o ev
<1>1. CASE queue.closed
  BY <1>1 DEF push
<1>2. CASE ~queue.closed
  <2> DEFINE q == [queue EXCEPT !.events = @ \o ev]
  <2>1. push(ev) = q
    BY <1>2 DEF push
  <2>2. queue.events \o ev \in Seq(Event)
    BY DEF Queue
  <2>3. q \in Queue /\ q.events = queue.events \o ev /\ q.closed = queue.closed /\ q.taken = queue.taken
    BY <2>2 DEF Queue
  <2> HIDE DEF q
  <2> QED BY <1>2, <2>1, <2>3
<1> QED
  BY <1>1, <1>2 DEF Queue

\* The first result closes the queue behind its event, a second changes nothing.
LEMMA Completes ==
    ASSUME queue \in Queue, OneEnd, NEW ev \in Seq(Output), NEW outcome \in Outcomes,
           completed(ev, outcome)
    PROVE  /\ queue.closed => queue' = queue /\ result' = result
           /\ ~queue.closed =>
                /\ queue' \in Queue /\ queue'.closed /\ queue'.taken = queue.taken
                /\ event("agent.completed", outcome) \in Event
                /\ queue'.events = Append(queue.events \o ev, event("agent.completed", outcome))
                /\ result' = outcome
<1> DEFINE done == event("agent.completed", outcome)
<1>1. done \in Event /\ ev \in Seq(Event)
  <2>1. Output \subseteq Event
    BY DEF Output, Event
  <2>2. ev \in Seq(Event)
    BY <2>1
  <2>3. done \in Event
    BY DEF event, Event
  <2> QED BY <2>2, <2>3
<1>2. Append(ev, done) \in Seq(Event)
  BY <1>1
<1>3. queue' = [push(Append(ev, done)) EXCEPT !.closed = TRUE] /\ result' = settle(outcome)
  BY DEF completed
<1>4. CASE queue.closed
  <2>1. push(Append(ev, done)) = queue
    BY <1>2, <1>4, QueuePushed
  <2>2. [queue EXCEPT !.closed = TRUE] = queue
    BY <1>4 DEF Queue
  <2> QED BY <1>3, <1>4, <2>1, <2>2 DEF settle, OneEnd, over
<1>5. CASE ~queue.closed
  <2>1. PICK q : q = push(Append(ev, done))
    OBVIOUS
  <2>2. q \in Queue /\ q.taken = queue.taken /\ q.events = queue.events \o Append(ev, done)
    BY <1>2, <1>5, <2>1, QueuePushed
  <2>3. queue.events \o Append(ev, done) = Append(queue.events \o ev, done)
    <3>1. queue.events \in Seq(Event)
      BY DEF Queue
    <3>2. /\ Append(ev, done) = ev \o <<done>> /\ queue.events \o ev \in Seq(Event)
          /\ <<done>> \in Seq(Event)
      BY <1>1, <3>1, AppendIsConcat
    <3>3. Append(queue.events \o ev, done) = (queue.events \o ev) \o <<done>>
      BY <1>1, <3>2, AppendIsConcat
    <3>4. (queue.events \o ev) \o <<done>> = queue.events \o (ev \o <<done>>)
      <4>1. PICK r : r = queue.events
        OBVIOUS
      <4>2. PICK u : u = <<done>>
        OBVIOUS
      <4>3. r \in Seq(Event) /\ u \in Seq(Event) /\ ev \in Seq(Event)
        BY <1>1, <3>1, <3>2, <4>1, <4>2
      <4>4. (r \o ev) \o u = r \o (ev \o u)
        BY <4>3, ConcatAssociative
      <4> QED BY <4>1, <4>2, <4>4
    <3> HIDE DEF done
    <3> QED BY <3>2, <3>3, <3>4
  <2>4. queue' = [q EXCEPT !.closed = TRUE]
    BY <1>3, <2>1
  <2>5. queue' \in Queue /\ queue'.closed /\ queue'.taken = q.taken /\ queue'.events = q.events
    BY <2>2, <2>4 DEF Queue
  <2>6. result' = outcome
    BY <1>3, <1>5 DEF settle, OneEnd, over
  <2> HIDE DEF done
  <2>7. /\ queue'.events = Append(queue.events \o ev, done) /\ queue'.taken = queue.taken
    BY <2>2, <2>3, <2>5
  <2> QED BY <1>1, <1>5, <2>5, <2>6, <2>7 DEF done
<1> QED
  BY <1>4, <1>5

\* The reports of a step, by the events it leaves behind.
LEMMA ReportsAre ==
    ASSUME UNCHANGED <<provider, script>>,
           NEW c, c = queue'.events, NEW h, h = handled',
           LineOrder(c), ~queue'.closed => UpTo(c, h),
           provider # "copilot" => /\ ~queue'.closed => Reported(c, h)
                                   /\ \E m \in Nat : Reported(c, m),
           provider = "codex" /\ result' = "GOAL_COMPLETED" =>
             /\ Reported(c, Len(script))
             /\ \A i \in DOMAIN script : script[i] = "message" => i <= known'.message
    PROVE  Reports'
<1>1. \A s, m : Reported(s, m) => Reported(s, m)'
  BY DEF Reported, translated
<1>2. LineOrder(queue.events)'
  BY DEF LineOrder, Outs
<1>3. (~queue.closed => UpTo(queue.events, handled))'
  BY DEF UpTo, Outs
<1>4. Reported(c, h) => Reported(queue.events, handled)'
  BY <1>1 DEF Reported, Outs
<1>5. \A m : Reported(c, m) => Reported(queue.events, m)'
  BY <1>1 DEF Reported, Outs
<1>6. Reported(c, Len(script)) => Reported(queue.events, Len(script))'
  BY <1>1 DEF Reported, Outs
<1> QED
  BY <1>2, <1>3, <1>4, <1>5, <1>6 DEF Reports

LEMMA MarkedNotEnded ==
    ASSUME NEW s \in Seq(Event), NEW ev \in Seq(Output), NoEnd(s)
    PROVE  s \o ev \in Seq(Event) /\ NoEnd(s \o ev)
<1>1. /\ DOMAIN s = 1..Len(s) /\ Len(s) \in Nat /\ DOMAIN ev = 1..Len(ev) /\ Len(ev) \in Nat
      /\ DOMAIN (s \o ev) = 1..(Len(s) + Len(ev))
      /\ \A i \in 1..Len(s) : (s \o ev)[i] = s[i]
      /\ \A i \in (Len(s) + 1)..(Len(s) + Len(ev)) : (s \o ev)[i] = ev[i - Len(s)]
  OBVIOUS
<1>2. ev \in Seq(Event)
  <2>1. Output \subseteq Event
    BY DEF Output, Event
  <2> QED BY <2>1
<1>3. \A k \in DOMAIN ev : ev[k].type # "agent.completed"
  <2>1. \A x \in Output : x.type # "agent.completed"
    BY DEF Output, OutputTypes
  <2> QED BY <2>1
<1>4. \A i \in DOMAIN (s \o ev) :
        \/ i \in DOMAIN s /\ (s \o ev)[i] = s[i]
        \/ i - Len(s) \in DOMAIN ev /\ (s \o ev)[i] = ev[i - Len(s)]
  BY <1>1
<1>5. NoEnd(s \o ev)
  BY <1>3, <1>4 DEF NoEnd
<1> QED
  BY <1>2, <1>5

LEMMA EndedBy ==
    ASSUME NEW s \in Seq(Event), NoEnd(s), NEW outcome,
           event("agent.completed", outcome) \in Event
    PROVE  Ended(Append(s, event("agent.completed", outcome)), outcome)
<1> DEFINE done == event("agent.completed", outcome)
<1>1. done.type = "agent.completed" /\ done.line = outcome
  BY DEF event
<1> HIDE DEF done
<1>2. /\ DOMAIN s = 1..Len(s) /\ Len(s) \in Nat /\ Len(Append(s, done)) = Len(s) + 1
      /\ DOMAIN Append(s, done) = 1..(Len(s) + 1) /\ Append(s, done)[Len(s) + 1] = done
      /\ \A i \in 1..Len(s) : Append(s, done)[i] = s[i]
  OBVIOUS
<1>3. Append(s, done) # <<>>
  BY <1>2
<1>4. \A i \in DOMAIN Append(s, done) : i # Len(s) + 1 => i \in DOMAIN s /\ Append(s, done)[i] = s[i]
  BY <1>2
<1>5. Ended(Append(s, done), outcome)
  BY <1>1, <1>2, <1>3, <1>4 DEF Ended, NoEnd
<1> QED
  BY <1>5 DEF done

\* The end of an agent whose lines up to m are told before it.
LEMMA Finishes ==
    ASSUME BackInv, NEW m \in Nat, handled \in Nat, handled <= m, NEW ev,
           IF provider = "copilot" THEN ev = <<>> ELSE Told(ev, handled, m),
           NEW outcome \in Outcomes, completed(ev, outcome), UNCHANGED <<provider, script>>
    PROVE  /\ queue' \in Queue /\ queue'.taken <= Len(queue'.events) /\ queue'.closed
           /\ result' \in Outcomes \cup {"rejected"}
           /\ OneEnd'
           /\ LineOrder(queue'.events)
           /\ provider # "copilot" => \E n \in Nat : Reported(queue'.events, n)
           /\ ~queue.closed => /\ result' = outcome
                               /\ provider # "copilot" => Reported(queue'.events, m)
           /\ queue.closed => queue' = queue /\ result' = result
<1>1. queue \in Queue /\ OneEnd /\ Reports /\ queue.events \in Seq(Event)
  BY DEF BackInv, BackendTyped, Queue
<1>2. ev \in Seq(Output)
  <2>1. CASE provider = "copilot"
    <3>1. ev = <<>>
      BY <2>1
    <3> QED BY <3>1
  <2>2. CASE provider # "copilot"
    BY <2>2 DEF Told
  <2> QED BY <2>1, <2>2
<1>3. CASE queue.closed
  <2>1. queue' = queue /\ result' = result
    BY <1>1, <1>2, <1>3, Completes
  <2>2. OneEnd'
    BY <1>1, <2>1 DEF OneEnd, over, Ended, NoEnd
  <2>3. /\ LineOrder(queue.events)
        /\ provider # "copilot" => \E n \in Nat : Reported(queue.events, n)
    BY <1>1 DEF Reports
  <2>4. queue.taken <= Len(queue.events) /\ result \in Outcomes \cup {"rejected"}
    BY <1>1, <1>3 DEF BackInv, BackendTyped, OneEnd, over
  <2> QED BY <1>1, <1>3, <2>1, <2>2, <2>3, <2>4
<1>4. CASE ~queue.closed
  <2>1. PICK s : s = queue.events
    OBVIOUS
  <2>2. PICK done : done = event("agent.completed", outcome)
    OBVIOUS
  <2>3. /\ queue' \in Queue /\ queue'.closed /\ queue'.taken = queue.taken /\ done \in Event
        /\ queue'.events = Append(s \o ev, done) /\ result' = outcome
    BY <1>1, <1>2, <1>4, <2>1, <2>2, Completes
  <2>4. s \in Seq(Event) /\ LineOrder(s) /\ UpTo(s, handled) /\ NoEnd(s)
    BY <1>1, <1>4, <2>1 DEF Reports, OneEnd, over, Outcomes
  <2>5. /\ s \o ev \in Seq(Event) /\ LineOrder(s \o ev)
        /\ provider # "copilot" => Reported(s \o ev, m)
    <3>1. CASE provider = "copilot"
      <4>1. s \o ev = s
        BY <2>4, <3>1
      <4> QED BY <2>4, <3>1, <4>1
    <3>2. CASE provider # "copilot"
      <4>1. Told(ev, handled, m) /\ Reported(s, handled)
        BY <1>1, <1>4, <2>1, <3>2 DEF Reports
      <4>2. PICK h \in Nat : h = handled
        OBVIOUS
      <4>3. Told(ev, h, m) /\ Reported(s, h) /\ UpTo(s, h) /\ h <= m
        BY <2>4, <4>1, <4>2
      <4> QED BY <2>4, <4>3, ReportGrown
    <3> QED BY <3>1, <3>2
  <2>6. NoEnd(s \o ev)
    BY <1>2, <2>4, MarkedNotEnded
  <2>7. PICK u : u = s \o ev
    OBVIOUS
  <2>8. done.type = "agent.completed"
    BY <2>2 DEF event
  <2>9. /\ LineOrder(Append(u, done))
        /\ provider # "copilot" => Reported(Append(u, done), m)
    BY <2>3, <2>5, <2>7, <2>8, OutsMarked
  <2>10. Ended(Append(u, done), outcome)
    BY <2>2, <2>3, <2>5, <2>6, <2>7, EndedBy
  <2>11. OneEnd'
    <3>1. Ended(queue.events, result)'
      BY <2>3, <2>7, <2>10 DEF Ended
    <3> QED BY <2>3, <3>1 DEF OneEnd, over, Outcomes
  <2>12. queue'.taken <= Len(queue'.events)
    <3>1. queue.taken <= Len(s) /\ queue.taken \in Nat
      BY <1>1, <2>1 DEF BackInv, BackendTyped, Queue
    <3>2. Len(Append(s \o ev, done)) = Len(s) + Len(ev) + 1 /\ Len(s) \in Nat /\ Len(ev) \in Nat
      BY <1>2, <2>3, <2>4, <2>5
    <3> QED BY <2>3, <3>1, <3>2
  <2> QED BY <1>4, <2>3, <2>7, <2>9, <2>11, <2>12
<1> QED
  BY <1>3, <1>4

\* What is told goes on while the agent has not ended.
LEMMA Tells ==
    ASSUME BackInv, NEW m \in Nat, handled \in Nat, handled <= m, NEW ev \in Seq(Output),
           IF provider = "copilot"
           THEN Sorted(ev, LineBefore) /\ \A x \in Range(ev) : handled <= x.line /\ x.line <= m
           ELSE Told(ev, handled, m),
           queue' = push(ev), UNCHANGED <<provider, script, result>>
    PROVE  /\ queue' \in Queue /\ queue'.taken <= Len(queue'.events) /\ queue'.closed = queue.closed
           /\ OneEnd'
           /\ LineOrder(queue'.events)
           /\ ~queue.closed => /\ UpTo(queue'.events, m)
                               /\ provider # "copilot" => Reported(queue'.events, m)
           /\ queue.closed => queue' = queue
<1>1. queue \in Queue /\ OneEnd /\ Reports /\ queue.events \in Seq(Event) /\ ev \in Seq(Event)
  <2>1. Output \subseteq Event
    BY DEF Output, Event
  <2>2. ev \in Seq(Event)
    BY <2>1
  <2> QED BY <2>2 DEF BackInv, BackendTyped, Queue
<1>2. CASE queue.closed
  <2>1. queue' = queue
    BY <1>1, <1>2, QueuePushed
  <2>2. OneEnd'
    BY <1>1, <2>1 DEF OneEnd, over, Ended, NoEnd
  <2>3. LineOrder(queue.events) /\ queue.taken <= Len(queue.events)
    BY <1>1 DEF Reports, BackInv, BackendTyped
  <2> QED BY <1>1, <1>2, <2>1, <2>2, <2>3
<1>3. CASE ~queue.closed
  <2>1. PICK s : s = queue.events
    OBVIOUS
  <2>2. /\ queue' \in Queue /\ queue'.closed = queue.closed /\ queue'.taken = queue.taken
        /\ queue'.events = s \o ev
    BY <1>1, <1>3, <2>1, QueuePushed
  <2>3. PICK h \in Nat : h = handled
    OBVIOUS
  <2>4. s \in Seq(Event) /\ LineOrder(s) /\ UpTo(s, h) /\ NoEnd(s)
    BY <1>1, <1>3, <2>1, <2>3 DEF Reports, OneEnd, over, Outcomes
  <2>5. /\ LineOrder(s \o ev) /\ UpTo(s \o ev, m)
        /\ provider # "copilot" => Reported(s \o ev, m)
    <3>1. CASE provider = "copilot"
      BY <2>3, <2>4, <3>1, OutsGrown
    <3>2. CASE provider # "copilot"
      <4>1. Told(ev, h, m) /\ Reported(s, h) /\ h <= m
        BY <1>1, <1>3, <2>1, <2>3, <3>2 DEF Reports
      <4> QED BY <2>4, <4>1, ReportGrown
    <3> QED BY <3>1, <3>2
  <2>6. NoEnd(s \o ev)
    BY <2>4, MarkedNotEnded
  <2>7. OneEnd'
    <3>1. NoEnd(queue.events)'
      BY <2>2, <2>6 DEF NoEnd
    <3> QED BY <1>1, <1>3, <2>2, <3>1 DEF OneEnd, over, Outcomes
  <2>8. queue'.taken <= Len(queue'.events)
    <3>1. queue.taken <= Len(s) /\ queue.taken \in Nat
      BY <1>1, <2>1 DEF BackInv, BackendTyped, Queue
    <3>2. Len(s \o ev) = Len(s) + Len(ev) /\ Len(s) \in Nat /\ Len(ev) \in Nat
      BY <2>4
    <3> QED BY <2>2, <3>1, <3>2
  <2> QED BY <1>3, <2>2, <2>5, <2>7, <2>8
<1> QED
  BY <1>2, <1>3

LEMMA Thirds ==
    ASSUME NEW r \in Nat
    PROVE  /\ r \div 3 \in Nat
           /\ \A q \in Nat : r <= q => r \div 3 <= q \div 3
           /\ \A n \in Nat : r <= 3 * n => r \div 3 <= n /\ (r % 3 = 2 => r \div 3 + 1 <= n)
           /\ \A n \in Nat : 3 * n - 1 <= r /\ r <= 3 * n =>
                IF r % 3 = 2 THEN r \div 3 + 1 = n ELSE r \div 3 = n
OBVIOUS

LEMMA HandledNat == BackInv => handled \in Nat
BY Thirds DEF BackInv, BackendTyped, handled

LEMMA AtFirst == BackendAssumption /\ BackendInit => BackInv
<1> SUFFICES ASSUME BackendAssumption, BackendInit PROVE BackInv
  OBVIOUS
<1>1. queue.events = <<>> /\ ~queue.closed /\ queue.taken = 0 /\ queue \in Queue /\ Len(queue.events) = 0
  <2>1. <<>> \in Seq(Event)
    OBVIOUS
  <2> QED BY <2>1 DEF BackendInit, Queue
<1>2. script \in Seq(STRING) /\ Len(script) \in Nat
  BY DEF BackendAssumption, BackendInit
<1>3. BackendTyped
  <2>1. child \in Child /\ known \in [failed : BOOLEAN, message : Nat]
    BY DEF BackendInit, Child
  <2>2. pipe \in [printed : Nat, read : Nat] /\ pipe.printed = 0 /\ pipe.read = 0
    BY DEF BackendInit, Unread
  <2>3. pipe.read <= pipe.printed /\ pipe.printed <= IF isProcess THEN 3 * Len(script) ELSE Len(script)
    BY <1>2, <2>2
  <2>4. {cancelRequested, timedOut, aborted} \subseteq BOOLEAN
    BY DEF BackendInit
  <2>5. queue.taken <= Len(queue.events)
    BY <1>1
  <2>6. /\ provider \in Providers /\ script \in Scripts[provider]
        /\ result \in Outcomes \cup {"pending", "rejected"}
        /\ step \in {"resolving", "running", "draining", "succeeded", "failed"}
    BY DEF BackendInit
  <2> QED BY <1>1, <1>2, <2>1, <2>2, <2>3, <2>4, <2>5, <2>6 DEF BackendTyped
<1>4. Phases
  BY DEF BackendInit, Phases, Unread
<1>5. OneEnd
  BY <1>1 DEF BackendInit, OneEnd, Outcomes, NoEnd, over
<1>6. pipe.read = 0 /\ 0 \div 3 = 0
  BY DEF BackendInit, Unread
<1>7. Handled
  BY <1>6 DEF Handled
<1>8. OutcomeTruthful
  BY DEF BackendInit, OutcomeTruthful
<1>9. Reports
  <2>1. handled = 0
    BY <1>6 DEF handled
  <2>2. Outs(<<>>) = {} /\ 1..0 = {}
    BY DEF Outs
  <2>3. LineOrder(<<>>) /\ UpTo(<<>>, 0) /\ Reported(<<>>, 0)
    BY <2>2 DEF LineOrder, UpTo, Reported
  <2> QED BY <1>1, <2>1, <2>3 DEF BackendInit, Reports
<1>10. StepTells
  BY DEF BackendInit, StepTells
<1> QED
  BY <1>3, <1>4, <1>5, <1>7, <1>8, <1>9, <1>10 DEF BackInv

\* A step that reads nothing and pushes nothing.
LEMMA Silent ==
    ASSUME BackInv, UNCHANGED <<provider, script, known, result>>, pipe'.read = pipe.read,
           queue'.events = queue.events, queue'.closed = queue.closed
    PROVE  OneEnd' /\ Handled' /\ Reports'
<1>1. OneEnd'
  BY DEF BackInv, OneEnd, over, Ended, NoEnd
<1>2. Handled'
  BY DEF BackInv, Handled
<1>3. PICK c, h : c = queue.events /\ h = handled
  OBVIOUS
<1>4. c = queue'.events /\ h = handled'
  BY <1>3 DEF handled
<1>5. Reports
  BY DEF BackInv
<1>6. /\ LineOrder(c) /\ (~queue'.closed => UpTo(c, h))
      /\ provider # "copilot" => /\ ~queue'.closed => Reported(c, h)
                                 /\ \E m \in Nat : Reported(c, m)
      /\ provider = "codex" /\ result' = "GOAL_COMPLETED" =>
             /\ Reported(c, Len(script))
             /\ \A i \in DOMAIN script : script[i] = "message" => i <= known'.message
  BY <1>3, <1>5 DEF Reports
<1>7. Reports'
  BY <1>4, <1>6, ReportsAre
<1> QED
  BY <1>1, <1>2, <1>7

LEMMA WriteKeeps == BackInv /\ Write => BackInv'
<1> SUFFICES ASSUME BackInv, Write PROVE BackInv'
  OBVIOUS
<1>1. PICK n \in {1, 3 - (pipe.printed % 3)} : pipe' = [pipe EXCEPT !.printed = @ + n]
  BY DEF Write
<1>2. pipe \in [printed : Nat, read : Nat] /\ pipe.read <= pipe.printed /\ Len(script) \in Nat
  BY DEF BackInv, BackendTyped
<1>3. n \in Nat /\ pipe.printed + n <= 3 * Len(script)
  BY <1>1, <1>2 DEF Write
<1>4. pipe' \in [printed : Nat, read : Nat] /\ pipe'.read = pipe.read /\ pipe'.printed = pipe.printed + n
  BY <1>1, <1>2, <1>3
<1>5. BackendTyped'
  BY <1>3, <1>4 DEF BackInv, BackendTyped, Write, request, isProcess
<1>6. Phases'
  BY <1>2, <1>3, <1>4 DEF BackInv, Phases, Write, request, isProcess
<1>7. OneEnd' /\ Handled' /\ Reports'
  BY <1>4, Silent DEF Write, request
<1>8. OutcomeTruthful' /\ StepTells'
  BY DEF BackInv, OutcomeTruthful, StepTells, Write, request, isProcess
<1> QED
  BY <1>5, <1>6, <1>7, <1>8 DEF BackInv

LEMMA ExitKeeps == ASSUME BackInv, NEW code \in {"0", "1"}, Exit(code) PROVE BackInv'
<1> DEFINE c == [child EXCEPT !.state = "exited", !.code = code]
<1>1. child \in Child /\ child' = c
  BY DEF BackInv, BackendTyped, Exit
<1>2. c \in Child /\ c.state = "exited" /\ c.code = code /\ c.heir = child.heir
  BY <1>1 DEF Child
<1> HIDE DEF c
<1>3. child' \in Child /\ child'.state = "exited" /\ child'.code = code /\ child'.heir = child.heir
  BY <1>1, <1>2
<1>4. BackendTyped'
  BY <1>3 DEF BackInv, BackendTyped, Exit, request, isProcess
<1>5. Phases'
  BY <1>3 DEF BackInv, Phases, Exit, request, isProcess
<1>6. OneEnd' /\ Handled' /\ Reports'
  BY Silent DEF Exit, request
<1>7. result = "pending" /\ step # "resolving"
  BY DEF BackInv, Phases, Exit
<1>8. OutcomeTruthful' /\ StepTells'
  BY <1>3, <1>7 DEF BackInv, OutcomeTruthful, StepTells, Exit, request, isProcess
<1> QED
  BY <1>4, <1>5, <1>6, <1>8 DEF BackInv

LEMMA HeirKeeps == ASSUME BackInv, HeirEnds PROVE BackInv'
<1>1. child \in Child /\ child' = [child EXCEPT !.heir = FALSE]
  BY DEF BackInv, BackendTyped, HeirEnds
<1>2. child' \in Child /\ child'.state = child.state /\ child'.code = child.code /\ child'.heir = FALSE
  BY <1>1 DEF Child
<1>3. BackendTyped'
  BY <1>2 DEF BackInv, BackendTyped, HeirEnds, request, isProcess
<1>4. Phases'
  BY <1>2 DEF BackInv, Phases, HeirEnds, request, isProcess
<1>5. OneEnd' /\ Handled' /\ Reports'
  BY Silent DEF HeirEnds, request
<1>6. OutcomeTruthful' /\ StepTells'
  BY <1>2 DEF BackInv, OutcomeTruthful, StepTells, HeirEnds, request, isProcess
<1> QED
  BY <1>3, <1>4, <1>5, <1>6 DEF BackInv

\* The process is killed, or told to close, because of the timer or a cancellation.
LEMMA KillKeeps ==
    ASSUME BackInv, child' = kill, cancelRequested' \in BOOLEAN, timedOut' \in BOOLEAN, aborted' \in BOOLEAN,
           cancelRequested' => aborted', aborted => aborted', timedOut => timedOut',
           timedOut' # timedOut => result = "pending",
           UNCHANGED <<request, pipe, known, queue, result, step>>
    PROVE  BackInv'
<1>1. child \in Child
  BY DEF BackInv, BackendTyped
<1>2. /\ child' \in Child /\ child'.heir = child.heir
      /\ child.state # "runs" => child' = child
      /\ child.state = "runs" /\ isProcess => child'.state = "exited" /\ child'.code = "signal"
      /\ child.state = "runs" /\ ~isProcess => child'.state = "closing" /\ child'.code = child.code
  BY <1>1, Killed
<1>3. child.state = "runs" => result = "pending" /\ child.code # "0"
  BY DEF BackInv, Phases
<1>4. BackendTyped'
  BY <1>2 DEF BackInv, BackendTyped, request, isProcess
<1>5. Phases'
  <2>1. CASE child.state = "runs" /\ isProcess
    BY <1>2, <1>3, <2>1 DEF BackInv, Phases, request, isProcess
  <2>2. CASE child.state = "runs" /\ ~isProcess
    BY <1>2, <1>3, <2>2 DEF BackInv, Phases, request, isProcess
  <2>3. CASE child.state # "runs"
    BY <1>2, <2>3 DEF BackInv, Phases, request, isProcess
  <2> QED BY <2>1, <2>2, <2>3
<1>6. OneEnd' /\ Handled' /\ Reports'
  BY Silent DEF request
<1>7. OutcomeTruthful'
  <2>1. CASE result = "pending"
    BY <2>1 DEF OutcomeTruthful
  <2>2. CASE result # "pending"
    <3>1. child' = child /\ timedOut' = timedOut
      BY <1>2, <1>3, <2>2
    <3> QED BY <3>1 DEF BackInv, OutcomeTruthful, request, isProcess
  <2> QED BY <2>1, <2>2
<1>8. StepTells'
  BY <1>2 DEF BackInv, StepTells
<1> QED
  BY <1>4, <1>5, <1>6, <1>7, <1>8 DEF BackInv

LEMMA TimerKeeps == ASSUME BackInv, TimerFires PROVE BackInv'
BY KillKeeps DEF TimerFires, BackInv, BackendTyped, Phases

LEMMA AbortKeeps == ASSUME BackInv, Abort PROVE BackInv'
<1>1. CASE step \in {"running", "draining"}
  BY <1>1, KillKeeps DEF Abort, BackInv, BackendTyped
<1>2. CASE step \notin {"running", "draining"}
  <2>1. UNCHANGED <<request, child, pipe, known, cancelRequested, timedOut, queue, result, step>> /\ aborted' = TRUE
    BY <1>2 DEF Abort
  <2>2. OneEnd' /\ Handled' /\ Reports'
    BY <2>1, Silent DEF request
  <2>3. BackendTyped' /\ Phases' /\ OutcomeTruthful' /\ StepTells'
    BY <2>1 DEF BackInv, BackendTyped, Phases, OutcomeTruthful, StepTells, request, isProcess
  <2> QED BY <2>2, <2>3 DEF BackInv
<1> QED
  BY <1>1, <1>2

LEMMA PublishKeeps == ASSUME BackInv, Publish PROVE BackInv'
<1>1. queue \in Queue /\ queue' = [queue EXCEPT !.taken = @ + 1] /\ queue.taken < Len(queue.events)
  BY DEF BackInv, BackendTyped, Publish
<1>2. /\ queue' \in Queue /\ queue'.taken = queue.taken + 1
      /\ queue'.events = queue.events /\ queue'.closed = queue.closed
  BY <1>1 DEF Queue
<1>3. queue'.taken <= Len(queue'.events)
  <2>1. queue.taken \in Nat /\ Len(queue.events) \in Nat
    BY <1>1 DEF Queue
  <2> QED BY <1>1, <1>2, <2>1
<1>4. BackendTyped' /\ Phases' /\ OutcomeTruthful'
  BY <1>2, <1>3 DEF BackInv, BackendTyped, Phases, OutcomeTruthful, Publish, request, isProcess
<1>5. OneEnd' /\ Handled' /\ Reports'
  BY <1>2, Silent DEF Publish, request
<1>6. StepTells'
  <2>1. queue.taken # Len(queue.events)
    <3>1. queue.taken \in Nat /\ Len(queue.events) \in Nat
      BY <1>1 DEF Queue
    <3> QED BY <1>1, <3>1
  <2> QED BY <1>2, <2>1 DEF BackInv, StepTells, Publish
<1> QED
  BY <1>4, <1>5, <1>6 DEF BackInv

LEMMA EndKeeps == ASSUME BackInv, Result \/ Drained PROVE BackInv'
<1>1. /\ UNCHANGED <<request, child, pipe, known, cancelRequested, timedOut, aborted, queue, result>>
      /\ step' \in {"draining", "succeeded", "failed"}
  BY DEF Result, Drained
<1>2. BackendTyped' /\ Phases' /\ OutcomeTruthful'
  BY <1>1 DEF BackInv, BackendTyped, Phases, OutcomeTruthful, request, isProcess
<1>3. OneEnd' /\ Handled' /\ Reports'
  BY <1>1, Silent DEF request
<1>4. StepTells'
  BY <1>1 DEF StepTells, Result, Drained
<1> QED
  BY <1>2, <1>3, <1>4 DEF BackInv

LEMMA StartKeeps == ASSUME BackInv, StartAgent PROVE BackInv'
<1>0. child.state = "none" /\ result = "pending" /\ pipe = Unread /\ ~queue.closed
  BY DEF BackInv, Phases, OneEnd, over, StartAgent
<1>1. CASE key \in {"absent", "empty"}
  <2>1. step' = "failed" /\ UNCHANGED <<child, queue>>
    BY <1>1 DEF StartAgent
  <2>2. OneEnd' /\ Handled' /\ Reports'
    BY <2>1, Silent DEF StartAgent, request
  <2>3. BackendTyped' /\ Phases' /\ OutcomeTruthful'
    BY <2>1 DEF BackInv, BackendTyped, Phases, OutcomeTruthful, StartAgent, request, isProcess
  <2>4. StepTells'
    BY <1>0, <2>1 DEF StepTells
  <2> QED BY <2>2, <2>3, <2>4 DEF BackInv
<1>2. CASE key \notin {"absent", "empty"}
  <2> DEFINE started == event("agent.started", 0)
  <2>1. /\ step' = "running" /\ queue' = push(<<started>>)
        /\ UNCHANGED <<request, pipe, known, cancelRequested, timedOut, aborted, result>>
        /\ child' \in Child /\ child'.code = "none" /\ child'.state \in {"runs", "unspawned"}
        /\ child'.state = "unspawned" => isProcess /\ ~child'.heir
        /\ ~isProcess => ~child'.heir
    BY <1>2 DEF StartAgent, Child
  <2>2. started \in Event /\ started.type = "agent.started"
    BY DEF event, Event
  <2>3. PICK s : s = queue.events
    OBVIOUS
  <2>4. s \in Seq(Event) /\ queue \in Queue /\ queue.taken \in Nat /\ queue.taken <= Len(s)
    BY <2>3 DEF BackInv, BackendTyped, Queue
  <2>5. PICK x : x = started
    OBVIOUS
  <2>6. /\ queue' \in Queue /\ queue'.closed = queue.closed /\ queue'.taken = queue.taken
        /\ queue'.events = Append(s, x)
    <3> HIDE DEF started
    <3>1. <<x>> \in Seq(Event)
      BY <2>2, <2>5
    <3>2. s \o <<x>> = Append(s, x)
      BY <2>2, <2>4, <2>5
    <3> QED BY <1>0, <2>1, <2>3, <2>4, <2>5, <3>1, <3>2, QueuePushed
  <2> HIDE DEF started
  <2>7. Len(Append(s, x)) = Len(s) + 1 /\ Len(s) \in Nat
    BY <2>4
  <2>8. BackendTyped'
    <3>1. queue'.taken <= Len(queue'.events)
      BY <2>4, <2>6, <2>7
    <3> QED BY <2>1, <2>6, <3>1 DEF BackInv, BackendTyped, request, isProcess
  <2>9. Phases'
    BY <1>0, <2>1 DEF BackInv, Phases, request, isProcess
  <2>10. NoEnd(queue.events)'
    <3>1. NoEnd(s)
      BY <1>0, <2>3 DEF BackInv, OneEnd, Outcomes
    <3>2. DOMAIN Append(s, x) = 1..(Len(s) + 1) /\ DOMAIN s = 1..Len(s)
          /\ Append(s, x)[Len(s) + 1] = x /\ \A i \in 1..Len(s) : Append(s, x)[i] = s[i]
      BY <2>4, <2>7
    <3>3. \A i \in 1..(Len(s) + 1) : i \in 1..Len(s) \/ i = Len(s) + 1
      BY <2>7
    <3>4. x.type # "agent.completed"
      BY <2>2, <2>5
    <3> QED BY <2>6, <3>1, <3>2, <3>3, <3>4 DEF NoEnd
  <2>11. OneEnd'
    BY <1>0, <2>1, <2>6, <2>10 DEF OneEnd, over, Outcomes
  <2>12. Handled' /\ OutcomeTruthful' /\ StepTells'
    BY <1>0, <2>1 DEF BackInv, Handled, OutcomeTruthful, StepTells, request, isProcess
  <2>13. PICK h : h = handled
    OBVIOUS
  <2>14. /\ LineOrder(s) /\ UpTo(s, h)
         /\ provider # "copilot" => Reported(s, h)
    BY <1>0, <2>3, <2>13 DEF BackInv, Reports
  <2>15. /\ LineOrder(Append(s, x)) /\ UpTo(Append(s, x), h)
         /\ provider # "copilot" => Reported(Append(s, x), h)
    BY <2>2, <2>4, <2>5, <2>14, OutsMarked
  <2>16. PICK c : c = queue'.events
    OBVIOUS
  <2>17. h = handled' /\ h \in Nat
    BY <2>1, <2>13, HandledNat DEF handled, request
  <2>18. Reports'
    <3>1. UNCHANGED <<provider, script>> /\ result' # "GOAL_COMPLETED"
      BY <1>0, <2>1 DEF request
    <3>2. c = Append(s, x)
      BY <2>6, <2>16
    <3> QED BY <2>15, <2>16, <2>17, <3>1, <3>2, ReportsAre
  <2> QED BY <2>8, <2>9, <2>11, <2>12, <2>18 DEF BackInv
<1> QED
  BY <1>1, <1>2

LEMMA GreatestOf ==
    ASSUME NEW n \in Nat, NEW S, S \subseteq 0..n, S # {}
    PROVE  Max(S) \in Nat /\ \A k \in S : k <= Max(S)
<1> DEFINE Above == {i \in 1..n : i \in S}
<1>1. CASE Above = {}
  <2>1. S = {0}
    <3>1. \A k \in S : k \in 0..n /\ k \notin 1..n
      BY <1>1
    <3>2. \A k \in S : k = 0
      BY <3>1
    <3> QED BY <3>2
  <2>2. \E x \in S : \A k \in S : k <= x
    BY <2>1
  <2> QED BY <2>1, <2>2 DEF Max
<1>2. CASE Above # {}
  <2>1. PICK m : m = Max(Above)
    OBVIOUS
  <2>2. m \in Above /\ \A k \in Above : k <= m
    <3>1. Above \subseteq 1..n
      OBVIOUS
    <3> HIDE DEF Above
    <3> QED BY <1>2, <2>1, <3>1, Greatest
  <2>3. m \in S /\ \A k \in S : k <= m
    BY <2>2
  <2>4. Max(S) \in S /\ \A k \in S : k <= Max(S)
    BY <2>3 DEF Max
  <2>5. S \subseteq Nat
    OBVIOUS
  <2> QED BY <2>4, <2>5
<1> QED
  BY <1>1, <1>2

LEMMA ToldNone == ASSUME NEW m \in Nat PROVE Told(<<>>, m, m)
<1>1. <<>> \in Seq(Output) /\ Sorted(<<>>, LineBefore)
  BY DEF Sorted
<1>2. Range(<<>>) = {} /\ (m + 1)..m = {}
  BY DEF Range
<1> QED
  BY <1>1, <1>2 DEF Told

\* What the end of an agent keeps, when its lines up to m are told before it.
LEMMA CompletedKeeps ==
    ASSUME BackInv, NEW m \in Nat, handled <= m, NEW ev,
           IF provider = "copilot" THEN ev = <<>> ELSE Told(ev, handled, m),
           NEW outcome \in Outcomes, completed(ev, outcome),
           UNCHANGED <<provider, script, step>>, child.state # "none",
           provider = "codex" => result # "GOAL_COMPLETED",
           provider = "codex" /\ outcome = "GOAL_COMPLETED" =>
              /\ m = Len(script)
              /\ \A i \in DOMAIN script : script[i] = "message" => i <= known'.message
    PROVE  /\ queue' \in Queue /\ queue'.taken <= Len(queue'.events) /\ queue'.closed
           /\ result' \in Outcomes \cup {"rejected"}
           /\ ~queue.closed => result' = outcome
           /\ queue.closed => result' = result
           /\ OneEnd' /\ Reports' /\ StepTells'
<1>1. /\ queue' \in Queue /\ queue'.taken <= Len(queue'.events) /\ queue'.closed
      /\ result' \in Outcomes \cup {"rejected"}
      /\ OneEnd' /\ LineOrder(queue'.events)
      /\ provider # "copilot" => \E n \in Nat : Reported(queue'.events, n)
      /\ ~queue.closed => /\ result' = outcome
                          /\ provider # "copilot" => Reported(queue'.events, m)
      /\ queue.closed => queue' = queue /\ result' = result
  BY HandledNat, Finishes
<1>2. PICK c : c = queue'.events
  OBVIOUS
<1>3. PICK h : h = handled'
  OBVIOUS
<1>4. provider = "codex" /\ result' = "GOAL_COMPLETED" =>
        /\ Reported(c, Len(script))
        /\ \A i \in DOMAIN script : script[i] = "message" => i <= known'.message
  <2> SUFFICES ASSUME provider = "codex", result' = "GOAL_COMPLETED"
               PROVE  /\ Reported(c, Len(script))
                      /\ \A i \in DOMAIN script : script[i] = "message" => i <= known'.message
    OBVIOUS
  <2>1. CASE queue.closed
    BY <1>1, <2>1
  <2>2. CASE ~queue.closed
    BY <1>1, <1>2, <2>2
  <2> QED BY <2>1, <2>2
<1>5. Reports'
  BY <1>1, <1>2, <1>3, <1>4, ReportsAre
<1>6. StepTells'
  <2>1. CASE queue.closed
    BY <1>1, <2>1 DEF BackInv, StepTells
  <2>2. CASE ~queue.closed
    BY <2>2 DEF BackInv, StepTells, OneEnd, over
  <2> QED BY <2>1, <2>2
<1> QED
  BY <1>1, <1>5, <1>6

\* The last lines a codex has printed, when it has exited with success.
LEMMA AtItsEnd ==
    ASSUME BackInv, provider = "codex", pipe.read = pipe.printed, child.code = "0"
    PROVE  IF pipe.read % 3 = 2 THEN pipe.read \div 3 + 1 = Len(script) ELSE pipe.read \div 3 = Len(script)
<1>1. /\ pipe.read \in Nat /\ Len(script) \in Nat
      /\ pipe.read <= 3 * Len(script) /\ 3 * Len(script) - 1 <= pipe.read
  BY DEF BackInv, BackendTyped, Phases, isProcess
<1> QED
  BY <1>1, Thirds

\* The line that is flushed is the next one.
LEMMA FlushTold ==
    ASSUME BackInv, isProcess
    PROVE  \E m \in Nat :
             /\ m = IF provider = "codex" /\ pipe.read % 3 = 2 THEN pipe.read \div 3 + 1 ELSE handled
             /\ handled <= m
             /\ IF provider = "copilot" THEN eventsOf(flush) = <<>> ELSE Told(eventsOf(flush), handled, m)
             /\ IF m = handled THEN Range(flush) = {} ELSE Range(flush) = {m} /\ flush[1] = m
<1>1. handled \in Nat /\ pipe.read \in Nat
  BY HandledNat DEF BackInv, BackendTyped
<1>2. CASE provider = "codex" /\ pipe.read % 3 = 2
  <2>1. flush = <<handled + 1>> /\ handled = pipe.read \div 3
    BY <1>2 DEF flush, handled
  <2>2. interval(handled, handled + 1) = <<handled + 1>>
    <3>1. (handled + 1) - handled = 1
      BY <1>1
    <3> QED BY <1>1, <3>1 DEF interval
  <2>3. Told(eventsOf(flush), handled, handled + 1)
    BY <1>1, <2>1, <2>2, EventsOfInterval
  <2>4. Range(flush) = {handled + 1}
    BY <2>1 DEF Range
  <2>5. PICK m \in Nat : m = handled + 1 /\ flush[1] = m /\ m # handled /\ handled <= m
    BY <1>1, <2>1
  <2>6. Told(eventsOf(flush), handled, m) /\ Range(flush) = {m} /\ m = pipe.read \div 3 + 1
    BY <2>1, <2>3, <2>4, <2>5
  <2>7. provider # "copilot"
    BY <1>2
  <2> QED BY <1>2, <2>5, <2>6, <2>7
<1>3. CASE ~(provider = "codex" /\ pipe.read % 3 = 2)
  <2>1. flush = <<>>
    BY <1>3 DEF flush
  <2>2. eventsOf(flush) = <<>>
    <3>1. [k \in DOMAIN flush |-> translated(flush[k])] = <<>>
      BY <2>1
    <3> QED BY <3>1 DEF eventsOf, FlattenSeq
  <2>3. Range(flush) = {}
    BY <2>1 DEF Range
  <2>4. Told(eventsOf(flush), handled, handled)
    BY <1>1, <2>2, ToldNone
  <2> QED BY <1>1, <1>3, <2>2, <2>3, <2>4
<1> QED
  BY <1>2, <1>3

LEMMA FinishKeeps == ASSUME BackendAssumption, BackInv, finish PROVE BackInv'
<1>0. /\ isProcess /\ child.state = "exited" /\ ~child.heir /\ pipe.read = pipe.printed
      /\ completed(eventsOf(flush), outcomeOf(flush))
      /\ UNCHANGED <<request, pipe, cancelRequested, timedOut, aborted, step>>
      /\ result # "GOAL_COMPLETED"
  BY DEF finish, BackInv, Phases
<1>1. PICK c \in Child : child' = c /\ c.state = "closed" /\ c.code = child.code /\ c.heir = child.heir
  <2>1. child \in Child /\ child' = [child EXCEPT !.state = "closed"]
    BY DEF BackInv, BackendTyped, finish
  <2>2. child' \in Child /\ child'.state = "closed" /\ child'.code = child.code /\ child'.heir = child.heir
    BY <2>1 DEF Child
  <2> QED BY <2>2
<1>2. PICK m \in Nat :
        /\ m = IF provider = "codex" /\ pipe.read % 3 = 2 THEN pipe.read \div 3 + 1 ELSE handled
        /\ handled <= m
        /\ IF provider = "copilot" THEN eventsOf(flush) = <<>> ELSE Told(eventsOf(flush), handled, m)
        /\ IF m = handled THEN Range(flush) = {} ELSE Range(flush) = {m} /\ flush[1] = m
  BY <1>0, FlushTold
<1>3. /\ known' \in [failed : BOOLEAN, message : Nat] /\ known'.failed = known.failed
      /\ known'.message = IF \E i \in Range(flush) : script[i] = "message" THEN m ELSE known.message
  <2>1. PICK msg : msg = IF \E i \in Range(flush) : script[i] = "message" THEN flush[1] ELSE known.message
    OBVIOUS
  <2>2. known \in [failed : BOOLEAN, message : Nat] /\ known' = [known EXCEPT !.message = msg]
    BY <2>1 DEF BackInv, BackendTyped, finish
  <2>3. msg = IF \E i \in Range(flush) : script[i] = "message" THEN m ELSE known.message
    BY <1>2, <2>1
  <2>4. msg \in Nat
    BY <2>2, <2>3
  <2>5. known' \in [failed : BOOLEAN, message : Nat] /\ known'.failed = known.failed /\ known'.message = msg
    BY <2>2, <2>4
  <2> QED BY <2>3, <2>5
<1>4. PICK outcome \in Outcomes : outcome = outcomeOf(flush)
  BY DEF outcomeOf, Outcomes
<1>5. outcome = "GOAL_COMPLETED" =>
        /\ child.code = "0" /\ ~timedOut /\ ~known.failed
        /\ \A i \in Range(flush) : script[i] # "turn.failed"
  BY <1>4 DEF outcomeOf
<1>6. provider = "codex" => handled = pipe.read \div 3 /\ pipe.read \div 3 \in Nat
  <2>1. pipe.read \in Nat
    BY DEF BackInv, BackendTyped
  <2> QED BY <2>1, Thirds DEF handled
<1>7. provider = "codex" /\ outcome = "GOAL_COMPLETED" => m = Len(script)
  BY <1>0, <1>2, <1>5, <1>6, AtItsEnd
<1>8. Len(script) \in Nat /\ DOMAIN script = 1..Len(script) /\ script \in Seq(STRING)
  BY DEF BackInv, BackendTyped
<1>9. provider = "codex" =>
        \A i \in 1..m : \/ i \in 1..(pipe.read \div 3)
                        \/ i = m /\ Range(flush) = {m}
  BY <1>2, <1>6
<1>10. provider = "codex" =>
        \A i \in 1..m : /\ script[i] = "message" => i <= known'.message
                        /\ outcome = "GOAL_COMPLETED" => script[i] # "turn.failed"
  <2> SUFFICES ASSUME provider = "codex", NEW i \in 1..m
               PROVE  /\ script[i] = "message" => i <= known'.message
                      /\ outcome = "GOAL_COMPLETED" => script[i] # "turn.failed"
    OBVIOUS
  <2>0. known.message \in Nat
    BY DEF BackInv, BackendTyped
  <2>1. CASE i \in 1..(pipe.read \div 3)
    <3>1. /\ script[i] = "message" => i <= known.message
          /\ script[i] = "turn.failed" => known.failed
      BY <2>1 DEF BackInv, Handled
    <3>2. i <= m
      OBVIOUS
    <3> QED BY <1>3, <1>5, <2>0, <3>1, <3>2
  <2>2. CASE i = m /\ Range(flush) = {m}
    BY <1>3, <1>5, <2>2
  <2> QED BY <1>9, <2>1, <2>2
<1>11. provider = "codex" /\ outcome = "GOAL_COMPLETED" =>
         /\ m = Len(script)
         /\ \A i \in DOMAIN script : script[i] = "message" => i <= known'.message
  BY <1>7, <1>8, <1>10
<1>12. /\ queue' \in Queue /\ queue'.taken <= Len(queue'.events) /\ queue'.closed
       /\ result' \in Outcomes \cup {"rejected"}
       /\ ~queue.closed => result' = outcome
       /\ queue.closed => result' = result
       /\ OneEnd' /\ Reports' /\ StepTells'
  <2>1. PICK ev : ev = eventsOf(flush)
    OBVIOUS
  <2>2. /\ completed(ev, outcome) /\ UNCHANGED <<provider, script, step>> /\ child.state # "none"
        /\ IF provider = "copilot" THEN ev = <<>> ELSE Told(ev, handled, m)
    BY <1>0, <1>2, <1>4, <2>1 DEF request
  <2> QED BY <1>0, <1>2, <1>11, <2>2, CompletedKeeps
<1>13. BackendTyped'
  BY <1>0, <1>1, <1>3, <1>12 DEF BackInv, BackendTyped, request, isProcess
<1>14. Phases'
  BY <1>0, <1>1, <1>12 DEF BackInv, Phases, Outcomes, request, isProcess
<1>15. Handled'
  <2>1. provider = "codex" => \A i \in 1..(pipe.read \div 3) : i \in 1..m
    BY <1>2, <1>6
  <2> QED BY <1>0, <1>3, <1>10, <2>1 DEF BackInv, Handled, request
<1>16. OutcomeTruthful'
  <2>1. CASE queue.closed
    BY <1>0, <1>1, <1>12, <2>1 DEF BackInv, OutcomeTruthful, request, isProcess
  <2>2. CASE ~queue.closed
    <3>1. outcome = "GOAL_COMPLETED" => "turn.failed" \notin Range(script)
      <4>1. CASE provider = "codex"
        BY <1>7, <1>8, <1>10, <4>1 DEF Range
      <4>2. CASE provider # "codex"
        BY <4>2 DEF BackInv, BackendTyped, BackendAssumption
      <4> QED BY <4>1, <4>2
    <3>2. /\ outcome = "CANCELLED" => aborted
          /\ outcome = "BUDGET_EXHAUSTED" => timedOut
      BY <1>4 DEF outcomeOf, BackInv, Phases
    <3> QED BY <1>0, <1>1, <1>5, <1>12, <2>2, <3>1, <3>2 DEF OutcomeTruthful, request, isProcess
  <2> QED BY <2>1, <2>2
<1> QED
  BY <1>12, <1>13, <1>14, <1>15, <1>16 DEF BackInv

LEMMA SpawnKeeps == ASSUME BackInv, SpawnError PROVE BackInv'
<1>0. /\ child.state = "unspawned" /\ isProcess /\ result = "pending" /\ ~child.heir
      /\ completed(<<>>, "FATAL_FAILURE") /\ child.code # "0" /\ ~queue.closed
      /\ UNCHANGED <<request, pipe, known, cancelRequested, timedOut, aborted, step>>
  BY DEF SpawnError, BackInv, Phases, OneEnd, over
<1>1. child' \in Child /\ child'.state = "exited" /\ child'.code = "error" /\ child'.heir = child.heir
  BY DEF SpawnError, BackInv, BackendTyped, Child
<1>2. PICK m \in Nat : m = handled
  BY HandledNat
<1>3. PICK ev : ev = <<>>
  OBVIOUS
<1>4. PICK outcome \in Outcomes : outcome = "FATAL_FAILURE"
  BY DEF Outcomes
<1>5. /\ queue' \in Queue /\ queue'.taken <= Len(queue'.events) /\ queue'.closed
      /\ result' = outcome
      /\ OneEnd' /\ Reports' /\ StepTells'
  <2>1. /\ completed(ev, outcome) /\ UNCHANGED <<provider, script, step>> /\ child.state # "none"
        /\ Told(ev, handled, m) /\ handled <= m
    BY <1>0, <1>2, <1>3, <1>4, ToldNone DEF request
  <2>2. outcome # "GOAL_COMPLETED" /\ result # "GOAL_COMPLETED"
    BY <1>0, <1>4
  <2> QED BY <1>0, <1>3, <2>1, <2>2, CompletedKeeps
<1>6. BackendTyped' /\ Phases'
  BY <1>0, <1>1, <1>4, <1>5 DEF BackInv, BackendTyped, Phases, Outcomes, request, isProcess
<1>7. Handled' /\ OutcomeTruthful'
  BY <1>0, <1>4, <1>5 DEF BackInv, Handled, OutcomeTruthful, request, isProcess
<1> QED
  BY <1>5, <1>6, <1>7 DEF BackInv

\* The stream of the SDK ends at its result, or breaks off.
LEMMA StreamKeeps ==
    ASSUME BackInv, ~isProcess, child.state \in {"runs", "closing"},
           child' = [child EXCEPT !.state = "closed"],
           NEW m \in Nat, handled <= m, NEW ev, Told(ev, handled, m), NEW outcome \in Outcomes,
           completed(ev, outcome),
           outcome = "GOAL_COMPLETED" => "turn.failed" \notin Range(script),
           pipe' \in [printed : Nat, read : Nat], pipe'.read <= pipe'.printed, pipe'.printed <= Len(script),
           UNCHANGED <<request, known, cancelRequested, timedOut, aborted, step>>
    PROVE  BackInv'
<1>0. /\ result = "pending" /\ ~child.heir /\ child.code # "0" /\ ~queue.closed
      /\ provider = "claude-code"
  BY DEF BackInv, Phases, OneEnd, over, isProcess
<1>1. child' \in Child /\ child'.state = "closed" /\ child'.code = child.code /\ child'.heir = child.heir
  BY DEF BackInv, BackendTyped, Child
<1>2. /\ queue' \in Queue /\ queue'.taken <= Len(queue'.events) /\ queue'.closed
      /\ result' = outcome
      /\ OneEnd' /\ Reports' /\ StepTells'
  <2>1. UNCHANGED <<provider, script, step>> /\ child.state # "none"
    BY DEF request
  <2> QED BY <1>0, <2>1, CompletedKeeps
<1>3. BackendTyped'
  BY <1>0, <1>1, <1>2 DEF BackInv, BackendTyped, request, isProcess
<1>4. Phases'
  BY <1>0, <1>1, <1>2 DEF BackInv, Phases, Outcomes, request, isProcess
<1>5. Handled' /\ OutcomeTruthful'
  BY <1>0, <1>2 DEF Handled, OutcomeTruthful, request, isProcess
<1> QED
  BY <1>2, <1>3, <1>4, <1>5 DEF BackInv

LEMMA StreamEndsKeeps == ASSUME BackInv, StreamEnds PROVE BackInv'
<1>1. PICK m \in Nat : m = handled
  BY HandledNat
<1>2. PICK ev : ev = <<>>
  OBVIOUS
<1>3. PICK outcome \in Outcomes : outcome = abortedResult /\ outcome # "GOAL_COMPLETED"
  BY DEF abortedResult, Outcomes
<1>4. Told(ev, handled, m) /\ handled <= m /\ completed(ev, outcome)
  BY <1>1, <1>2, <1>3, ToldNone DEF StreamEnds
<1>5. /\ pipe' \in [printed : Nat, read : Nat] /\ pipe'.read <= pipe'.printed
      /\ pipe'.printed <= Len(script)
  BY DEF BackInv, BackendTyped, StreamEnds
<1> QED
  BY <1>3, <1>4, <1>5, StreamKeeps DEF StreamEnds

LEMMA StreamThrowsKeeps == ASSUME BackInv, StreamThrows PROVE BackInv'
<1>1. CASE cancelRequested \/ timedOut
  <2>1. StreamEnds
    BY <1>1 DEF StreamThrows, StreamEnds
  <2> QED BY <2>1, StreamEndsKeeps
<1>2. CASE ~(cancelRequested \/ timedOut)
  <2>0. /\ ~isProcess /\ result = "pending" /\ ~child.heir /\ child.code # "0" /\ ~queue.closed
        /\ child.state \notin {"none", "closed"} /\ provider = "claude-code"
        /\ UNCHANGED <<request, pipe, known, cancelRequested, timedOut, aborted, step>>
    BY DEF BackInv, Phases, OneEnd, over, isProcess, StreamThrows
  <2>1. child' \in Child /\ child'.state = "closed" /\ child'.code = child.code /\ child'.heir = child.heir
    BY DEF BackInv, BackendTyped, Child, StreamThrows
  <2>2. queue' = [queue EXCEPT !.closed = TRUE] /\ result' = "rejected"
    BY <1>2, <2>0 DEF StreamThrows, settle
  <2>3. queue' \in Queue /\ queue'.closed /\ queue'.events = queue.events /\ queue'.taken = queue.taken
    BY <2>2 DEF BackInv, BackendTyped, Queue
  <2>4. BackendTyped'
    BY <2>0, <2>1, <2>2, <2>3 DEF BackInv, BackendTyped, request, isProcess
  <2>5. Phases'
    BY <2>0, <2>1, <2>2, <2>3 DEF BackInv, Phases, request, isProcess
  <2>6. OneEnd'
    BY <2>0, <2>2, <2>3 DEF BackInv, OneEnd, over, NoEnd, Outcomes
  <2>7. Handled' /\ OutcomeTruthful' /\ StepTells'
    BY <2>0, <2>1, <2>2, <2>3 DEF BackInv, Handled, OutcomeTruthful, StepTells, OneEnd, over, request, isProcess
  <2>8. Reports'
    <3>1. PICK h \in Nat : h = handled
      BY HandledNat
    <3>2. PICK c : c = queue.events
      OBVIOUS
    <3>3. LineOrder(c) /\ Reported(c, h)
      BY <2>0, <3>1, <3>2 DEF BackInv, Reports
    <3>4. c = queue'.events /\ h = handled'
      BY <2>0, <2>3, <3>1, <3>2 DEF handled, request
    <3>5. UNCHANGED <<provider, script>>
      BY <2>0 DEF request
    <3> QED BY <2>2, <2>3, <3>3, <3>4, <3>5, ReportsAre
  <2> QED BY <2>4, <2>5, <2>6, <2>7, <2>8 DEF BackInv
<1> QED
  BY <1>1, <1>2

LEMMA MessageKeeps == ASSUME BackendAssumption, BackInv, Message PROVE BackInv'
<1> DEFINE i == pipe.read + 1
<1>0. /\ ~isProcess /\ child.state \in {"runs", "closing"} /\ pipe.read < Len(script)
      /\ pipe' = [printed |-> i, read |-> i] /\ pipe.read \in Nat /\ i \in Nat
      /\ UNCHANGED <<request, known, cancelRequested, timedOut, aborted, step>>
      /\ Len(script) \in Nat /\ script \in Seq(STRING)
  BY DEF Message, BackInv, BackendTyped
<1>1. /\ provider = "claude-code" /\ handled = pipe.read /\ handled' = i
      /\ result = "pending" /\ ~queue.closed
  BY <1>0 DEF isProcess, handled, request, BackInv, Phases, OneEnd, over
<1>2. PICK m \in Nat : m = i
  BY <1>0
<1>3. PICK ev : ev = translated(i)
  OBVIOUS
<1>4. Told(ev, handled, m) /\ handled \in Nat /\ handled <= m
  <2>1. PICK n \in Nat : n = pipe.read
    BY <1>0
  <2>2. Told(translated(n + 1), n, n + 1)
    BY ToldOne
  <2> QED BY <1>1, <1>2, <1>3, <2>1, <2>2
<1>5. /\ pipe' \in [printed : Nat, read : Nat] /\ pipe'.read <= pipe'.printed
      /\ pipe'.printed <= Len(script)
  BY <1>0
<1>6. CASE isResult(i)
  <2>1. PICK outcome \in Outcomes : outcome = outcomeOfResult(i)
    BY DEF outcomeOfResult, Outcomes
  <2>2. completed(ev, outcome) /\ child' = [child EXCEPT !.state = "closed"]
    BY <1>3, <1>6, <2>1 DEF Message
  <2>3. "turn.failed" \notin Range(script)
    BY <1>1 DEF BackInv, BackendTyped, BackendAssumption
  <2> HIDE DEF i
  <2> QED BY <1>0, <1>4, <1>5, <2>2, <2>3, StreamKeeps
<1>7. CASE ~isResult(i)
  <2>1. queue' = push(ev) /\ UNCHANGED <<child, result>>
    BY <1>3, <1>7 DEF Message
  <2>2. ev \in Seq(Output) /\ UNCHANGED <<provider, script>>
    BY <1>0, <1>4 DEF Told, request
  <2>3. /\ queue' \in Queue /\ queue'.taken <= Len(queue'.events) /\ queue'.closed = queue.closed
        /\ OneEnd' /\ LineOrder(queue'.events)
        /\ UpTo(queue'.events, m) /\ Reported(queue'.events, m)
    BY <1>1, <1>4, <2>1, <2>2, Tells
  <2>4. BackendTyped'
    BY <1>0, <1>5, <2>1, <2>3 DEF BackInv, BackendTyped, request, isProcess
  <2>5. Phases'
    BY <1>0, <2>1 DEF BackInv, Phases, request, isProcess
  <2>6. Handled' /\ OutcomeTruthful' /\ StepTells'
    BY <1>0, <1>1, <2>1, <2>3 DEF BackInv, Handled, OutcomeTruthful, StepTells, OneEnd, over, request, isProcess
  <2>7. PICK c : c = queue'.events
    OBVIOUS
  <2>8. m = handled' /\ result' # "GOAL_COMPLETED"
    BY <1>1, <1>2, <2>1
  <2>9. Reports'
    BY <2>2, <2>3, <2>7, <2>8, ReportsAre
  <2> QED BY <2>3, <2>4, <2>5, <2>6, <2>9 DEF BackInv
<1> QED
  BY <1>6, <1>7

LEMMA DataKeeps == ASSUME BackendAssumption, BackInv, Data PROVE BackInv'
<1>1. /\ isProcess /\ pipe.read \in Nat /\ pipe.printed \in Nat /\ Len(script) \in Nat
      /\ pipe \in [printed : Nat, read : Nat] /\ known \in [failed : BOOLEAN, message : Nat]
      /\ UNCHANGED <<request, child, cancelRequested, timedOut, aborted, result, step>>
      /\ provider \in {"codex", "copilot"}
  BY DEF Data, BackInv, BackendTyped, BackendAssumption, isProcess
<1>2. PICK to \in (pipe.read + 1)..pipe.printed :
        LET lines == interval(pipe.read \div 3, to \div 3) IN
        /\ pipe' = [pipe EXCEPT !.read = to]
        /\ queue' = push(IF provider = "copilot" THEN <<event("agent.text", to)>> ELSE eventsOf(lines))
        /\ known' = [failed |-> known.failed \/ \E i \in Range(lines) : script[i] = "turn.failed",
                     message |-> Max({known.message} \cup {i \in Range(lines) : script[i] = "message"})]
  BY DEF Data
<1>3. /\ to \in Nat /\ pipe.read < to /\ to <= pipe.printed
      /\ pipe' \in [printed : Nat, read : Nat] /\ pipe'.read = to /\ pipe'.printed = pipe.printed
  BY <1>1, <1>2
<1>4. PICK a \in Nat, b \in Nat : a = pipe.read \div 3 /\ b = to \div 3 /\ a <= b
  <2>1. pipe.read \div 3 \in Nat /\ to \div 3 \in Nat /\ pipe.read \div 3 <= to \div 3
    BY <1>1, <1>3, Thirds
  <2> QED BY <2>1
<1>5. Range(interval(a, b)) = (a + 1)..b
  <2>1. ASSUME NEW n \in (a + 1)..b PROVE \E k \in 1..(b - a) : a + k = n
    <3>1. n - a \in 1..(b - a) /\ a + (n - a) = n
      OBVIOUS
    <3> QED BY <3>1
  <2>2. \A k \in 1..(b - a) : a + k \in (a + 1)..b
    OBVIOUS
  <2> QED BY <2>1, <2>2 DEF interval, Range
<1>6. /\ known' \in [failed : BOOLEAN, message : Nat]
      /\ known.failed => known'.failed
      /\ known.message <= known'.message
      /\ \A i \in (a + 1)..b : /\ script[i] = "turn.failed" => known'.failed
                               /\ script[i] = "message" => i <= known'.message
  <2> DEFINE S == {known.message} \cup {i \in (a + 1)..b : script[i] = "message"}
  <2>1. known'.failed \in BOOLEAN /\ known'.message = Max(S)
        /\ (known.failed => known'.failed)
        /\ \A i \in (a + 1)..b : script[i] = "turn.failed" => known'.failed
    BY <1>1, <1>2, <1>4, <1>5
  <2>2. known.message + b \in Nat /\ S \subseteq 0..(known.message + b) /\ S # {} /\ known.message \in S
    <3>1. known.message \in Nat
      BY <1>1
    <3> QED BY <3>1
  <2>3. Max(S) \in Nat /\ \A k \in S : k <= Max(S)
    <3> HIDE DEF S
    <3> QED BY <2>2, GreatestOf
  <2>4. \A i \in (a + 1)..b : script[i] = "message" => i <= known'.message
    BY <2>1, <2>3
  <2>5. known' = [failed |-> known'.failed, message |-> known'.message]
    BY <1>2
  <2>6. known.message <= known'.message /\ known'.message \in Nat
    BY <2>1, <2>2, <2>3
  <2> HIDE DEF S
  <2> QED BY <2>1, <2>4, <2>5, <2>6
<1>7. PICK m \in Nat : m = handled' /\ handled <= m /\ m = (IF provider = "codex" THEN b ELSE to)
  <2>1. handled' = IF provider = "codex" THEN b ELSE to
    BY <1>1, <1>3, <1>4 DEF handled, request
  <2>2. handled = IF provider = "codex" THEN a ELSE pipe.read
    BY <1>4 DEF handled
  <2> QED BY <1>1, <1>3, <1>4, <2>1, <2>2
<1>8. PICK ev \in Seq(Output) :
        /\ queue' = push(ev)
        /\ IF provider = "copilot"
           THEN Sorted(ev, LineBefore) /\ \A x \in Range(ev) : handled <= x.line /\ x.line <= m
           ELSE Told(ev, handled, m)
  <2>1. CASE provider = "copilot"
    <3>1. PICK x : x = event("agent.text", to)
      OBVIOUS
    <3>2. x \in Output /\ x.line = to
      BY <1>3, <3>1 DEF event, Output, OutputTypes
    <3>3. <<x>> \in Seq(Output) /\ Range(<<x>>) = {x} /\ DOMAIN <<x>> = {1}
      BY <3>2 DEF Range
    <3>4. Sorted(<<x>>, LineBefore)
      BY <3>3 DEF Sorted
    <3>5. queue' = push(<<x>>)
      BY <1>2, <2>1, <3>1
    <3>6. handled <= x.line /\ x.line <= m
      BY <1>3, <1>7, <2>1, <3>2
    <3> QED BY <2>1, <3>3, <3>4, <3>5, <3>6
  <2>2. CASE provider # "copilot"
    <3>1. provider = "codex"
      BY <1>1, <2>2
    <3>2. queue' = push(eventsOf(interval(a, b)))
      BY <1>2, <1>4, <2>2
    <3>3. handled = a /\ m = b
      BY <1>4, <1>7, <3>1 DEF handled
    <3>4. Told(eventsOf(interval(a, b)), handled, m)
      BY <1>4, <3>3, EventsOfInterval
    <3> QED BY <2>2, <3>2, <3>4 DEF Told
  <2> QED BY <2>1, <2>2
<1>9. /\ queue' \in Queue /\ queue'.taken <= Len(queue'.events) /\ queue'.closed = queue.closed
      /\ OneEnd' /\ LineOrder(queue'.events)
      /\ ~queue.closed => /\ UpTo(queue'.events, m)
                          /\ provider # "copilot" => Reported(queue'.events, m)
      /\ queue.closed => queue' = queue
  <2>1. UNCHANGED <<provider, script, result>> /\ handled \in Nat
    BY <1>1, HandledNat DEF request
  <2> QED BY <1>7, <1>8, <2>1, Tells
<1>10. BackendTyped'
  BY <1>1, <1>3, <1>6, <1>9 DEF BackInv, BackendTyped, request, isProcess
<1>11. Phases'
  <2>1. child.state # "none" /\ child.state # "closed"
    <3>1. pipe.printed # pipe.read
      BY <1>1, <1>3
    <3> QED BY <1>1, <3>1 DEF BackInv, Phases, Unread
  <2> QED BY <1>1, <1>3, <2>1 DEF BackInv, Phases, request, isProcess
<1>12. Handled'
  <2> SUFFICES ASSUME provider = "codex", NEW i \in 1..b
               PROVE  /\ script[i] = "turn.failed" => known'.failed
                      /\ script[i] = "message" => i <= known'.message
    BY <1>1, <1>3, <1>4 DEF Handled, request
  <2>1. CASE i \in 1..a
    <3>1. /\ script[i] = "turn.failed" => known.failed
          /\ script[i] = "message" => i <= known.message
      BY <1>4, <2>1 DEF BackInv, Handled
    <3>2. known.message \in Nat /\ known'.message \in Nat
      BY <1>1, <1>6
    <3> QED BY <1>6, <3>1, <3>2
  <2>2. CASE i \in (a + 1)..b
    BY <1>6, <2>2
  <2> QED BY <2>1, <2>2
<1>13. OutcomeTruthful'
  BY <1>1 DEF BackInv, OutcomeTruthful, request, isProcess
<1>14. StepTells'
  BY <1>1, <1>9 DEF BackInv, StepTells
<1>15. Reports'
  <2>1. PICK c : c = queue'.events
    OBVIOUS
  <2>2. UNCHANGED <<provider, script>>
    BY <1>1 DEF request
  <2>3. \E n \in Nat : provider # "copilot" => Reported(c, n)
    <3>1. CASE queue.closed
      BY <1>9, <2>1, <3>1 DEF BackInv, Reports
    <3>2. CASE ~queue.closed
      BY <1>9, <2>1, <3>2
    <3> QED BY <3>1, <3>2
  <2>4. provider = "codex" /\ result' = "GOAL_COMPLETED" =>
          /\ Reported(c, Len(script))
          /\ \A i \in DOMAIN script : script[i] = "message" => i <= known'.message
    <3> SUFFICES ASSUME provider = "codex", result = "GOAL_COMPLETED"
                 PROVE  /\ Reported(c, Len(script))
                        /\ \A i \in DOMAIN script : script[i] = "message" => i <= known'.message
      BY <1>1
    <3>1. queue' = queue
      BY <1>9 DEF BackInv, OneEnd, over
    <3>2. /\ Reported(queue.events, Len(script))
          /\ \A i \in DOMAIN script : script[i] = "message" => i <= known.message
      BY DEF BackInv, Reports
    <3>3. DOMAIN script \subseteq Nat /\ known.message \in Nat /\ known'.message \in Nat
      BY <1>1, <1>6 DEF BackInv, BackendTyped
    <3> QED BY <1>6, <2>1, <3>1, <3>2, <3>3
  <2>5. ~queue'.closed => UpTo(c, m) /\ (provider # "copilot" => Reported(c, m))
    BY <1>9, <2>1
  <2>6. LineOrder(c) /\ m = handled'
    BY <1>7, <1>9, <2>1
  <2> QED BY <2>1, <2>2, <2>3, <2>4, <2>5, <2>6, ReportsAre
<1> QED
  BY <1>9, <1>10, <1>11, <1>12, <1>13, <1>14, <1>15 DEF BackInv

LEMMA BackStays == ASSUME BackendAssumption, BackInv, [BackendNext]_backendVars PROVE BackInv'
<1>1. CASE BackendNext
  BY <1>1, WriteKeeps, ExitKeeps, HeirKeeps, TimerKeeps, AbortKeeps, PublishKeeps, EndKeeps, StartKeeps,
     FinishKeeps, SpawnKeeps, StreamEndsKeeps, StreamThrowsKeeps, MessageKeeps, DataKeeps
  DEF BackendNext, Provider
<1>2. CASE UNCHANGED backendVars
  <2>1. OneEnd' /\ Handled' /\ Reports'
    BY <1>2, Silent DEF backendVars
  <2>2. BackendTyped' /\ Phases' /\ OutcomeTruthful' /\ StepTells'
    BY <1>2 DEF BackInv, BackendTyped, Phases, OutcomeTruthful, StepTells, backendVars, isProcess
  <2> QED BY <2>1, <2>2 DEF BackInv
<1> QED
  BY <1>1, <1>2

LEMMA BackendHolds ==
    ASSUME BackendAssumption
    PROVE  BackendSpec => []BackInv
<1>1. BackendInit => BackInv
  BY AtFirst
<1>2. BackInv /\ [BackendNext]_backendVars => BackInv'
  BY BackStays
<1> QED
  BY <1>1, <1>2, PTL DEF BackendSpec

\* OneResult: an external agent ends once. Its stream is closed with its result and carries it
\* as its last event, whatever the process, the timer and the abort do in whichever order.
THEOREM AgentsEndOnce ==
    ASSUME BackendAssumption
    PROVE  BackendSpec => []OneResult
<1>1. BackInv => OneResult
  <2> SUFFICES ASSUME BackInv PROVE OneResult
    OBVIOUS
  <2>1. OneEnd /\ queue.events \in Seq(Event) /\ result \in Outcomes \cup {"pending", "rejected"}
    BY DEF BackInv, BackendTyped, Queue
  <2>2. queue.closed <=> over
    BY <2>1 DEF OneEnd
  <2>3. \A i \in DOMAIN queue.events :
          queue.events[i].type = "agent.completed" =>
             i = Len(queue.events) /\ queue.events[i].line = result
    BY <2>1 DEF OneEnd, Ended, NoEnd
  <2>4. over /\ result # "rejected" => Last(queue.events).type = "agent.completed"
    BY <2>1 DEF OneEnd, Ended, over, Last
  <2> QED BY <2>2, <2>3, <2>4 DEF OneResult
<1> QED
  BY <1>1, BackendHolds, PTL

\* LinesReported: an agent is reported line by line, in order and without a gap, however its
\* output is cut into chunks and wherever it breaks off; a codex that was successful in full.
THEOREM LinesAreReported ==
    ASSUME BackendAssumption
    PROVE  BackendSpec => []LinesReported
<1>1. BackInv => LinesReported
  <2> SUFFICES ASSUME BackInv PROVE LinesReported
    OBVIOUS
  <2>1. Reports /\ queue.events \in Seq(Event) /\ Len(script) \in Nat /\ outputs = Outs(queue.events)
    BY DEF BackInv, BackendTyped, Queue, outputs, Outs
  <2>2. \A i, j \in outputs : i < j => queue.events[i].line <= queue.events[j].line
    BY <2>1 DEF Reports, LineOrder
  <2>3. \A n \in Nat : \A x \in Range(translated(n)) : x \in Output /\ x.line = n
    BY Translation DEF Range
  <2>4. \A x \in Range(queue.events) :
          x \in Output => \E j \in outputs : queue.events[j] = x
    <3>1. \A x \in Output : x.type # "agent.started" /\ x.type # "agent.completed"
      BY DEF Output, OutputTypes
    <3> QED BY <3>1 DEF outputs, Range
  <2>5. ASSUME provider # "copilot", NEW i \in outputs, NEW n \in 1..(queue.events[i].line - 1),
               translated(n) # <<>>
        PROVE  \E j \in outputs : queue.events[j].line = n
    <3>1. PICK m \in Nat : Reported(queue.events, m)
      BY <2>1, <2>5 DEF Reports
    <3>2. queue.events[i].line \in 1..m
      BY <2>1, <3>1 DEF Reported
    <3>3. n \in 1..m /\ n \in Nat
      BY <3>2
    <3>4. Range(translated(n)) \subseteq Range(queue.events)
      BY <3>1, <3>3 DEF Reported
    <3>5. PICK x : x \in Range(translated(n))
      <4>1. translated(n) \in Seq(Output)
        BY <3>3, Translation
      <4>2. 1 \in DOMAIN translated(n)
        BY <2>5, <4>1
      <4> QED BY <4>2 DEF Range
    <3> QED BY <2>3, <2>4, <3>3, <3>4, <3>5
  <2>6. ASSUME result = "GOAL_COMPLETED", provider = "codex"
        PROVE  /\ Range(eventsOf(interval(0, Len(script)))) = {queue.events[i] : i \in outputs}
               /\ \A i \in DOMAIN script : script[i] = "message" => i <= known.message
    <3>1. PICK m \in Nat : m = Len(script)
      BY <2>1
    <3>2. /\ Reported(queue.events, m)
          /\ \A i \in DOMAIN script : script[i] = "message" => i <= known.message
      BY <2>1, <2>6, <3>1 DEF Reports
    <3>3. Range(eventsOf(interval(0, m))) = UNION {Range(translated(n)) : n \in 1..m}
      <4>1. Told(eventsOf(interval(0, m)), 0, m) /\ 0 + 1 = 1
        BY EventsOfInterval
      <4> QED BY <4>1 DEF Told
    <3>4. ASSUME NEW x \in Range(eventsOf(interval(0, m))) PROVE x \in {queue.events[i] : i \in outputs}
      <4>1. PICK n \in 1..m : x \in Range(translated(n))
        BY <3>3
      <4>2. x \in Output /\ x \in Range(queue.events)
        BY <2>3, <3>2, <4>1 DEF Reported
      <4> QED BY <2>4, <4>2
    <3>5. ASSUME NEW i \in outputs PROVE queue.events[i] \in Range(eventsOf(interval(0, m)))
      <4>1. queue.events[i].line \in 1..m /\ queue.events[i] \in Range(translated(queue.events[i].line))
        BY <2>1, <3>2 DEF Reported
      <4> QED BY <3>3, <4>1
    <3> QED BY <3>1, <3>2, <3>4, <3>5
  <2> QED BY <2>2, <2>5, <2>6 DEF LinesReported
<1> QED
  BY <1>1, BackendHolds, PTL

\* OutcomeTruthful: an agent that was stopped or out of time is not taken to have reached its
\* goal, nor one whose turn failed, and only these are said to have been.
THEOREM OutcomesAreTruthful ==
    ASSUME BackendAssumption
    PROVE  BackendSpec => []OutcomeTruthful
<1>1. BackInv => OutcomeTruthful
  BY DEF BackInv
<1> QED
  BY <1>1, BackendHolds, PTL

\* StepTold: the step of an agent has its result only when all events were published.
THEOREM StepsAreTold ==
    ASSUME BackendAssumption
    PROVE  BackendSpec => []StepTold
<1>1. BackInv => StepTold
  <2> SUFFICES ASSUME BackInv PROVE StepTold
    OBVIOUS
  <2>1. child.state = "none" => ~over
    BY DEF BackInv, Phases, over
  <2> QED BY <2>1 DEF BackInv, StepTells, StepTold
<1> QED
  BY <1>1, BackendHolds, PTL
================================================================================
