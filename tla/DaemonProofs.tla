------------------------------ MODULE DaemonProofs ------------------------------
(***************************************************************************)
(* Safety of Daemon for every set of items, runs, lanes and schedules, any *)
(* calendar and any number of crashes and shutdowns.                       *)
(***************************************************************************)
EXTENDS Daemon, FiniteSetTheorems, WellFoundedInduction, TLAPS

--------------------------------------------------------------------------------
(* The inductive invariant *)

Starters == V1 \cup {"nobody", "schedule", "selection"} \cup Range(Lanes)

Row == [item : Items \cup {NoItem}, by : Starters, state : Live \cup {"none", "ENDED"}]

TickType ==
    [pc : {"idle", "schedules", "fire", "firing", "lanes", "dispatch", "starting"},
     at : Nat, left : Seq(Items), active : SUBSET RunIds, run : RunIds \cup {NoRun}]

TableType ==
    /\ runs \in [RunIds -> Row]
    /\ claims \in [Items -> RunIds \cup {NoRun}]
    /\ exec \in [RunIds -> {"no", "claimed", "preparing", "working", "closing"}]

SchedulingType ==
    /\ now \in Int
    /\ enabled \in Scenarios
    /\ lastFiring \in [Range(Schedules) -> Int]
    /\ started \in [Range(Schedules) -> Seq(Int)]
    /\ laneRuns \in [Range(Lanes) -> SUBSET RunIds]
    /\ tick \in TickType

TypeOK == TableType /\ SchedulingType /\ running \in SUBSET RunIds

\* Where the tick is, and whether it awaits a run.
TickPlace ==
    /\ tick.pc \in {"schedules", "lanes"} => tick.at >= 1
    /\ tick.pc \in {"fire", "firing"} => tick.at \in 1..Len(Schedules)
    /\ tick.pc \in {"dispatch", "starting"} => tick.at \in 1..Len(Lanes) /\ lane \in enabled
    /\ tick.pc \in {"firing", "starting"} <=> tick.run # NoRun

\* What a row says of a run and what the process does for it.
RowsCoherent ==
    \A r \in RunIds :
        /\ unused(r) => runs[r].item = NoItem /\ runs[r].state = "none" /\ exec[r] = "no"
        /\ exec[r] = "working" => runs[r].state = "RUNNING"
        /\ runs[r].state = "WAITING" => exec[r] = "no"

DownIsIdle ==
    phase = "down" => /\ \A r \in RunIds : exec[r] = "no"
                      /\ running = {} /\ tick = Idle

\* From its claim on, and while it is parked, a run needs its item.
engaged(r) == exec[r] \in {"claimed", "preparing", "working"} \/ runs[r].state = "WAITING"

EngagedHoldClaim ==
    \A r \in RunIds : engaged(r) /\ runs[r].item # NoItem => claims[runs[r].item] = r

RunningCounted ==
    /\ IsFiniteSet(running)
    /\ Cardinality(running) <= maxConcurrentRuns
    /\ \A r \in running :
        /\ runs[r].by = "scheduler"
        /\ runs[r].item # NoItem
        /\ claims[runs[r].item] = r
        /\ exec[r] # "no"

TableInv == TableType /\ RowsCoherent /\ EngagedHoldClaim

CoreInv == TypeOK /\ TickPlace /\ TableInv /\ DownIsIdle /\ RunningCounted

\* A slot that is started for was recorded, and the one about to be is new.
SlotsRecorded ==
    \A s \in Range(Schedules) : \A n \in DOMAIN started[s] :
        /\ started[s][n] <= lastFiring[s]
        /\ tick.pc = "fire" /\ schedule = s => started[s][n] < lastFiring[s]

\* The runs of a lane, from their claim on.
engagedFor(l) == {r \in RunIds : runs[r].by = l /\ engaged(r)}

\* The lane whose dispatch is under way.
inHand(l) == tick.pc \in {"dispatch", "starting"} /\ lane = l

LaneRunsTracked ==
    /\ \A r \in RunIds : runs[r].by \in Range(Lanes) /\ exec[r] \in {"claimed", "preparing"}
            => tick.pc = "starting" /\ tick.run = r
    /\ tick.pc = "starting" => runs[tick.run].by = lane
    /\ phase # "down" => \A l \in Range(Lanes) :
            engagedFor(l) \subseteq IF inHand(l) THEN tick.active \cup {tick.run}
                                                 ELSE laneRuns[l]

LanesBounded ==
    /\ \A l \in Range(Lanes) :
        /\ IsFiniteSet(laneRuns[l]) /\ Cardinality(laneRuns[l]) <= capacity(l)
        /\ IsFiniteSet(engagedFor(l)) /\ Cardinality(engagedFor(l)) <= capacity(l)
    /\ IsFiniteSet(tick.active)
    /\ tick.pc = "dispatch" => Cardinality(tick.active) <= capacity(lane)
    /\ tick.pc = "starting" => Cardinality(tick.active) < capacity(lane)

LaneInv == LaneRunsTracked /\ LanesBounded

\* A start that throws makes the tick forget what the dispatch has started before it.
OneByOne == \A l \in Range(Lanes) \cap Throwing : capacity(l) = 1
--------------------------------------------------------------------------------
(* One step of the tables *)

USE DEF V1, Live, NoRun

\* What the process or a person does with a run that was started.
TableStep(r) ==
    \/ Prepare(r) \/ BeginWork(r) \/ StartThrows(r) \/ Park(r) \/ BeginEnd(r) \/ FinishEnd(r)
    \/ Resume(r) \/ CancelWaiting(r)

LEMMA StarterTypes ==
    /\ V1 \cup {"schedule", "selection"} \cup Range(Lanes) \subseteq Starters \ {"nobody"}
    /\ \A by \in Range(Lanes) : by \notin V1
  BY LanesAssumption DEF Starters

LEMMA Claimed ==
    ASSUME TableInv, NEW r \in RunIds, NEW item \in Items, NEW by \in Starters \ {"nobody"},
           tryClaim(r, item, by)
    PROVE  /\ TableInv'
           /\ unused(r) /\ claims[item] = NoRun
           /\ runs' = [runs EXCEPT ![r] = [item |-> item, by |-> by, state |-> "none"]]
           /\ claims' = [claims EXCEPT ![item] = r]
           /\ exec' = [exec EXCEPT ![r] = "claimed"]
<1>1. /\ unused(r) /\ claims[item] = NoRun
      /\ claims' = [claims EXCEPT ![item] = r]
      /\ exec' = [exec EXCEPT ![r] = "claimed"]
      /\ runs[r] = [item |-> NoItem, by |-> "nobody", state |-> "none"]
  BY DEF tryClaim, nextId, unused, TableInv, TableType, Row, RowsCoherent
<1>2. runs' = [runs EXCEPT ![r] = [item |-> item, by |-> by, state |-> "none"]]
  <2> DEFINE named == [runs EXCEPT ![r].item = item]
  <2>1. named[r] = [item |-> item, by |-> "nobody", state |-> "none"]
    BY <1>1 DEF TableInv, TableType
  <2>2. [named[r] EXCEPT !.by = by] = [item |-> item, by |-> by, state |-> "none"]
    BY <2>1
  <2> QED
    BY <2>2 DEF tryClaim, TableInv, TableType
<1>3. TableType'
  BY <1>1, <1>2 DEF TableInv, TableType, Row
<1>4. RowsCoherent'
  BY <1>1, <1>2 DEF TableInv, TableType, RowsCoherent, unused
<1>5. EngagedHoldClaim'
  <2> SUFFICES ASSUME NEW q \in RunIds, engaged(q)', runs'[q].item # NoItem
               PROVE  claims'[runs'[q].item] = q
    BY DEF EngagedHoldClaim
  <2>1. CASE q = r
    BY <2>1, <1>1, <1>2 DEF TableInv, TableType
  <2>2. CASE q # r
    <3>1. runs'[q] = runs[q] /\ engaged(q)
      BY <2>2, <1>1, <1>2 DEF TableInv, TableType, engaged
    <3>2. claims[runs[q].item] = q /\ q # NoRun
      BY <3>1, TableAssumption DEF TableInv, EngagedHoldClaim
    <3> QED
      BY <3>1, <3>2, <1>1 DEF TableInv, TableType
  <2> QED
    BY <2>1, <2>2
<1> QED
  BY <1>1, <1>2, <1>3, <1>4, <1>5 DEF TableInv

LEMMA StartedUnclaimed ==
    ASSUME TableInv, NEW r \in RunIds, NEW by \in Starters \ {"nobody"}, startUnclaimed(r, by)
    PROVE  /\ TableInv'
           /\ unused(r) /\ claims' = claims
           /\ runs' = [runs EXCEPT ![r] = [item |-> NoItem, by |-> by, state |-> "none"]]
           /\ exec' = [exec EXCEPT ![r] = "claimed"]
<1>1. /\ unused(r) /\ claims' = claims
      /\ exec' = [exec EXCEPT ![r] = "claimed"]
      /\ runs[r] = [item |-> NoItem, by |-> "nobody", state |-> "none"]
  BY DEF startUnclaimed, nextId, unused, TableInv, TableType, Row, RowsCoherent
<1>2. runs' = [runs EXCEPT ![r] = [item |-> NoItem, by |-> by, state |-> "none"]]
  <2>1. [runs[r] EXCEPT !.by = by] = [item |-> NoItem, by |-> by, state |-> "none"]
    BY <1>1
  <2> QED
    BY <2>1 DEF startUnclaimed, TableInv, TableType
<1>3. TableType'
  BY <1>1, <1>2 DEF TableInv, TableType, Row
<1>4. RowsCoherent'
  BY <1>1, <1>2 DEF TableInv, TableType, RowsCoherent, unused
<1>5. EngagedHoldClaim'
  BY <1>1, <1>2 DEF TableInv, TableType, EngagedHoldClaim, engaged
<1> QED
  BY <1>1, <1>2, <1>3, <1>4, <1>5 DEF TableInv

\* A step of a run leaves the other runs and their claims alone.
LEMMA Stepped ==
    ASSUME TableInv, NEW r \in RunIds, TableStep(r)
    PROVE  /\ TableInv'
           /\ ~unused(r)
           /\ \A q \in RunIds : runs'[q].by = runs[q].by /\ runs'[q].item = runs[q].item
           /\ \A q \in RunIds \ {r} : runs'[q] = runs[q] /\ exec'[q] = exec[q]
           /\ \A i \in Items : claims'[i] = claims[i] \/ (claims[i] = r /\ claims'[i] = NoRun)
           /\ \A q \in RunIds :
                /\ engaged(q)' => engaged(q)
                /\ exec'[q] \in {"claimed", "preparing"} => exec[q] \in {"claimed", "preparing"}
<1> USE DEF TableInv
<1>1. runs[r] \in Row /\ ~unused(r)
  BY DEF TableType, RowsCoherent, TableStep, Prepare, BeginWork, StartThrows, Park, BeginEnd,
         FinishEnd, Resume, CancelWaiting
<1>2. /\ runs' \in [RunIds -> Row] /\ exec' \in [RunIds -> {"no", "claimed", "preparing", "working", "closing"}]
      /\ \A q \in RunIds : runs'[q].by = runs[q].by /\ runs'[q].item = runs[q].item
      /\ \A q \in RunIds \ {r} : runs'[q] = runs[q] /\ exec'[q] = exec[q]
  BY <1>1 DEF TableType, Row, TableStep, Prepare, BeginWork, StartThrows, Park, BeginEnd,
         FinishEnd, Resume, CancelWaiting
<1>3. claims' = claims \/ (claims' = release(r) /\ ~engaged(r)')
  <2>1. CASE BeginEnd(r) \/ FinishEnd(r) \/ CancelWaiting(r)
    BY <2>1, <1>1 DEF TableType, RowsCoherent, Row, engaged, BeginEnd, FinishEnd, CancelWaiting
  <2> QED
    BY <2>1 DEF TableStep, Prepare, BeginWork, StartThrows, Park, Resume
<1>4. claims' \in [Items -> RunIds \cup {NoRun}]
      /\ \A i \in Items : claims'[i] = claims[i] \/ (claims[i] = r /\ claims'[i] = NoRun)
  BY <1>3 DEF TableType, release
<1>5. RowsCoherent'
  <2>1. \A q \in RunIds : unused(q)' => unused(q) /\ q # r
    BY <1>1, <1>2 DEF unused
  <2>2. /\ exec'[r] = "working" => runs'[r].state = "RUNNING"
        /\ runs'[r].state = "WAITING" => exec'[r] = "no"
    BY <1>1, <1>2 DEF TableType, Row, RowsCoherent, TableStep, Prepare, BeginWork, StartThrows, Park,
         BeginEnd, FinishEnd, Resume, CancelWaiting
  <2> QED
    BY <2>1, <2>2, <1>2 DEF RowsCoherent
<1>6. engaged(r)' => engaged(r)
  BY <1>1 DEF TableType, Row, RowsCoherent, engaged, TableStep, Prepare, BeginWork, StartThrows,
         Park, BeginEnd, FinishEnd, Resume, CancelWaiting
<1>8. \A q \in RunIds :
        /\ engaged(q)' => engaged(q)
        /\ exec'[q] \in {"claimed", "preparing"} => exec[q] \in {"claimed", "preparing"}
  <2>1. exec'[r] \in {"claimed", "preparing"} => exec[r] \in {"claimed", "preparing"}
    BY DEF TableType, TableStep, Prepare, BeginWork, StartThrows, Park, BeginEnd, FinishEnd, Resume,
           CancelWaiting
  <2> QED
    BY <1>2, <1>6, <2>1 DEF engaged
<1>7. EngagedHoldClaim'
  <2> SUFFICES ASSUME NEW q \in RunIds, engaged(q)', runs'[q].item # NoItem
               PROVE  claims'[runs'[q].item] = q
    BY DEF EngagedHoldClaim
  <2>1. engaged(q) /\ runs'[q].item = runs[q].item
    BY <1>2, <1>6 DEF engaged
  <2>2. claims[runs[q].item] = q /\ runs[q].item \in Items
    BY <2>1 DEF EngagedHoldClaim, TableType, Row
  <2>3. CASE q = r
    BY <2>1, <2>2, <2>3, <1>3
  <2>4. CASE q # r
    BY <2>1, <2>2, <2>4, <1>4
  <2> QED
    BY <2>3, <2>4
<1> QED
  BY <1>1, <1>2, <1>4, <1>5, <1>7, <1>8 DEF TableType

LEMMA Recovered ==
    ASSUME TableInv, \A r \in RunIds : exec[r] = "no", recover
    PROVE  /\ TableInv'
           /\ exec' = exec
           /\ \A r \in RunIds : runs'[r].by = runs[r].by /\ ~engaged(r)'
<1> USE DEF TableInv
<1>1. /\ runs' \in [RunIds -> Row] /\ exec' = exec
      /\ claims' \in [Items -> RunIds \cup {NoRun}]
      /\ \A r \in RunIds : /\ runs'[r].by = runs[r].by /\ runs'[r].item = runs[r].item
                           /\ runs'[r].state # "WAITING"
                           /\ runs[r].state = "none" => runs'[r].state = "none"
  BY DEF recover, interrupted, TableType, Row
<1>2. \A r \in RunIds : ~engaged(r)'
  BY <1>1 DEF engaged
<1>3. RowsCoherent'
  BY <1>1 DEF RowsCoherent, unused
<1> QED
  BY <1>1, <1>2, <1>3 DEF TableType, EngagedHoldClaim

LEMMA AllLost ==
    ASSUME TableInv, Lost
    PROVE  /\ TableInv'
           /\ \A r \in RunIds :
                /\ exec'[r] = "no" /\ runs'[r].by = runs[r].by
                /\ engaged(r)' => engaged(r)
<1> USE DEF TableInv
<1>1. PICK saved \in SUBSET {r \in RunIds : exec[r] = "claimed"} :
        runs' = [r \in RunIds |->
                    IF r \in saved THEN [runs[r] EXCEPT !.state = "QUEUED"] ELSE runs[r]]
  BY DEF Lost
<1>2. /\ runs' \in [RunIds -> Row] /\ claims' = claims
      /\ \A r \in RunIds : /\ exec'[r] = "no"
                           /\ runs'[r].by = runs[r].by /\ runs'[r].item = runs[r].item
                           /\ runs'[r].state = "WAITING" => runs[r].state = "WAITING"
                           /\ exec[r] = "no" => runs'[r] = runs[r]
  BY <1>1 DEF Lost, TableType, Row
<1>3. \A r \in RunIds : engaged(r)' => engaged(r)
  BY <1>2 DEF engaged
<1>4. RowsCoherent'
  BY <1>2 DEF RowsCoherent, unused
<1>5. EngagedHoldClaim'
  BY <1>2, <1>3 DEF EngagedHoldClaim
<1> QED
  BY <1>2, <1>3, <1>4, <1>5 DEF TableType, Lost
--------------------------------------------------------------------------------
(* Due slots, and what a discovery finds *)

less == {pair \in Nat \X Nat : pair[1] < pair[2]}

\* The latest of finitely many slots exists.
LEMMA LatestExists ==
    ASSUME NEW S, NEW m \in Int, NEW n \in Int, S \subseteq m..n, S # {}
    PROVE  Max(S) \in S
<1> DEFINE ago == {n - t : t \in S}
<1>1. ago \subseteq Nat /\ ago # {}
  OBVIOUS
<1>2. PICK x \in ago : \A y \in ago : ~ (<<y, x>> \in less)
  <2> HIDE DEF ago
  <2>1. IsWellFoundedOn(less, Nat)
    BY NatLessThanWellFounded DEF OpToRel, less
  <2> QED
    BY <1>1, <2>1, WFMin
<1>3. PICK t \in S : x = n - t
  OBVIOUS
<1>4. \A s \in S : t >= s
  <2> SUFFICES ASSUME NEW s \in S PROVE t >= s
    OBVIOUS
  <2>1. n - s \in ago /\ n - s \in Nat /\ n - t \in Nat
    OBVIOUS
  <2>2. ~ (n - s < n - t)
    BY <1>2, <1>3, <2>1 DEF less
  <2> QED
    BY <2>2
<1> QED
  BY <1>4 DEF Max

\* What is due lies after the firing it is measured from.
LEMMA DueIsLater ==
    ASSUME NEW spec, NEW base \in Int, NEW time \in Int,
           spec.kind = "interval" => spec.everyMs \in Int /\ spec.everyMs > 0,
           latestDueAtOrBefore(spec, base, time) \notin {Never, Throws}
    PROVE  latestDueAtOrBefore(spec, base, time) \in Int
           /\ base < latestDueAtOrBefore(spec, base, time)
<1>1. CASE spec.kind = "interval"
  <2> DEFINE every == spec.everyMs
             slots == (time - base) \div every
  <2>1. latestDueAtOrBefore(spec, base, time) = base + slots * every /\ ~ (time - base < every)
    BY <1>1 DEF latestDueAtOrBefore
  <2>2. slots \in Int /\ slots >= 1
    BY <1>1, <2>1
  <2> HIDE DEF slots
  <2>3. slots * every \in Int /\ slots * every >= 1
    BY <2>2, <1>1
  <2> QED
    BY <2>1, <2>3
<1>2. CASE spec.kind # "interval"
  <2> DEFINE cursor == IF base < time - MAX_SCAN_MINUTES THEN time - MAX_SCAN_MINUTES ELSE base
             slots == {t \in (cursor + 1)..time : cronMatches(spec, t)}
  <2>1. latestDueAtOrBefore(spec, base, time) = Max(slots) /\ slots # {}
    BY <1>2 DEF latestDueAtOrBefore
  <2>2. cursor \in Int /\ base <= cursor
    BY ScanAssumption
  <2>3. Max(slots) \in slots
    BY <2>1, <2>2, LatestExists, slots \subseteq (cursor + 1)..time, cursor + 1 \in Int
  <2> QED
    BY <2>1, <2>2, <2>3
<1> QED
  BY <1>1, <1>2

LEMMA DueLater ==
    ASSUME SchedulingType, NEW s \in DOMAIN parsed, dueOf(s) \notin {Never, Throws}
    PROVE  dueOf(s) \in Int /\ lastFiring[s] < dueOf(s)
<1>1. s \in Range(Schedules) /\ Parses(ScheduleOf[s]) /\ parsed[s] = parseScheduleSpec(ScheduleOf[s])
  BY DEF parsed
<1>2. parsed[s].kind = "interval" => parsed[s].everyMs \in Int /\ parsed[s].everyMs > 0
  BY <1>1, SchedulingAssumption DEF parseScheduleSpec, Parses
<1>3. lastFiring[s] \in Int /\ now \in Int
  BY <1>1 DEF SchedulingType
<1> QED
  BY <1>2, <1>3, DueIsLater DEF dueOf

LEMMA DiscoveredItems ==
    ASSUME NEW backlog \in Seq(Items), NEW open \in discovered(backlog)
    PROVE  open \in Seq(Items)
<1>1. PICK n \in DOMAIN backlog : \E p \in [1..n -> DOMAIN backlog] :
        open = [i \in 1..n |-> backlog[p[i]]]
  BY DEF discovered
<1>2. PICK p \in [1..n -> DOMAIN backlog] : open = [i \in 1..n |-> backlog[p[i]]]
  BY <1>1
<1>3. n \in Nat /\ open \in [1..n -> Items]
  BY <1>2
<1> QED
  BY <1>3

LEMMA Places ==
    /\ \A n \in 1..Len(Schedules) : Schedules[n] \in Range(Schedules)
    /\ \A n \in 1..Len(Lanes) : Lanes[n] \in Range(Lanes)
    /\ Len(Schedules) \in Nat /\ Len(Lanes) \in Nat
  BY SchedulingAssumption, LanesAssumption DEF Range
--------------------------------------------------------------------------------
(* The core of the invariant: tables, places of the tick, the scheduler's count *)

LEMMA AtRest ==
    /\ Idle \in TickType /\ Idle.pc = "idle" /\ Idle.run = NoRun /\ Idle.active = {}
    /\ \A pc \in {"schedules", "lanes"}, n \in Nat :
        /\ At(pc, n) \in TickType
        /\ At(pc, n).pc = pc /\ At(pc, n).at = n /\ At(pc, n).run = NoRun
        /\ At(pc, n).active = {}
  BY DEF Idle, At, TickType

LEMMA CoreInit == Init => CoreInv
<1> SUFFICES ASSUME Init PROVE CoreInv
  OBVIOUS
<1> USE DEF Init, TableInit, SchedulingInit
<1>1. TableInv
  BY DEF TableInv, TableType, Row, Starters, RowsCoherent, EngagedHoldClaim, engaged, unused
<1>2. SchedulingType /\ TickPlace
  BY AtRest DEF SchedulingType, TickPlace
<1>3. RunningCounted
  BY FS_EmptySet, CapAssumption DEF RunningCounted
<1> QED
  BY <1>1, <1>2, <1>3 DEF CoreInv, TypeOK, DownIsIdle, TableInv

LEMMA AwaitedReturns ==
    ASSUME SchedulingType, TickPlace, NEW r \in RunIds, tick' \in {tick, afterReturn(r), afterThrow(r)},
           UNCHANGED <<now, enabled, lastFiring, started, laneRuns>>
    PROVE  SchedulingType' /\ TickPlace'
<1> USE DEF SchedulingType, TickType, TickPlace
<1>0. r # NoRun
  BY TableAssumption
<1>1. CASE tick' = tick
  BY <1>1 DEF lane
<1>2. CASE tick' # tick /\ tick.pc = "firing"
  <2>1. tick' = At("schedules", tick.at + 1) /\ tick.at + 1 \in Nat /\ tick.at + 1 >= 1
    BY <1>2 DEF afterReturn, afterThrow
  <2>2. tick' \in TickType /\ tick'.pc = "schedules" /\ tick'.at >= 1 /\ tick'.run = NoRun
    <3> HIDE DEF TickType
    <3> QED
      BY <2>1, AtRest
  <2> QED
    BY <2>2
<1>3. CASE tick' # tick /\ tick.pc # "firing"
  <2>1. tick.run = r /\ tick.pc = "starting"
    BY <1>0, <1>3 DEF afterReturn, afterThrow
  <2>2. tick' = Idle \/ tick' = [tick EXCEPT !.pc = "dispatch", !.run = NoRun, !.active = @ \cup {r}]
    BY <2>1, <1>3 DEF afterReturn, afterThrow
  <2>3. CASE tick' = Idle
    BY <2>3, AtRest
  <2>4. CASE tick' = [tick EXCEPT !.pc = "dispatch", !.run = NoRun, !.active = @ \cup {r}]
    BY <2>1, <2>4 DEF lane
  <2> QED
    BY <2>2, <2>3, <2>4
<1> QED
  BY <1>1, <1>2, <1>3

LEMMA TickTyped ==
    ASSUME TypeOK, TickPlace, BeginTick \/ fireDueSchedules \/ dispatchLanes
    PROVE  SchedulingType' /\ TickPlace'
<1> USE DEF TypeOK, SchedulingType, TickType, TickPlace
<1>1. CASE BeginTick \/ PassSchedule \/ ScheduleThrows \/ SchedulesDone \/ PassLane \/ EndTick
  <2>1. /\ tick' = Idle \/ \E pc \in {"schedules", "lanes"}, n \in Nat \ {0} : tick' = At(pc, n)
        /\ UNCHANGED <<now, enabled, lastFiring, started, laneRuns>>
    BY <1>1 DEF BeginTick, PassSchedule, ScheduleThrows, SchedulesDone, PassLane, EndTick,
                AtSchedule, AtLane
  <2>2. /\ tick' \in TickType /\ tick'.run = NoRun
        /\ tick'.pc = "idle" \/ (tick'.pc \in {"schedules", "lanes"} /\ tick'.at >= 1)
    <3> HIDE DEF TickType
    <3> QED
      BY <2>1, AtRest
  <2> QED
    BY <2>1, <2>2
<1>2. CASE RecordFiring
  <2>1. schedule \in DOMAIN parsed /\ due \in Int
    BY <1>2, DueLater DEF RecordFiring, considered, due
  <2>2. tick.at \in 1..Len(Schedules) /\ tick.run = NoRun
    BY <1>2, Places DEF RecordFiring, AtSchedule
  <2> QED
    BY <1>2, <2>1, <2>2 DEF RecordFiring, AtSchedule
<1>3. CASE StartScheduled
  <2>1. schedule \in Range(Schedules)
    BY <1>3, Places DEF StartScheduled, schedule
  <2>2. started' = [started EXCEPT ![schedule] = Append(@, lastFiring[schedule])]
        /\ \E r \in RunIds : tick' = [tick EXCEPT !.pc = "firing", !.run = r]
        /\ UNCHANGED <<now, enabled, lastFiring, laneRuns>>
    BY <1>3 DEF StartScheduled
  <2>3. started' \in [Range(Schedules) -> Seq(Int)]
    BY <2>1, <2>2
  <2> QED
    BY <1>3, <2>2, <2>3, TableAssumption DEF StartScheduled
<1>4. CASE DiscoverLane
  <2>1. lane \in Range(Lanes) /\ tick.at \in 1..Len(Lanes) /\ tick.run = NoRun
    BY <1>4, Places DEF DiscoverLane, AtLane, lane
  <2>2. Backlog[lane] \in Seq(Items)
    BY <2>1, <1>4, LanesAssumption DEF DiscoverLane
  <2>3. PICK open \in discovered(Backlog[lane]) :
            tick' = [tick EXCEPT !.pc = "dispatch", !.left = open,
                                 !.active = activeLaneRunIds(lane)]
    BY <1>4 DEF DiscoverLane
  <2>4. open \in Seq(Items) /\ activeLaneRunIds(lane) \in SUBSET RunIds
    BY <2>1, <2>2, DiscoveredItems DEF activeLaneRunIds
  <2> QED
    BY <1>4, <2>1, <2>3, <2>4 DEF DiscoverLane, AtLane, lane
<1>5. CASE RefuseItem \/ ItemAlreadyClaimed
  <2>1. /\ tick.pc = "dispatch" /\ tick' = [tick EXCEPT !.left = afterRefusal]
        /\ UNCHANGED <<now, enabled, lastFiring, started, laneRuns>>
    BY <1>5 DEF RefuseItem, ItemAlreadyClaimed, Dispatching
  <2>2. afterRefusal \in Seq(Items)
    BY <1>5 DEF RefuseItem, ItemAlreadyClaimed, Dispatching, afterRefusal
  <2> QED
    BY <2>1, <2>2 DEF lane
<1>6. CASE claimAndStart
  <2>1. PICK r \in RunIds : tick' = [tick EXCEPT !.pc = "starting", !.run = r, !.left = Tail(@)]
    BY <1>6 DEF claimAndStart
  <2>2. Tail(tick.left) \in Seq(Items) /\ tick.pc = "dispatch"
    BY <1>6 DEF claimAndStart, Dispatching
  <2> QED
    BY <1>6, <2>1, <2>2, TableAssumption DEF claimAndStart, lane
<1>7. CASE SaveLane
  <2>1. lane \in Range(Lanes) /\ tick.pc = "dispatch"
    BY <1>7, Places DEF SaveLane, lane
  <2>2. laneRuns' = [laneRuns EXCEPT ![lane] = tick.active] /\ tick' = At("lanes", tick.at + 1)
        /\ tick.at + 1 \in Nat /\ tick.at + 1 >= 1
        /\ UNCHANGED <<now, enabled, lastFiring, started>>
    BY <1>7 DEF SaveLane
  <2>3. laneRuns' \in [Range(Lanes) -> SUBSET RunIds]
    BY <2>1, <2>2
  <2>4. tick' \in TickType /\ tick'.run = NoRun /\ tick'.pc = "lanes" /\ tick'.at >= 1
    <3> HIDE DEF TickType
    <3> QED
      BY <2>2, AtRest
  <2> QED
    BY <2>2, <2>3, <2>4
<1> QED
  BY <1>1, <1>2, <1>3, <1>4, <1>5, <1>6, <1>7 DEF fireDueSchedules, dispatchLanes

LEMMA RowItem ==
    ASSUME TableInv, NEW r \in RunIds
    PROVE  runs[r].item \in Items \cup {NoItem}
  BY DEF TableInv, TableType, Row

LEMMA CountedClaim ==
    ASSUME TableInv, RunningCounted, running \in SUBSET RunIds,
           NEW r \in RunIds, NEW item \in Items, NEW by \in Starters \ {"nobody"},
           tryClaim(r, item, by),
           \/ running' = running
           \/ /\ running' = running \cup {r}
              /\ by = "scheduler"
              /\ Cardinality(running) < maxConcurrentRuns
    PROVE  RunningCounted'
<1>1. /\ unused(r) /\ claims[item] = NoRun
      /\ runs' = [runs EXCEPT ![r] = [item |-> item, by |-> by, state |-> "none"]]
      /\ claims' = [claims EXCEPT ![item] = r]
      /\ exec' = [exec EXCEPT ![r] = "claimed"]
  BY Claimed
<1>2. ASSUME NEW q \in running
      PROVE  /\ runs'[q].by = "scheduler" /\ runs'[q].item # NoItem
             /\ claims'[runs'[q].item] = q /\ exec'[q] # "no"
  <2>1. q # r /\ q \in RunIds /\ q # NoRun
    BY <1>1, TableAssumption DEF RunningCounted, unused
  <2>2. runs'[q] = runs[q] /\ runs[q].item # item /\ runs[q].item \in Items
    BY <1>1, <2>1 DEF TableInv, TableType, Row, RunningCounted
  <2> QED
    BY <1>1, <2>1, <2>2 DEF TableInv, TableType, RunningCounted
<1>3. CASE running' = running
  BY <1>2, <1>3 DEF RunningCounted
<1>4. CASE running' = running \cup {r} /\ by = "scheduler"
           /\ Cardinality(running) < maxConcurrentRuns
  <2>1. /\ IsFiniteSet(running') /\ Cardinality(running') <= Cardinality(running) + 1
        /\ Cardinality(running) \in Nat
    <3>1. IsFiniteSet(running) /\ Cardinality(running) \in Nat
      BY FS_CardinalityType DEF RunningCounted
    <3>2. /\ IsFiniteSet(running \cup {r})
          /\ Cardinality(running \cup {r}) =
                IF r \in running THEN Cardinality(running) ELSE Cardinality(running) + 1
      BY <3>1, FS_AddElement
    <3> QED
      BY <1>4, <3>1, <3>2
  <2>2. Cardinality(running') <= maxConcurrentRuns /\ Cardinality(running') \in Nat
    BY <1>4, <2>1, CapAssumption, FS_CardinalityType
  <2>3. /\ runs'[r].by = "scheduler" /\ runs'[r].item # NoItem
        /\ claims'[runs'[r].item] = r /\ exec'[r] # "no"
    BY <1>1, <1>4, TableAssumption DEF TableInv, TableType
  <2> QED
    BY <1>2, <1>4, <2>1, <2>2, <2>3 DEF RunningCounted
<1> QED
  BY <1>3, <1>4

LEMMA CountedStep ==
    ASSUME TableInv, RunningCounted, running \in SUBSET RunIds,
           NEW r \in RunIds, TableStep(r),
           \/ running' = IF exec'[r] = "no" THEN running \ {r} ELSE running
           \/ exec[r] = "no" /\ running' = running
    PROVE  RunningCounted'
<1>1. /\ \A q \in RunIds : runs'[q].by = runs[q].by /\ runs'[q].item = runs[q].item
      /\ \A q \in RunIds \ {r} : runs'[q] = runs[q] /\ exec'[q] = exec[q]
      /\ \A i \in Items : claims'[i] = claims[i] \/ (claims[i] = r /\ claims'[i] = NoRun)
  BY Stepped
<1>2. ASSUME NEW q \in running'
      PROVE  /\ runs'[q].by = "scheduler" /\ runs'[q].item # NoItem
             /\ claims'[runs'[q].item] = q /\ exec'[q] # "no"
  <2>1. q \in running /\ q \in RunIds
    OBVIOUS
  <2>2. runs[q].item \in Items /\ claims[runs[q].item] = q /\ runs[q].by = "scheduler"
        /\ exec[q] # "no" /\ runs[q].item # NoItem
    BY <2>1, RowItem DEF RunningCounted
  <2>3. CASE q # r
    BY <1>1, <2>1, <2>2, <2>3
  <2>4. CASE q = r
    <3>1. exec'[r] # "no"
      BY <2>2, <2>4
    <3>2. claims' = claims
      <4>1. exec[r] # "no" /\ runs[r].by \in V1
        BY <2>2, <2>4
      <4>2. ~FinishEnd(r)
        BY <3>1 DEF FinishEnd, TableInv, TableType
      <4>3. ~CancelWaiting(r) /\ (BeginEnd(r) => claims' = claims)
        BY <4>1 DEF CancelWaiting, BeginEnd
      <4> QED
        BY <4>2, <4>3 DEF TableStep, Prepare, BeginWork, StartThrows, Park, Resume
    <3> QED
      BY <1>1, <2>1, <2>2, <2>4, <3>1, <3>2
  <2> QED
    BY <2>3, <2>4
<1>3. IsFiniteSet(running') /\ Cardinality(running') <= Cardinality(running)
      /\ Cardinality(running) \in Nat /\ Cardinality(running') \in Nat
  <2>1. running' \subseteq running /\ IsFiniteSet(running)
    BY DEF RunningCounted
  <2> QED
    BY <2>1, FS_Subset, FS_CardinalityType
<1> QED
  BY <1>2, <1>3, CapAssumption DEF RunningCounted

LEMMA CountedElsewhere ==
    ASSUME TableInv, RunningCounted, running \in SUBSET RunIds,
           NEW r \in RunIds, NEW by \in Starters \ {"nobody"}, startUnclaimed(r, by),
           running' = running
    PROVE  RunningCounted'
<1>1. /\ unused(r) /\ claims' = claims
      /\ runs' = [runs EXCEPT ![r] = [item |-> NoItem, by |-> by, state |-> "none"]]
      /\ exec' = [exec EXCEPT ![r] = "claimed"]
  BY StartedUnclaimed
<1>2. \A q \in running : q # r
  BY <1>1 DEF RunningCounted, unused
<1> QED
  BY <1>1, <1>2 DEF RunningCounted, TableInv, TableType

\* Starts, by whoever, with what they leave alone.
LEMMA LaneStart ==
    ASSUME TypeOK, TickPlace, claimAndStart
    PROVE  /\ lane \in Range(Lanes) /\ tick.pc = "dispatch"
           /\ Cardinality(tick.active) < capacity(lane)
           /\ \E r \in RunIds, item \in Items :
                /\ tryClaim(r, item, lane)
                /\ tick' = [tick EXCEPT !.pc = "starting", !.run = r, !.left = Tail(@)]
<1>1. tick.pc = "dispatch" /\ tick.left \in Seq(Items) /\ tick.left # <<>>
      /\ Cardinality(tick.active) < capacity(lane)
  BY DEF claimAndStart, Dispatching, TypeOK, SchedulingType, TickType
<1>2. Head(tick.left) \in Items
  BY <1>1
<1>3. lane \in Range(Lanes)
  BY <1>1, Places DEF TickPlace, lane
<1> QED
  BY <1>1, <1>2, <1>3 DEF claimAndStart

\* Every step is one of these, as far as the tables are concerned.
LEMMA TableCases ==
    ASSUME CoreInv, [Next]_vars
    PROVE  \/ UNCHANGED <<tableVars, running>> /\ (phase' = "down" => phase = "down")
           \/ phase = "down" /\ recover /\ UNCHANGED running /\ phase' = "v1"
           \/ Lost /\ phase' = "down" /\ running' = {} /\ tick' = Idle
           \/ /\ phase # "down" /\ phase' = phase
              /\ \/ \E r \in RunIds, item \in Items, by \in Starters \ {"nobody"} :
                        /\ tryClaim(r, item, by)
                        /\ \/ running' = running
                           \/ /\ running' = running \cup {r} /\ by = "scheduler"
                              /\ Cardinality(running) < maxConcurrentRuns
                 \/ \E r \in RunIds : startUnclaimed(r, "schedule") /\ running' = running
                 \/ \E r \in RunIds :
                        /\ TableStep(r)
                        /\ \/ running' = IF exec'[r] = "no" THEN running \ {r} ELSE running
                           \/ exec[r] = "no" /\ running' = running
<1> USE DEF CoreInv
<1>1. CASE Start \/ ServeControlPlane \/ Shutdown \/ StopScheduler \/ ProcessEnds \/ Clock
           \/ UNCHANGED vars
  BY <1>1 DEF Start, ServeControlPlane, Shutdown, StopScheduler, ProcessEnds, Clock, vars,
              processVars, tableVars
<1>2. ASSUME NEW i \in Items, SchedulerDispatch(i) \/ Launch(i)
      PROVE  /\ phase # "down" /\ phase' = phase
             /\ \E r \in RunIds, item \in Items, by \in Starters \ {"nobody"} :
                        /\ tryClaim(r, item, by)
                        /\ \/ running' = running
                           \/ /\ running' = running \cup {r} /\ by = "scheduler"
                              /\ Cardinality(running) < maxConcurrentRuns
  BY <1>2, StarterTypes DEF SchedulerDispatch, Launch, processVars
<1>3. ASSUME NEW r \in RunIds, RunOn(r)
      PROVE  /\ phase # "down" /\ phase' = phase /\ TableStep(r)
             /\ running' = IF exec'[r] = "no" THEN running \ {r} ELSE running
  BY <1>3 DEF RunOn, Up, RunStep, TableStep
<1>4. CASE Tick
  <2>1. phase # "down" /\ UNCHANGED <<phase, running>>
    BY <1>4 DEF Tick, Up, processVars
  <2>2. CASE claimAndStart
    BY <2>1, <2>2, LaneStart, StarterTypes
  <2>3. CASE StartScheduled
    BY <2>1, <2>3 DEF StartScheduled
  <2>4. CASE UNCHANGED tableVars
    BY <2>1, <2>4
  <2>5. UNCHANGED tableVars \/ claimAndStart \/ StartScheduled
    BY <1>4 DEF Tick, fireDueSchedules, dispatchLanes, PassSchedule, ScheduleThrows, RecordFiring,
                SchedulesDone, PassLane, DiscoverLane, RefuseItem, ItemAlreadyClaimed, SaveLane, EndTick
  <2> QED
    BY <2>2, <2>3, <2>4, <2>5
<1>5. CASE People
  <2>1. phase # "down" /\ UNCHANGED <<phase, running>>
    BY <1>5 DEF People, processVars
  <2>2. ASSUME NEW i \in Items, NEW w \in Workflows, onSelection(i, w)
        PROVE  UNCHANGED tableVars \/ \E r \in RunIds : tryClaim(r, i, "selection")
    BY <2>2 DEF onSelection
  <2>3. ASSUME NEW r \in RunIds, Answer(r)
        PROVE  TableStep(r) /\ exec[r] = "no"
    BY <2>3 DEF Answer, TableStep, Resume, CancelWaiting
  <2>4. \/ \E i \in Items, w \in Workflows : onSelection(i, w)
        \/ \E r \in RunIds : Answer(r)
        \/ UNCHANGED tableVars
    BY <1>5 DEF People
  <2> QED
    BY <2>1, <2>2, <2>3, <2>4, StarterTypes
<1> QED
  BY <1>1, <1>2, <1>3, <1>4, <1>5 DEF Next

LEMMA SameTables ==
    ASSUME TableInv, UNCHANGED tableVars
    PROVE  TableInv' /\ (RunningCounted /\ running' = running => RunningCounted')
  BY DEF TableInv, tableVars, TableType, RowsCoherent, unused, EngagedHoldClaim, engaged,
         RunningCounted

LEMMA SameScheduling ==
    ASSUME SchedulingType, TickPlace, UNCHANGED <<enabled, lastFiring, started, laneRuns>>,
           now' \in Int, tick' \in {tick, Idle}
    PROVE  SchedulingType' /\ TickPlace'
  BY AtRest DEF SchedulingType, TickPlace, lane

\* A run that was started takes a step, and the tick that awaits it goes on.
LEMMA RunStepTick ==
    ASSUME NEW r \in RunIds, RunStep(r)
    PROVE  /\ \/ tick' = tick
              \/ tick' = afterReturn(r) /\ (Park(r) \/ FinishEnd(r))
              \/ tick' = afterThrow(r) /\ StartThrows(r) /\ runs[r].by \in Throwing
           /\ UNCHANGED <<now, enabled, lastFiring, started, laneRuns, selections>>
  BY DEF RunStep

LEMMA SchedulingStep ==
    ASSUME CoreInv, [Next]_vars
    PROVE  SchedulingType' /\ TickPlace'
<1> USE DEF CoreInv, TypeOK
<1>1. CASE Start \/ ServeControlPlane \/ Shutdown \/ StopScheduler \/ ProcessEnds \/ Clock
           \/ UNCHANGED vars
  <2>1. /\ UNCHANGED <<enabled, lastFiring, started, laneRuns>>
        /\ now' \in Int /\ tick' \in {tick, Idle}
    BY <1>1 DEF Start, ServeControlPlane, Shutdown, StopScheduler, ProcessEnds, Clock, TimePasses,
                vars, schedulingVars, SchedulingType
  <2> QED
    BY <2>1, SameScheduling
<1>2. ASSUME NEW i \in Items, SchedulerDispatch(i) \/ Launch(i)
      PROVE  SchedulingType' /\ TickPlace'
  <2>1. UNCHANGED schedulingVars
    BY <1>2 DEF SchedulerDispatch, Launch
  <2> QED
    BY <2>1, SameScheduling DEF schedulingVars, SchedulingType
<1>3. ASSUME NEW r \in RunIds, RunOn(r)
      PROVE  SchedulingType' /\ TickPlace'
  BY <1>3, RunStepTick, AwaitedReturns DEF RunOn
<1>4. CASE Tick
  BY <1>4, TickTyped DEF Tick
<1>5. CASE People
  <2>1. UNCHANGED <<now, enabled, lastFiring, started, laneRuns, tick>>
    BY <1>5 DEF People, onSelection, Answer, schedulingVars
  <2> QED
    BY <2>1, SameScheduling DEF SchedulingType
<1> QED
  BY <1>1, <1>2, <1>3, <1>4, <1>5 DEF Next

LEMMA IdleWhileDown ==
    ASSUME CoreInv, [Next]_vars
    PROVE  DownIsIdle'
<1> SUFFICES ASSUME phase' = "down"
             PROVE  (\A r \in RunIds : exec'[r] = "no") /\ running' = {} /\ tick' = Idle
  BY DEF DownIsIdle
<1>1. CASE ProcessEnds
  BY <1>1, AllLost DEF ProcessEnds, CoreInv
<1>2. CASE ~ProcessEnds
  <2>1. phase = "down" /\ UNCHANGED <<tableVars, running, tick>>
    BY <1>2 DEF Next, Start, ServeControlPlane, Shutdown, StopScheduler, SchedulerDispatch, Launch,
                RunOn, Up, Tick, People, Clock, TimePasses, processVars, vars, schedulingVars
  <2> QED
    BY <2>1 DEF CoreInv, DownIsIdle, tableVars, Idle
<1> QED
  BY <1>1, <1>2

LEMMA CoreStep ==
    ASSUME CoreInv, [Next]_vars
    PROVE  CoreInv'
<1> USE DEF CoreInv, TypeOK
<1>1. SchedulingType' /\ TickPlace' /\ DownIsIdle'
  BY SchedulingStep, IdleWhileDown
<1>2. TableInv' /\ RunningCounted' /\ running' \in SUBSET RunIds
  <2>1. CASE UNCHANGED <<tableVars, running>>
    BY <2>1, SameTables
  <2>2. CASE phase = "down" /\ recover /\ UNCHANGED running
    <3>1. TableInv' /\ running = {}
      BY <2>2, Recovered DEF DownIsIdle
    <3> QED
      BY <2>2, <3>1 DEF RunningCounted
  <2>3. CASE Lost /\ running' = {}
    <3>1. Cardinality(running') = 0 /\ IsFiniteSet(running')
      BY <2>3, FS_EmptySet
    <3> QED
      BY <2>3, <3>1, AllLost, CapAssumption DEF RunningCounted
  <2>4. ASSUME NEW r \in RunIds, NEW item \in Items, NEW by \in Starters \ {"nobody"},
               tryClaim(r, item, by),
               \/ running' = running
               \/ /\ running' = running \cup {r} /\ by = "scheduler"
                  /\ Cardinality(running) < maxConcurrentRuns
        PROVE  TableInv' /\ RunningCounted' /\ running' \in SUBSET RunIds
    BY <2>4, Claimed, CountedClaim
  <2>5. ASSUME NEW r \in RunIds, startUnclaimed(r, "schedule"), running' = running
        PROVE  TableInv' /\ RunningCounted' /\ running' \in SUBSET RunIds
    BY <2>5, StartedUnclaimed, CountedElsewhere, StarterTypes
  <2>6. ASSUME NEW r \in RunIds, TableStep(r),
               \/ running' = IF exec'[r] = "no" THEN running \ {r} ELSE running
               \/ exec[r] = "no" /\ running' = running
        PROVE  TableInv' /\ RunningCounted' /\ running' \in SUBSET RunIds
    BY <2>6, Stepped, CountedStep
  <2> QED
    BY <2>1, <2>2, <2>3, <2>4, <2>5, <2>6, TableCases
<1> QED
  BY <1>1, <1>2 DEF TableInv

LEMMA CoreInvariant == Spec => []CoreInv
<1>1. Init => CoreInv
  BY CoreInit
<1>2. CoreInv /\ [Next]_vars => CoreInv'
  BY CoreStep
<1> QED
  BY <1>1, <1>2, PTL DEF Spec

\* No item is worked on twice: the version 1 scheduler, the lanes, a selection and
\* the people who start runs by hand share one table of claims, and a run gives its
\* claim up only when nothing of it is executed or waits any more, over every
\* crash, shutdown and recovery.
THEOREM NoItemTwice == Spec => []OneRunPerItem
<1>1. CoreInv => OneRunPerItem
  <2> SUFFICES ASSUME CoreInv, NEW q \in RunIds, NEW r \in RunIds, q # r,
                      occupies(q), occupies(r), runs[q].item # NoItem,
                      runs[q].item = runs[r].item
               PROVE  FALSE
    BY DEF OneRunPerItem
  <2>1. engaged(q) /\ engaged(r)
    BY DEF occupies, engaged
  <2> QED
    BY <2>1 DEF CoreInv, TableInv, EngagedHoldClaim
<1> QED
  BY <1>1, CoreInvariant, PTL
--------------------------------------------------------------------------------
(* Schedules *)

SlotsInv == SlotsRecorded /\ FiredOncePerSlot

LEMMA SlotsUntouched ==
    ASSUME SlotsInv, UNCHANGED <<lastFiring, started>>, tick' = tick \/ tick'.pc # "fire"
    PROVE  SlotsInv'
  BY DEF SlotsInv, SlotsRecorded, FiredOncePerSlot, schedule

LEMMA SlotsStep ==
    ASSUME CoreInv, SlotsInv, [Next]_vars
    PROVE  SlotsInv'
<1> USE DEF CoreInv, TypeOK
<1>1. CASE RecordFiring
  <2>1. /\ schedule \in DOMAIN parsed /\ due \in Int /\ lastFiring[schedule] < due
        /\ schedule \in Range(Schedules)
        /\ lastFiring' = [lastFiring EXCEPT ![schedule] = due]
        /\ started' = started
        /\ schedule' = schedule
    BY <1>1, DueLater DEF RecordFiring, considered, due, parsed, schedule, SchedulingType, TickType
  <2>2. ASSUME NEW s \in Range(Schedules), NEW n \in DOMAIN started'[s]
        PROVE  /\ started'[s][n] <= lastFiring'[s]
               /\ schedule' = s => started'[s][n] < lastFiring'[s]
    <3>1. started[s][n] \in Int /\ lastFiring[s] \in Int /\ started[s][n] <= lastFiring[s]
      BY <2>1, <2>2 DEF SchedulingType, SlotsInv, SlotsRecorded
    <3>2. lastFiring'[s] = IF s = schedule THEN due ELSE lastFiring[s]
      BY <2>1 DEF SchedulingType
    <3> QED
      BY <2>1, <3>1, <3>2
  <2>3. FiredOncePerSlot'
    BY <2>1 DEF SlotsInv, FiredOncePerSlot
  <2> QED
    BY <2>2, <2>3 DEF SlotsInv, SlotsRecorded
<1>2. CASE StartScheduled
  <2>1. schedule \in Range(Schedules) /\ tick.pc = "fire"
    BY <1>2, Places DEF StartScheduled, schedule, TickPlace
  <2>2. /\ started' = [started EXCEPT ![schedule] = Append(@, lastFiring[schedule])]
        /\ lastFiring' = lastFiring /\ tick'.pc # "fire"
    BY <1>2 DEF StartScheduled, SchedulingType, TickType
  <2>3. ASSUME NEW s \in Range(Schedules)
        PROVE  /\ \A n \in DOMAIN started'[s] : started'[s][n] <= lastFiring'[s]
               /\ \A m, n \in DOMAIN started'[s] : m < n => started'[s][m] < started'[s][n]
    <3>1. started[s] \in Seq(Int) /\ lastFiring[s] \in Int
      BY DEF SchedulingType
    <3>2. /\ \A n \in DOMAIN started[s] : started[s][n] <= lastFiring[s]
          /\ \A m, n \in DOMAIN started[s] : m < n => started[s][m] < started[s][n]
      BY DEF SlotsInv, SlotsRecorded, FiredOncePerSlot
    <3>3. CASE s # schedule
      BY <2>2, <3>2, <3>3 DEF SchedulingType
    <3>4. CASE s = schedule
      <4>1. started'[s] = Append(started[s], lastFiring[s])
        BY <2>1, <2>2, <3>4 DEF SchedulingType
      <4>2. \A n \in DOMAIN started[s] : started[s][n] < lastFiring[s]
        BY <2>1, <3>4 DEF SlotsInv, SlotsRecorded
      <4>3. /\ DOMAIN started'[s] = 1..(Len(started[s]) + 1)
            /\ DOMAIN started[s] = 1..Len(started[s])
            /\ \A n \in 1..Len(started[s]) : started'[s][n] = started[s][n]
                                            /\ started[s][n] \in Int
            /\ started'[s][Len(started[s]) + 1] = lastFiring[s]
            /\ Len(started[s]) \in Nat
        BY <3>1, <4>1
      <4> QED
        BY <2>2, <3>1, <3>2, <4>2, <4>3
    <3> QED
      BY <3>3, <3>4
  <2> QED
    BY <2>2, <2>3 DEF SlotsInv, SlotsRecorded, FiredOncePerSlot
<1>3. CASE ~RecordFiring /\ ~StartScheduled
  <2>1. UNCHANGED <<lastFiring, started>> /\ (tick' = tick \/ tick'.pc # "fire")
    <3>1. CASE \E r \in RunIds : RunOn(r)
      <4>1. PICK r \in RunIds : RunOn(r)
        BY <3>1
      <4>2. UNCHANGED <<lastFiring, started>> /\ tick' \in {tick, afterReturn(r), afterThrow(r)}
        BY <4>1, RunStepTick DEF RunOn
      <4>3. tick' = tick \/ tick' = At("schedules", tick.at + 1) \/ tick' = Idle
            \/ tick' = [tick EXCEPT !.pc = "dispatch", !.run = NoRun, !.active = @ \cup {r}]
        BY <4>2 DEF afterReturn, afterThrow
      <4>4. tick' = [tick EXCEPT !.pc = "dispatch", !.run = NoRun, !.active = @ \cup {r}]
              => tick'.pc = "dispatch"
        BY DEF SchedulingType, TickType
      <4> QED
        BY <4>2, <4>3, <4>4 DEF At, Idle
    <3>2. CASE Tick
      <4>1. CASE BeginTick \/ PassSchedule \/ ScheduleThrows \/ SchedulesDone \/ PassLane
                 \/ SaveLane \/ EndTick
        BY <4>1 DEF BeginTick, PassSchedule, ScheduleThrows, SchedulesDone, PassLane, SaveLane,
               EndTick, At, Idle
      <4>2. CASE DiscoverLane \/ RefuseItem \/ ItemAlreadyClaimed \/ claimAndStart
        BY <4>2 DEF DiscoverLane, RefuseItem, ItemAlreadyClaimed, claimAndStart, Dispatching,
               SchedulingType, TickType
      <4> QED
        BY <1>3, <3>2, <4>1, <4>2 DEF Tick, fireDueSchedules, dispatchLanes
    <3>3. CASE ~(\E r \in RunIds : RunOn(r)) /\ ~Tick
      BY <3>3 DEF Next, Start, ServeControlPlane, Shutdown, StopScheduler, ProcessEnds,
             SchedulerDispatch, Launch, People, onSelection, Answer, Clock, TimePasses, vars,
             schedulingVars, Idle, At
    <3> QED
      BY <3>1, <3>2, <3>3
  <2> QED
    BY <2>1, SlotsUntouched
<1> QED
  BY <1>1, <1>2, <1>3

\* No slot of a schedule is fired twice, and the slots that are fired follow in
\* time: fireDueSchedules records the slot before it starts the run, and what is
\* due next is measured from what was recorded.
THEOREM SlotsFiredOnce == Spec => []FiredOncePerSlot
<1>1. Init => SlotsInv
  BY DEF Init, SchedulingInit, SlotsInv, SlotsRecorded, FiredOncePerSlot
<1>2. CoreInv /\ SlotsInv /\ [Next]_vars => SlotsInv'
  BY SlotsStep
<1>3. SlotsInv => FiredOncePerSlot
  BY DEF SlotsInv
<1> QED
  BY <1>1, <1>2, <1>3, CoreInvariant, PTL DEF Spec
--------------------------------------------------------------------------------
(* Lanes *)

LEMMA CapacityType ==
    ASSUME NEW l \in Range(Lanes)
    PROVE  capacity(l) \in Nat /\ capacity(l) >= 1
  BY LanesAssumption DEF capacity

LEMMA Added ==
    ASSUME NEW S, NEW x, NEW n \in Nat, IsFiniteSet(S)
    PROVE  /\ IsFiniteSet(S \cup {x})
           /\ Cardinality(S) < n => Cardinality(S \cup {x}) <= n
<1>1. Cardinality(S) \in Nat
  BY FS_CardinalityType
<1>2. /\ IsFiniteSet(S \cup {x})
      /\ Cardinality(S \cup {x}) = IF x \in S THEN Cardinality(S) ELSE Cardinality(S) + 1
  BY FS_AddElement
<1> QED
  BY <1>1, <1>2

LEMMA Smaller ==
    ASSUME NEW S, NEW T, S \subseteq T, IsFiniteSet(T), NEW n \in Nat, Cardinality(T) <= n
    PROVE  IsFiniteSet(S) /\ Cardinality(S) <= n
<1>1. IsFiniteSet(S) /\ Cardinality(S) <= Cardinality(T)
  BY FS_Subset
<1> QED
  BY <1>1, FS_CardinalityType

\* When no run becomes engaged, the bounds of the lanes stay.
LEMMA FewerEngaged ==
    ASSUME LanesBounded,
           \A q \in RunIds : runs'[q].by = runs[q].by /\ (engaged(q)' => engaged(q))
    PROVE  \A l \in Range(Lanes) :
                /\ engagedFor(l)' \subseteq engagedFor(l)
                /\ IsFiniteSet(engagedFor(l)') /\ Cardinality(engagedFor(l)') <= capacity(l)
<1> TAKE l \in Range(Lanes)
<1>1. engagedFor(l)' \subseteq engagedFor(l)
  BY DEF engagedFor
<1>2. IsFiniteSet(engagedFor(l)) /\ Cardinality(engagedFor(l)) <= capacity(l)
  BY DEF LanesBounded
<1> HIDE DEF engagedFor
<1> QED
  BY <1>1, <1>2, Smaller, CapacityType

LEMMA LanesRest ==
    ASSUME LaneInv, UNCHANGED <<runs, exec, laneRuns, tick>>, phase' # "down" => phase # "down"
    PROVE  LaneInv'
  BY DEF LaneInv, LaneRunsTracked, LanesBounded, engagedFor, engaged, inHand, lane

\* The tick moves between schedules and lanes, and no dispatch is under way.
LEMMA LanesPassed ==
    ASSUME LaneInv, UNCHANGED <<runs, exec, laneRuns, phase>>,
           tick.pc \notin {"dispatch", "starting"}, tick'.pc \notin {"dispatch", "starting"},
           tick'.active \in {tick.active, {}}
    PROVE  LaneInv'
<1>1. LaneRunsTracked'
  BY DEF LaneInv, LaneRunsTracked, engagedFor, engaged, inHand
<1>2. LanesBounded'
  BY FS_EmptySet DEF LaneInv, LanesBounded, engagedFor, engaged
<1> QED
  BY <1>1, <1>2 DEF LaneInv

\* Starts for nobody's lane.
LEMMA LanesElsewhere ==
    ASSUME CoreInv, LaneInv, NEW r \in RunIds, unused(r), NEW row \in Row, row.by \notin Range(Lanes),
           runs' = [runs EXCEPT ![r] = row], exec' = [exec EXCEPT ![r] = "claimed"],
           UNCHANGED <<laneRuns, phase>>,
           \/ tick' = tick
           \/ /\ tick.pc = "fire" /\ tick'.pc = "firing" /\ tick'.active = tick.active
    PROVE  LaneInv'
<1> USE DEF CoreInv, TableInv, TableType
<1>1. /\ \A q \in RunIds \ {r} : runs'[q] = runs[q] /\ exec'[q] = exec[q]
      /\ runs'[r] = row /\ exec'[r] = "claimed"
  OBVIOUS
<1>2. runs[r].by \notin Range(Lanes)
  BY LanesAssumption DEF unused
<1>3. \A l \in Range(Lanes) : engagedFor(l)' = engagedFor(l)
  BY <1>1, <1>2 DEF engagedFor, engaged
<1>4. \A l \in Range(Lanes) : inHand(l)' <=> inHand(l)
  BY DEF inHand, lane
<1>5. tick'.pc = "starting" => tick' = tick /\ tick.run # r /\ tick.run \in RunIds
  <2>1. tick'.pc = "starting" => lane \in Range(Lanes) /\ tick' = tick
    BY Places DEF TickPlace, lane
  <2> QED
    BY <1>2, <2>1 DEF LaneInv, LaneRunsTracked, TickPlace, TypeOK, SchedulingType, TickType
<1>6. \A q \in RunIds : runs'[q].by \in Range(Lanes) /\ exec'[q] \in {"claimed", "preparing"}
            => tick'.pc = "starting" /\ tick'.run = q
  <2> TAKE q \in RunIds
  <2>1. CASE q = r
    BY <1>1, <2>1
  <2>2. CASE q # r
    BY <1>1, <2>2 DEF LaneInv, LaneRunsTracked
  <2> QED
    BY <2>1, <2>2
<1>7. LaneRunsTracked'
  <2>1. tick'.pc = "starting" => runs'[tick'.run].by = lane'
    BY <1>1, <1>5 DEF LaneInv, LaneRunsTracked, lane
  <2>2. ASSUME phase' # "down", NEW l \in Range(Lanes)
        PROVE  engagedFor(l)' \subseteq IF inHand(l)' THEN tick'.active \cup {tick'.run}
                                                     ELSE laneRuns'[l]
    <3>1. inHand(l) => tick' = tick
      BY DEF inHand
    <3>2. engagedFor(l) \subseteq IF inHand(l) THEN tick.active \cup {tick.run} ELSE laneRuns[l]
      BY <2>2 DEF LaneInv, LaneRunsTracked
    <3> QED
      BY <1>3, <1>4, <3>1, <3>2
  <2> QED
    BY <1>6, <2>1, <2>2 DEF LaneRunsTracked
<1>8. LanesBounded'
  BY <1>3 DEF LaneInv, LanesBounded, lane
<1> QED
  BY <1>7, <1>8 DEF LaneInv

LEMMA LaneStarted ==
    ASSUME CoreInv, LaneInv, claimAndStart, UNCHANGED <<laneRuns, phase>>
    PROVE  LaneInv'
<1> USE DEF CoreInv, TypeOK
<1>1. PICK r \in RunIds, item \in Items :
        /\ tryClaim(r, item, lane)
        /\ tick' = [tick EXCEPT !.pc = "starting", !.run = r, !.left = Tail(@)]
  BY LaneStart
<1>2. lane \in Range(Lanes) /\ tick.pc = "dispatch" /\ Cardinality(tick.active) < capacity(lane)
      /\ capacity(lane) \in Nat
  BY LaneStart, CapacityType
<1>3. /\ tick'.pc = "starting" /\ tick'.run = r /\ tick'.active = tick.active /\ lane' = lane
  BY <1>1 DEF SchedulingType, TickType, lane
<1>4. /\ runs' = [runs EXCEPT ![r] = [item |-> item, by |-> lane, state |-> "none"]]
      /\ exec' = [exec EXCEPT ![r] = "claimed"]
      /\ unused(r)
  BY <1>1, <1>2, Claimed, StarterTypes
<1>5. /\ \A q \in RunIds \ {r} : runs'[q] = runs[q] /\ exec'[q] = exec[q]
      /\ runs'[r].by = lane
  BY <1>4 DEF TableInv, TableType
<1>6. runs[r].by \notin Range(Lanes)
  BY <1>4, LanesAssumption DEF unused
<1>7. ASSUME NEW l \in Range(Lanes), l # lane
      PROVE  engagedFor(l)' = engagedFor(l) /\ ~inHand(l) /\ ~inHand(l)'
  BY <1>3, <1>5, <1>6, <1>7 DEF engagedFor, engaged, inHand
<1>8. engagedFor(lane)' \subseteq engagedFor(lane) \cup {r}
  BY <1>3, <1>5 DEF engagedFor, engaged
<1>9. phase # "down"
  <2>1. tick # Idle
    BY <1>2 DEF Idle, At
  <2> QED
    BY <2>1 DEF DownIsIdle
<1>10. engagedFor(lane) \subseteq tick.active
  <2>1. tick.run = NoRun /\ NoRun \notin RunIds
    BY <1>2, TableAssumption DEF TickPlace
  <2>2. engagedFor(lane) \subseteq tick.active \cup {tick.run}
    BY <1>2, <1>9 DEF LaneInv, LaneRunsTracked, inHand
  <2> QED
    BY <2>1, <2>2 DEF engagedFor
<1>11. LaneRunsTracked'
  <2>1. \A q \in RunIds : runs'[q].by \in Range(Lanes) /\ exec'[q] \in {"claimed", "preparing"}
            => q = r
    BY <1>2, <1>5 DEF LaneInv, LaneRunsTracked
  <2>2. ASSUME NEW l \in Range(Lanes)
        PROVE  engagedFor(l)' \subseteq IF inHand(l)' THEN tick'.active \cup {tick'.run}
                                                     ELSE laneRuns'[l]
    <3>1. CASE l = lane
      BY <1>3, <1>8, <1>10, <3>1 DEF inHand
    <3>2. CASE l # lane
      BY <1>7, <1>9, <2>2, <3>2 DEF LaneInv, LaneRunsTracked
    <3> QED
      BY <3>1, <3>2
  <2> QED
    BY <1>3, <1>5, <2>1, <2>2 DEF LaneRunsTracked
<1>12. LanesBounded'
  <2>1. IsFiniteSet(tick.active)
    BY DEF LaneInv, LanesBounded
  <2>2. IsFiniteSet(tick.active \cup {r}) /\ Cardinality(tick.active \cup {r}) <= capacity(lane)
    BY <1>2, <2>1, Added
  <2>3. engagedFor(lane)' \subseteq tick.active \cup {r}
    BY <1>8, <1>10
  <2>4. IsFiniteSet(engagedFor(lane)') /\ Cardinality(engagedFor(lane)') <= capacity(lane)
    <3> HIDE DEF engagedFor
    <3> QED
      BY <1>2, <2>2, <2>3, Smaller
  <2> QED
    BY <1>2, <1>3, <1>7, <2>1, <2>4 DEF LaneInv, LanesBounded
<1> QED
  BY <1>11, <1>12 DEF LaneInv

LEMMA LaneDiscovered ==
    ASSUME CoreInv, LaneInv, DiscoverLane, UNCHANGED phase
    PROVE  LaneInv'
<1> USE DEF CoreInv, TypeOK
<1>1. /\ tick.pc = "lanes" /\ tick'.pc = "dispatch" /\ tick'.active = activeLaneRunIds(lane)
      /\ lane' = lane /\ lane \in Range(Lanes) /\ UNCHANGED <<runs, exec, laneRuns>>
  <2>1. PICK open : tick' = [tick EXCEPT !.pc = "dispatch", !.left = open,
                                         !.active = activeLaneRunIds(lane)]
    BY DEF DiscoverLane
  <2> QED
    BY <2>1, Places DEF DiscoverLane, AtLane, lane, SchedulingType, TickType, TickPlace, tableVars
<1>2. phase # "down"
  BY <1>1 DEF DownIsIdle, Idle, At
<1>3. engagedFor(lane) \subseteq activeLaneRunIds(lane)
  <2>1. engagedFor(lane) \subseteq laneRuns[lane]
    BY <1>1, <1>2 DEF LaneInv, LaneRunsTracked, inHand
  <2>2. ASSUME NEW r \in engagedFor(lane)
        PROVE  ~isTerminal(r)
    <3>1. exec[r] \notin {"claimed", "preparing"}
      BY <1>1 DEF LaneInv, LaneRunsTracked, engagedFor
    <3> QED
      BY <3>1 DEF engagedFor, engaged, TableInv, RowsCoherent, isTerminal
  <2> QED
    BY <2>1, <2>2 DEF activeLaneRunIds
<1>4. IsFiniteSet(activeLaneRunIds(lane)) /\ Cardinality(activeLaneRunIds(lane)) <= capacity(lane)
  <2>1. activeLaneRunIds(lane) \subseteq laneRuns[lane]
    BY DEF activeLaneRunIds
  <2> HIDE DEF activeLaneRunIds
  <2> QED
    BY <1>1, <2>1, Smaller, CapacityType DEF LaneInv, LanesBounded
<1>5. \A l \in Range(Lanes) : engagedFor(l)' = engagedFor(l) /\ ~inHand(l)
  BY <1>1 DEF engagedFor, engaged, inHand
<1>6. LaneRunsTracked'
  <2>1. ASSUME NEW l \in Range(Lanes)
        PROVE  engagedFor(l)' \subseteq IF inHand(l)' THEN tick'.active \cup {tick'.run}
                                                     ELSE laneRuns'[l]
    <3>1. CASE l = lane
      BY <1>1, <1>3, <1>5, <3>1 DEF inHand
    <3>2. CASE l # lane
      BY <1>1, <1>2, <1>5, <3>2 DEF inHand, LaneInv, LaneRunsTracked
    <3> QED
      BY <3>1, <3>2
  <2> QED
    BY <1>1, <2>1 DEF LaneRunsTracked, LaneInv
<1>7. LanesBounded'
  BY <1>1, <1>4, <1>5 DEF LaneInv, LanesBounded
<1> QED
  BY <1>6, <1>7 DEF LaneInv

LEMMA LaneSaved ==
    ASSUME CoreInv, LaneInv, SaveLane, UNCHANGED phase
    PROVE  LaneInv'
<1> USE DEF CoreInv, TypeOK
<1>1. /\ tick.pc = "dispatch" /\ tick'.pc = "lanes" /\ tick'.active = {} /\ lane \in Range(Lanes)
      /\ laneRuns' = [laneRuns EXCEPT ![lane] = tick.active]
      /\ UNCHANGED <<runs, exec>>
  BY Places DEF SaveLane, At, lane, TickPlace, tableVars
<1>2. phase # "down"
  BY <1>1 DEF DownIsIdle, Idle, At
<1>3. engagedFor(lane) \subseteq tick.active
  <2>1. tick.run = NoRun /\ NoRun \notin RunIds
    BY <1>1, TableAssumption DEF TickPlace
  <2>2. engagedFor(lane) \subseteq tick.active \cup {tick.run}
    BY <1>1, <1>2 DEF LaneInv, LaneRunsTracked, inHand
  <2> QED
    BY <2>1, <2>2 DEF engagedFor
<1>4. \A l \in Range(Lanes) :
        /\ engagedFor(l)' = engagedFor(l) /\ ~inHand(l)'
        /\ l # lane => ~inHand(l)
        /\ laneRuns'[l] = IF l = lane THEN tick.active ELSE laneRuns[l]
  BY <1>1 DEF engagedFor, engaged, inHand, SchedulingType
<1>5. LaneRunsTracked'
  <2>1. ASSUME NEW l \in Range(Lanes)
        PROVE  engagedFor(l)' \subseteq laneRuns'[l]
    <3>1. CASE l = lane
      BY <1>3, <1>4, <3>1
    <3>2. CASE l # lane
      <4>1. engagedFor(l) \subseteq laneRuns[l]
        BY <1>2, <1>4, <3>2 DEF LaneInv, LaneRunsTracked
      <4> QED
        BY <1>4, <3>2, <4>1
    <3> QED
      BY <3>1, <3>2
  <2>2. \A r \in RunIds : ~(runs'[r].by \in Range(Lanes) /\ exec'[r] \in {"claimed", "preparing"})
    BY <1>1 DEF LaneInv, LaneRunsTracked
  <2> QED
    BY <1>1, <1>4, <2>1, <2>2 DEF LaneRunsTracked
<1>6. LanesBounded'
  <2>1. ASSUME NEW l \in Range(Lanes)
        PROVE  /\ IsFiniteSet(laneRuns'[l]) /\ Cardinality(laneRuns'[l]) <= capacity(l)
               /\ IsFiniteSet(engagedFor(l)') /\ Cardinality(engagedFor(l)') <= capacity(l)
    <3>1. IsFiniteSet(engagedFor(l)') /\ Cardinality(engagedFor(l)') <= capacity(l)
      BY <1>4 DEF LaneInv, LanesBounded
    <3>2. CASE l = lane
      BY <1>1, <1>4, <3>1, <3>2 DEF LaneInv, LanesBounded
    <3>3. CASE l # lane
      BY <1>4, <3>1, <3>3 DEF LaneInv, LanesBounded
    <3> QED
      BY <3>2, <3>3
  <2>2. IsFiniteSet(tick'.active)
    BY <1>1, FS_EmptySet
  <2> QED
    BY <1>1, <2>1, <2>2 DEF LanesBounded
<1> QED
  BY <1>5, <1>6 DEF LaneInv

\* A run of no dispatch under way takes a step, or a person answers it.
LEMMA LanesStepped ==
    ASSUME CoreInv, LaneInv, NEW r \in RunIds, TableStep(r), UNCHANGED <<laneRuns, phase>>,
           \/ tick' = tick
           \/ /\ tick.pc = "firing" /\ tick'.pc \notin {"dispatch", "starting"}
              /\ tick'.active \in {tick.active, {}}
    PROVE  LaneInv'
<1> USE DEF CoreInv
<1>1. /\ \A q \in RunIds : runs'[q].by = runs[q].by /\ (engaged(q)' => engaged(q))
      /\ \A q \in RunIds : exec'[q] \in {"claimed", "preparing"}
                            => exec[q] \in {"claimed", "preparing"}
  BY Stepped
<1>2. \A l \in Range(Lanes) :
        /\ engagedFor(l)' \subseteq engagedFor(l)
        /\ IsFiniteSet(engagedFor(l)') /\ Cardinality(engagedFor(l)') <= capacity(l)
  BY <1>1, FewerEngaged DEF LaneInv
<1>3. \A l \in Range(Lanes) : inHand(l)' <=> inHand(l)
  BY DEF inHand, lane
<1>4. LaneRunsTracked'
  <2>1. \A q \in RunIds : runs'[q].by \in Range(Lanes) /\ exec'[q] \in {"claimed", "preparing"}
            => tick'.pc = "starting" /\ tick'.run = q
    BY <1>1 DEF LaneInv, LaneRunsTracked
  <2>2. tick'.pc = "starting" => runs'[tick'.run].by = lane'
    <3> SUFFICES ASSUME tick'.pc = "starting" PROVE runs'[tick'.run].by = lane'
      OBVIOUS
    <3>1. tick' = tick /\ tick.run \in RunIds
      BY DEF TickPlace, TypeOK, SchedulingType, TickType
    <3> QED
      BY <1>1, <3>1 DEF LaneInv, LaneRunsTracked, lane
  <2>3. ASSUME phase' # "down", NEW l \in Range(Lanes)
        PROVE  engagedFor(l)' \subseteq IF inHand(l)' THEN tick'.active \cup {tick'.run}
                                                     ELSE laneRuns'[l]
    <3>1. inHand(l) => tick' = tick
      BY DEF inHand
    <3>2. engagedFor(l) \subseteq IF inHand(l) THEN tick.active \cup {tick.run} ELSE laneRuns[l]
      BY <2>3 DEF LaneInv, LaneRunsTracked
    <3> QED
      BY <1>2, <1>3, <3>1, <3>2
  <2> QED
    BY <2>1, <2>2, <2>3 DEF LaneRunsTracked
<1>5. LanesBounded'
  BY <1>2, FS_EmptySet DEF LaneInv, LanesBounded, lane
<1> QED
  BY <1>4, <1>5 DEF LaneInv

\* The start a dispatch awaits comes back: the run has parked or ended, or it threw.
LEMMA LaneReturned ==
    ASSUME OneByOne, CoreInv, LaneInv, NEW r \in RunIds, TableStep(r),
           UNCHANGED <<laneRuns, phase>>, tick.pc = "starting", tick.run = r,
           \/ /\ tick' = [tick EXCEPT !.pc = "dispatch", !.run = NoRun, !.active = @ \cup {r}]
              /\ Park(r) \/ FinishEnd(r)
           \/ tick' = Idle /\ StartThrows(r) /\ runs[r].by \in Throwing
    PROVE  LaneInv'
<1> USE DEF CoreInv
<1>1. \A q \in RunIds : runs'[q].by = runs[q].by /\ (engaged(q)' => engaged(q))
  BY Stepped
<1>2. \A l \in Range(Lanes) :
        /\ engagedFor(l)' \subseteq engagedFor(l)
        /\ IsFiniteSet(engagedFor(l)') /\ Cardinality(engagedFor(l)') <= capacity(l)
  BY <1>1, FewerEngaged DEF LaneInv
<1>3. \A q \in RunIds : runs'[q].by \in Range(Lanes) => exec'[q] \notin {"claimed", "preparing"}
  <2> TAKE q \in RunIds
  <2>1. CASE q = r
    BY <2>1 DEF Park, FinishEnd, StartThrows, TableInv, TableType
  <2>2. CASE q # r
    BY <2>2, Stepped DEF LaneInv, LaneRunsTracked
  <2> QED
    BY <2>1, <2>2
<1>4. /\ lane \in Range(Lanes) /\ runs[r].by = lane /\ phase # "down"
      /\ IsFiniteSet(tick.active) /\ Cardinality(tick.active) < capacity(lane)
      /\ capacity(lane) \in Nat
  BY Places, CapacityType DEF LaneInv, LaneRunsTracked, LanesBounded, TickPlace, lane, DownIsIdle,
     Idle, At
<1>5. /\ engagedFor(lane) \subseteq tick.active \cup {r}
      /\ \A l \in Range(Lanes) \ {lane} : engagedFor(l) \subseteq laneRuns[l]
  BY <1>4 DEF LaneInv, LaneRunsTracked, inHand
<1>6. CASE tick' = [tick EXCEPT !.pc = "dispatch", !.run = NoRun, !.active = @ \cup {r}]
  <2>1. /\ tick'.pc = "dispatch" /\ tick'.active = tick.active \cup {r} /\ lane' = lane
    BY <1>6 DEF TypeOK, SchedulingType, TickType, lane
  <2>2. IsFiniteSet(tick'.active) /\ Cardinality(tick'.active) <= capacity(lane)
    <3>1. IsFiniteSet(tick.active \cup {r}) /\ Cardinality(tick.active \cup {r}) <= capacity(lane)
      BY <1>4, Added
    <3> QED
      BY <2>1, <3>1
  <2>3. ASSUME NEW l \in Range(Lanes)
        PROVE  engagedFor(l)' \subseteq IF inHand(l)' THEN tick'.active \cup {tick'.run}
                                                     ELSE laneRuns'[l]
    <3>1. inHand(l)' <=> l = lane
      BY <2>1 DEF inHand
    <3>2. CASE l = lane
      BY <1>2, <1>5, <2>1, <3>1, <3>2
    <3>3. CASE l # lane
      BY <1>2, <1>5, <3>1, <3>3
    <3> QED
      BY <3>2, <3>3
  <2>4. LaneRunsTracked'
    BY <1>3, <2>1, <2>3 DEF LaneRunsTracked
  <2>5. LanesBounded'
    BY <1>2, <2>1, <2>2 DEF LaneInv, LanesBounded
  <2> QED
    BY <2>4, <2>5 DEF LaneInv
<1>7. CASE tick' = Idle /\ StartThrows(r) /\ runs[r].by \in Throwing
  <2>1. Cardinality(tick.active) = 0
    <3>1. capacity(lane) = 1
      BY <1>4, <1>7 DEF OneByOne
    <3> QED
      BY <1>4, <3>1, FS_CardinalityType
  <2>2. engagedFor(lane) \subseteq {r}
    BY <1>4, <1>5, <2>1, FS_EmptySet
  <2>3. ~engaged(r)'
    BY <1>7 DEF StartThrows, TableInv, TableType, RowsCoherent, engaged
  <2>4. \A l \in Range(Lanes) : r \notin engagedFor(l)'
    BY <2>3 DEF engagedFor
  <2>5. tick'.pc = "idle" /\ tick'.active = {}
    BY <1>7 DEF Idle, At
  <2>6. ASSUME NEW l \in Range(Lanes)
        PROVE  engagedFor(l)' \subseteq laneRuns'[l] /\ ~inHand(l)'
    <3>1. ~inHand(l)'
      BY <2>5 DEF inHand
    <3>2. CASE l = lane
      <4>1. engagedFor(l)' \subseteq engagedFor(l) /\ engagedFor(l) \subseteq {r}
        BY <1>2, <2>2, <3>2
      <4>2. engagedFor(l)' \subseteq {}
        BY <2>4, <4>1
      <4> QED
        BY <3>1, <4>2
    <3>3. CASE l # lane
      BY <1>2, <1>5, <3>1, <3>3
    <3> QED
      BY <3>2, <3>3
  <2>7. LaneRunsTracked'
    BY <1>3, <2>5, <2>6 DEF LaneRunsTracked
  <2>8. LanesBounded'
    BY <1>2, <2>5, FS_EmptySet DEF LaneInv, LanesBounded
  <2> QED
    BY <2>7, <2>8 DEF LaneInv
<1> QED
  BY <1>6, <1>7

\* The process ends, or starts again and recovers: no dispatch is under way.
LEMMA LanesAtRest ==
    ASSUME CoreInv, LaneInv, laneRuns' = laneRuns, tick' = Idle,
           \A r \in RunIds : /\ exec'[r] = "no" /\ runs'[r].by = runs[r].by
                             /\ engaged(r)' => engaged(r),
           phase' = "down" \/ \A r \in RunIds : ~engaged(r)'
    PROVE  LaneInv'
<1>1. \A l \in Range(Lanes) :
        /\ engagedFor(l)' \subseteq engagedFor(l)
        /\ IsFiniteSet(engagedFor(l)') /\ Cardinality(engagedFor(l)') <= capacity(l)
  BY FewerEngaged DEF LaneInv
<1>2. tick'.pc = "idle" /\ tick'.active = {}
  BY DEF Idle, At
<1>3. LaneRunsTracked'
  <2>1. phase' # "down" => \A l \in Range(Lanes) : engagedFor(l)' \subseteq {} /\ ~inHand(l)'
    BY <1>2 DEF engagedFor, inHand
  <2> QED
    BY <1>2, <2>1 DEF LaneRunsTracked
<1>4. LanesBounded'
  BY <1>1, <1>2, FS_EmptySet DEF LaneInv, LanesBounded
<1> QED
  BY <1>3, <1>4 DEF LaneInv

LEMMA LaneStep ==
    ASSUME OneByOne, CoreInv, LaneInv, [Next]_vars
    PROVE  LaneInv'
<1> USE DEF CoreInv, TypeOK
<1>1. CASE Start
  <2>1. TableInv' /\ exec' = exec /\ \A r \in RunIds : runs'[r].by = runs[r].by /\ ~engaged(r)'
    BY <1>1, Recovered DEF Start, DownIsIdle
  <2>2. laneRuns' = laneRuns /\ tick' = Idle /\ \A r \in RunIds : exec'[r] = "no"
    BY <1>1, <2>1 DEF Start, schedulingVars, DownIsIdle
  <2> QED
    BY <2>1, <2>2, LanesAtRest
<1>2. CASE ProcessEnds
  <2>1. laneRuns' = laneRuns /\ tick' = Idle /\ phase' = "down" /\ Lost
    BY <1>2 DEF ProcessEnds
  <2> QED
    BY <2>1, AllLost, LanesAtRest
<1>3. CASE ServeControlPlane \/ Shutdown \/ StopScheduler \/ Clock \/ UNCHANGED vars
  <2>1. UNCHANGED <<runs, exec, laneRuns, tick>> /\ (phase' # "down" => phase # "down")
    BY <1>3 DEF ServeControlPlane, Shutdown, StopScheduler, Clock, TimePasses, vars, tableVars,
                schedulingVars, processVars
  <2> QED
    BY <2>1, LanesRest
<1>4. ASSUME NEW r \in RunIds, NEW item \in Items, NEW by \in {"scheduler", "manual", "selection"},
             tryClaim(r, item, by), UNCHANGED <<laneRuns, phase, tick>>
      PROVE  LaneInv'
  <2>1. by \in Starters \ {"nobody"} /\ by \notin Range(Lanes)
    BY LanesAssumption DEF Starters
  <2>2. [item |-> item, by |-> by, state |-> "none"] \in Row
    BY <2>1 DEF Row
  <2> QED
    BY <1>4, <2>1, <2>2, Claimed, LanesElsewhere
<1>5. ASSUME NEW i \in Items, SchedulerDispatch(i) \/ Launch(i)
      PROVE  LaneInv'
  <2>1. UNCHANGED <<laneRuns, phase, tick>>
        /\ \E r \in RunIds : tryClaim(r, i, "scheduler") \/ tryClaim(r, i, "manual")
    BY <1>5 DEF SchedulerDispatch, Launch, schedulingVars, processVars
  <2> QED
    BY <1>4, <2>1
<1>6. ASSUME NEW r \in RunIds, RunOn(r)
      PROVE  LaneInv'
  <2>1. TableStep(r) /\ UNCHANGED <<laneRuns, phase>> /\ r # NoRun
    BY <1>6, TableAssumption DEF RunOn, RunStep, TableStep
  <2>2. CASE tick' = tick
    BY <2>1, <2>2, LanesStepped
  <2>3. CASE tick' # tick /\ tick.pc = "firing"
    <3>1. tick' = At("schedules", tick.at + 1)
      BY <1>6, <2>3, RunStepTick DEF RunOn, afterReturn, afterThrow
    <3>2. tick'.pc \notin {"dispatch", "starting"} /\ tick'.active = {}
      BY <3>1 DEF At
    <3> QED
      BY <2>1, <2>3, <3>2, LanesStepped
  <2>4. CASE tick' # tick /\ tick.pc # "firing"
    <3>1. /\ tick.run = r
          /\ \/ /\ tick' = [tick EXCEPT !.pc = "dispatch", !.run = NoRun, !.active = @ \cup {r}]
                /\ Park(r) \/ FinishEnd(r)
             \/ tick' = Idle /\ StartThrows(r) /\ runs[r].by \in Throwing
      BY <1>6, <2>4, RunStepTick DEF RunOn, afterReturn, afterThrow
    <3>2. tick.pc = "starting"
      BY <2>1, <2>4, <3>1 DEF TickPlace
    <3> QED
      BY <2>1, <3>1, <3>2, LaneReturned
  <2> QED
    BY <2>2, <2>3, <2>4
<1>7. CASE Tick
  <2>1. phase' = phase
    BY <1>7 DEF Tick, processVars
  <2>2. CASE (BeginTick /\ UNCHANGED tableVars) \/ PassSchedule \/ ScheduleThrows \/ SchedulesDone
             \/ PassLane \/ EndTick
    <3>1. /\ UNCHANGED <<runs, exec, laneRuns>>
          /\ tick.pc \in {"idle", "schedules", "lanes"}
          /\ tick' = Idle \/ \E pc \in {"schedules", "lanes"}, n \in Nat : tick' = At(pc, n)
      BY <2>2 DEF BeginTick, PassSchedule, ScheduleThrows, SchedulesDone, PassLane, EndTick,
             AtSchedule, AtLane, tableVars, SchedulingType, TickType
    <3>2. tick'.pc \notin {"dispatch", "starting"} /\ tick'.active = {}
      BY <3>1 DEF Idle, At
    <3> QED
      BY <2>1, <3>1, <3>2, LanesPassed
  <2>3. CASE RecordFiring
    <3>1. /\ UNCHANGED <<runs, exec, laneRuns>> /\ tick.pc = "schedules"
          /\ tick'.pc = "fire" /\ tick'.active = tick.active
      BY <2>3 DEF RecordFiring, AtSchedule, tableVars, SchedulingType, TickType
    <3> QED
      BY <2>1, <3>1, LanesPassed
  <2>4. CASE StartScheduled
    <3>1. PICK r \in RunIds : /\ startUnclaimed(r, "schedule")
                             /\ tick' = [tick EXCEPT !.pc = "firing", !.run = r]
      BY <2>4 DEF StartScheduled
    <3>2. /\ tick.pc = "fire" /\ tick'.pc = "firing" /\ tick'.active = tick.active
          /\ laneRuns' = laneRuns
      BY <2>4, <3>1 DEF StartScheduled, SchedulingType, TickType
    <3>3. [item |-> NoItem, by |-> "schedule", state |-> "none"] \in Row
          /\ "schedule" \notin Range(Lanes)
      BY LanesAssumption DEF Row, Starters
    <3> QED
      BY <2>1, <3>1, <3>2, <3>3, StartedUnclaimed, StarterTypes, LanesElsewhere
  <2>5. CASE DiscoverLane \/ SaveLane \/ claimAndStart
    <3>1. claimAndStart => laneRuns' = laneRuns
      BY DEF claimAndStart
    <3> QED
      BY <2>1, <2>5, <3>1, LaneDiscovered, LaneSaved, LaneStarted
  <2>6. CASE RefuseItem \/ ItemAlreadyClaimed
    <3>1. /\ UNCHANGED <<runs, exec, laneRuns>>
          /\ tick'.pc = tick.pc /\ tick'.active = tick.active /\ tick'.run = tick.run
          /\ tick'.at = tick.at
      BY <2>6 DEF RefuseItem, ItemAlreadyClaimed, tableVars, SchedulingType, TickType
    <3> QED
      BY <2>1, <3>1 DEF LaneInv, LaneRunsTracked, LanesBounded, engagedFor, engaged, inHand, lane
  <2> QED
    BY <1>7, <2>2, <2>3, <2>4, <2>5, <2>6 DEF Tick, fireDueSchedules, dispatchLanes
<1>8. CASE People
  <2>1. UNCHANGED <<laneRuns, phase, tick>>
    BY <1>8 DEF People, onSelection, Answer, schedulingVars, processVars
  <2>2. CASE UNCHANGED tableVars
    BY <2>1, <2>2, LanesRest DEF tableVars
  <2>3. ASSUME NEW r \in RunIds, Answer(r)
        PROVE  LaneInv'
    BY <2>1, <2>3, LanesStepped DEF Answer, TableStep
  <2>4. ASSUME NEW i \in Items, NEW w \in Workflows, onSelection(i, w)
        PROVE  LaneInv'
    <3>1. UNCHANGED tableVars \/ \E r \in RunIds : tryClaim(r, i, "selection")
      BY <2>4 DEF onSelection
    <3> QED
      BY <1>4, <2>1, <2>2, <3>1
  <2> QED
    BY <1>8, <2>2, <2>3, <2>4 DEF People
<1> QED
  BY <1>1, <1>2, <1>3, <1>5, <1>6, <1>7, <1>8 DEF Next

LEMMA LaneInvInit == Init => LaneInv
<1> SUFFICES ASSUME Init PROVE LaneInv
  OBVIOUS
<1>1. \A l \in Range(Lanes) : engagedFor(l) = {} /\ laneRuns[l] = {}
  BY DEF Init, TableInit, SchedulingInit, engagedFor, engaged
<1>2. tick.pc = "idle" /\ tick.active = {} /\ phase = "down" /\ \A r \in RunIds : exec[r] = "no"
  BY DEF Init, TableInit, SchedulingInit, Idle, At
<1>3. IsFiniteSet({}) /\ Cardinality({}) = 0
  BY FS_EmptySet
<1>4. LanesBounded
  BY <1>1, <1>2, <1>3, CapacityType DEF LanesBounded
<1> QED
  BY <1>2, <1>4 DEF LaneInv, LaneRunsTracked

\* No limit is exceeded: what a lane has parked or in execution stays within its
\* capacity, and what the version 1 scheduler counts within its own, whatever
\* crashes, shuts down, parks and is answered.  OneByOne is needed: a start that
\* throws ends the tick before dispatchLane has saved the runs it started.
THEOREM LimitsKept == OneByOne /\ Spec => []CapacityKept
<1> SUFFICES ASSUME OneByOne PROVE Spec => []CapacityKept
  OBVIOUS
<1>1. Init => LaneInv
  BY LaneInvInit
<1>2. CoreInv /\ LaneInv /\ [Next]_vars => LaneInv'
  BY LaneStep
<1>3. CoreInv /\ LaneInv => CapacityKept
  <2> SUFFICES ASSUME CoreInv, LaneInv PROVE CapacityKept
    OBVIOUS
  <2>1. ASSUME NEW l \in Range(Lanes)
        PROVE  Cardinality(ofLane(l)) <= capacity(l)
    <3>1. ofLane(l) \subseteq engagedFor(l)
      BY DEF ofLane, engagedFor, occupies, engaged, CoreInv, TypeOK, TableType
    <3>2. IsFiniteSet(engagedFor(l)) /\ Cardinality(engagedFor(l)) <= capacity(l)
      BY DEF LaneInv, LanesBounded
    <3> HIDE DEF engagedFor
    <3> QED
      BY <3>1, <3>2, Smaller, CapacityType
  <2> QED
    BY <2>1 DEF CapacityKept, LaneWithinCapacity, WithinMaxConcurrentRuns, CoreInv, RunningCounted
<1> QED
  BY <1>1, <1>2, <1>3, CoreInvariant, PTL DEF Spec
--------------------------------------------------------------------------------
(* Learned rules *)

RoutingInv ==
    /\ decisions \in Seq([item : Items, workflow : Workflows])
    /\ rules \in [RuleNames -> Suggestions \cup {NoRule}]
    /\ proposals \in [RuleNames -> Suggestions \cup {NoRule}]
    /\ \A n \in RuleNames : \A s \in {rules[n], proposals[n]} \ {NoRule} :
        \E k \in 0..Len(decisions) : agreedOn(s, decisions, k)

LEMMA RulesSame == RoutingInv /\ UNCHANGED routingVars => RoutingInv'
  BY DEF RoutingInv, routingVars

LEMMA RulesStep ==
    ASSUME RoutingInv, [Next]_vars
    PROVE  RoutingInv'
<1>1. CASE UNCHANGED routingVars
  BY <1>1, RulesSame
<1>2. ASSUME NEW i \in Items, NEW w \in Workflows, onSelection(i, w)
      PROVE  RoutingInv'
  <2>1. /\ decisions' = Append(decisions, [item |-> i, workflow |-> w])
        /\ UNCHANGED <<rules, proposals>>
    BY <1>2 DEF onSelection, recordDecision
  <2>2. /\ decisions' \in Seq([item : Items, workflow : Workflows])
        /\ Len(decisions') = Len(decisions) + 1 /\ Len(decisions) \in Nat
        /\ \A j \in 1..Len(decisions) : decisions'[j] = decisions[j]
    BY <2>1 DEF RoutingInv
  <2>3. ASSUME NEW s, NEW k \in 0..Len(decisions), agreedOn(s, decisions, k)
        PROVE  agreedOn(s, decisions', k) /\ k \in 0..Len(decisions')
    <3>1. seen(s.attribute, decisions', k) = seen(s.attribute, decisions, k)
      BY <2>2 DEF seen
    <3>2. \A j \in seen(s.attribute, decisions, k) : decisions'[j] = decisions[j]
      BY <2>2 DEF seen
    <3> QED
      BY <2>2, <2>3, <3>1, <3>2 DEF agreedOn
  <2> QED
    BY <2>1, <2>2, <2>3 DEF RoutingInv
<1>3. ASSUME NEW s \in Suggestions, proposeRule(s)
      PROVE  RoutingInv'
  <2>1. /\ s \in suggestRoutingRules(decisions) /\ RuleName[s] \in RuleNames
        /\ proposals' = [proposals EXCEPT ![RuleName[s]] = s]
        /\ UNCHANGED <<decisions, rules>>
    BY <1>3 DEF proposeRule, suggestRules, RuleNames
  <2>2. agreedOn(s, decisions, Len(decisions)) /\ Len(decisions) \in 0..Len(decisions)
    <3>1. group(s.attribute, decisions) = seen(s.attribute, decisions, Len(decisions))
      BY DEF group, seen, RoutingInv
    <3> QED
      BY <2>1, <3>1 DEF suggestRoutingRules, agreedOn, RoutingInv
  <2>3. proposals' \in [RuleNames -> Suggestions \cup {NoRule}]
    BY <2>1 DEF RoutingInv
  <2>4. \A n \in RuleNames : proposals'[n] = proposals[n] \/ proposals'[n] = s
    BY <2>1 DEF RoutingInv
  <2>5. \A m \in RuleNames : \A r \in {rules[m], proposals'[m]} \ {NoRule} :
            \E k \in 0..Len(decisions) : agreedOn(r, decisions, k)
    BY <2>2, <2>4 DEF RoutingInv
  <2> QED
    BY <2>1, <2>3, <2>5 DEF RoutingInv
<1>4. ASSUME NEW n \in RuleNames, NEW approved \in BOOLEAN, onRuleApproval(n, approved)
      PROVE  RoutingInv'
  <2>1. /\ proposals' = [proposals EXCEPT ![n] = NoRule]
        /\ rules' = rules \/ rules' = [rules EXCEPT ![n] = proposals[n]]
        /\ decisions' = decisions
    BY <1>4 DEF onRuleApproval
  <2>3. \A m \in RuleNames : /\ proposals'[m] \in {proposals[m], NoRule}
                            /\ rules'[m] \in {rules[m], proposals[m]}
    BY <2>1 DEF RoutingInv
  <2>4. /\ rules' \in [RuleNames -> Suggestions \cup {NoRule}]
        /\ proposals' \in [RuleNames -> Suggestions \cup {NoRule}]
    BY <2>1 DEF RoutingInv
  <2>5. \A m \in RuleNames : \A s \in {rules'[m], proposals'[m]} \ {NoRule} :
            \E k \in 0..Len(decisions) : agreedOn(s, decisions, k)
    BY <2>3 DEF RoutingInv
  <2> QED
    BY <2>1, <2>4, <2>5 DEF RoutingInv
<1>5. \/ UNCHANGED routingVars
      \/ \E i \in Items, w \in Workflows : onSelection(i, w)
      \/ RoutingNext
  BY DEF Next, Start, ServeControlPlane, Shutdown, StopScheduler, ProcessEnds, SchedulerDispatch,
         Launch, RunOn, Tick, People, Clock, vars
<1> QED
  BY <1>1, <1>2, <1>3, <1>4, <1>5 DEF RoutingNext

\* Nobody's choice is guessed: a rule that routes items, or that a person is asked
\* to approve, goes back to a moment at which enough selections had been made and
\* all of them agreed, however the approvals and later selections follow.
THEOREM RulesFromAgreement == Spec => []RulesLearnedFromAgreement
<1>1. Init => RoutingInv
  BY DEF Init, RoutingInit, RoutingInv, NoRule
<1>2. RoutingInv /\ [Next]_vars => RoutingInv'
  BY RulesStep
<1>3. RoutingInv => RulesLearnedFromAgreement
  BY DEF RoutingInv, RulesLearnedFromAgreement, listRules
<1> QED
  BY <1>1, <1>2, <1>3, PTL DEF Spec
===============================================================================
